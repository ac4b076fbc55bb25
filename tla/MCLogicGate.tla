----------------------------- MODULE MCLogicGate -----------------------------
(* Settings for LogicGate that a configuration cannot spell. *)
EXTENDS LogicGate

AllProbes == {"frame", "scene", "controller"}

\* A gate filled once between two calls, then put in and out, or replaced by the
\* direct pass-through, while the guest is inside its blocks.
Toggled == [kinds |-> {"gate", "direct"}, refusals |-> FALSE, wirings |-> {AllProbes},
            quiet |-> "untilFilled"]

\* The two pass-through controls, one over the other.
Controls == [Toggled EXCEPT !.kinds = {"direct", "counter"}, !.wirings = {AllProbes, {"frame"}}]

\* Refused writes, every set of probes onInstalled can stop at, and words written
\* under the guest.
Anyhow == [kinds |-> {"gate", "counter"}, refusals |-> TRUE,
           wirings |-> {{}, {"frame"}, {"frame", "scene"}, AllProbes}, quiet |-> "never"]

ToggledOrAnyhow == {Toggled, Controls, Anyhow}

\* The first fill, one word at a time, under a guest that keeps calling.
FilledUnderCalls == {[Toggled EXCEPT !.quiet = "never", !.kinds = {"gate"}]}
==============================================================================
