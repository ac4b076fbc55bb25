----------------------------- MODULE MCFrameGate -----------------------------
(* The clients of FrameGate's runs; the theorems' assumptions come along. *)
EXTENDS FrameGateProofs

CONSTANTS c1, c2

MCClients == {c1, c2}
==============================================================================
