------------------------- MODULE MCDrawInterpolation -------------------------
(* Settings for DrawInterpolation that a configuration cannot spell. *)
EXTENDS DrawInterpolation

Steady == [base |-> "draw", outcomes |-> {"blended"}, undrawn |-> {}, switches |-> {},
           ticks |-> 4]

\* Probes that fail, things not drawn.
Faulty == [base |-> "execute", outcomes |-> {"blended", "left", "unreadable"},
           undrawn |-> {"camera", "actor"}, switches |-> {}, ticks |-> 3]

\* The gate and the interpolation switched at any moment.
Switched == [base |-> "execute", outcomes |-> {"blended"}, undrawn |-> {"actor"},
             switches |-> {"interpolation", "logic"}, ticks |-> 4]

AllSettings == {Steady, Faulty, Switched}

\* The gate alone is switched.
GateSwitched == {[Steady EXCEPT !.switches = {"logic"}]}
==============================================================================
