------------------------------ MODULE Turnstile ------------------------------
(***************************************************************************)
(* What a frame gate promises, without locks, waits, flags or jobs: frames *)
(* pass one at a time.  `open` lets any number pass; closed, a frame that  *)
(* was already under way ends at the gate and only `owed` more follow it.  *)
(***************************************************************************)
EXTENDS Naturals

VARIABLES open,      \* frames pass freely
          owed,      \* closed: frames asked for that have not ended yet
          under_way, \* a frame is being drawn; FALSE while one is held
          stepped,   \* owed frames that have ended
          held       \* frames that were held

vars == <<open, owed, under_way, stepped, held>>

Init == /\ open = TRUE /\ owed = 0 /\ under_way = TRUE
        /\ stepped = 0 /\ held = 0

\* Closing it owes no fewer frames than before.
Close == /\ open' = FALSE
         /\ owed' \in Nat /\ owed' >= owed
         /\ UNCHANGED <<under_way, stepped, held>>

Open == /\ open' = TRUE
        /\ owed' = 0
        /\ UNCHANGED <<under_way, stepped, held>>

\* An owed frame ends with more to follow it.
Pass == /\ under_way /\ ~open /\ owed > 1
        /\ owed' = owed - 1
        /\ stepped' = stepped + 1
        /\ UNCHANGED <<open, under_way, held>>

\* The last owed frame, or the one under way when the gate closed, is held.
Hold == /\ under_way /\ ~open /\ owed <= 1
        /\ under_way' = FALSE
        /\ owed' = 0
        /\ stepped' = stepped + owed
        /\ held' = held + 1
        /\ UNCHANGED open

\* A held frame gives way to the next.
GoOn == /\ ~under_way /\ (open \/ owed > 0)
        /\ under_way' = TRUE
        /\ UNCHANGED <<open, owed, stepped, held>>

Next == Open \/ Close \/ Pass \/ Hold \/ GoOn

\* A frame under way ends, and a held one leaves when it may.
Spec == Init /\ [][Next]_vars /\ WF_vars(Pass \/ Hold \/ GoOn)
SafeSpec == Init /\ [][Next]_vars
=============================================================================
