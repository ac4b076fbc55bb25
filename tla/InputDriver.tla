----------------------------- MODULE InputDriver -----------------------------
(***************************************************************************)
(* The gamepad a tool drives (InputDriver): a request of the control        *)
(* channel (ControlChannel::applyInput) releases, sets sticks and presses,  *)
(* each under a lock of its own, while the title's gamepad reads poll it.   *)
(***************************************************************************)
EXTENDS Integers, Sequences

CONSTANTS
  Buttons,       \* the buttons a request may name
  Reads,         \* the reads a press may be for
  Positions,     \* where a stick may be held; 0 is centred
  MaxInputs,     \* bound: requests of a behaviour
  MaxPolls       \* bound: reads of a behaviour
ASSUME ReadsAreNatural == Reads \subseteq Nat

VARIABLES
  driver,    \* InputDriver's members, its presses by their number and its sticks as one value each
  asking,    \* what is left of the request being applied
  pad        \* the title's reads, and what was asked for since a release

inputVars == <<driver, asking, pad>>

Sticks == {"left", "right"}
Centred == [stick \in Sticks |-> 0]

InputInit ==
  /\ driver = [pressed |-> <<>>, queued |-> 0, sticks |-> Centred, driving |-> FALSE, lastMask |-> {}]
  /\ asking = <<>>
  /\ pad = [polls |-> 0, requests |-> 0, owed |-> <<>>,
            asked |-> FALSE, sticks |-> Centred]

\* Poll: every press still held is held once more, and goes when its reads are used up.
Poll ==
  /\ pad.polls < MaxPolls
  /\ IF ~driver.driving
     THEN /\ driver' = [driver EXCEPT !.lastMask = {}]
          /\ pad' = [pad EXCEPT !.polls = @ + 1]
     ELSE LET presses == driver.pressed
              held == UNION {presses[n].mask : n \in DOMAIN presses}
              goOn == {n \in DOMAIN presses : presses[n].reads # 1}
          IN /\ driver' = [driver EXCEPT !.pressed = [n \in goOn |-> [presses[n] EXCEPT !.reads = @ - 1]],
                                         !.lastMask = held]
             /\ pad' = [pad EXCEPT !.polls = @ + 1,
                                   !.owed = [n \in DOMAIN pad.owed |->
                                      IF pad.owed[n].mask \subseteq held
                                      THEN [pad.owed[n] EXCEPT !.seen = @ + 1] ELSE pad.owed[n]]]
  /\ UNCHANGED asking

\* Presses with one more, by its number.
WithPress(presses, press) ==
  [n \in DOMAIN presses \cup {driver.queued} |-> IF n = driver.queued THEN press ELSE presses[n]]

\* press, which drops a mask of no button or a count of no read.
Press(mask, reads) ==
  IF mask = {} \/ reads = 0 THEN UNCHANGED <<driver, pad>>
  ELSE /\ driver' = [driver EXCEPT !.pressed = WithPress(@, [mask |-> mask, reads |-> reads]),
                                   !.queued = @ + 1, !.driving = TRUE]
       /\ pad' = [pad EXCEPT !.owed = WithPress(@, [mask |-> mask, reads |-> reads, seen |-> 0]),
                             !.asked = TRUE]

SetStick(stick, position) ==
  /\ driver' = [driver EXCEPT !.sticks[stick] = position, !.driving = TRUE]
  /\ pad' = [pad EXCEPT !.asked = TRUE, !.sticks[stick] = position]

\* Mutant: a player handed back keeps its sticks where they were held.
ReleaseKeepsSticks ==
  /\ driver' = [driver EXCEPT !.pressed = <<>>, !.driving = FALSE, !.lastMask = {}]
  /\ pad' = [pad EXCEPT !.owed = <<>>, !.asked = FALSE, !.sticks = Centred]

Release ==
  /\ driver' = [driver EXCEPT !.pressed = <<>>, !.sticks = Centred, !.driving = FALSE,
                             !.lastMask = {}]
  /\ pad' = [pad EXCEPT !.owed = <<>>, !.asked = FALSE, !.sticks = Centred]

\* A request's parameters, in the order applyInput acts on them.
Parts(releasing, sticks, mask) ==
  (IF releasing THEN <<"release">> ELSE <<>>) \o (IF "left" \in DOMAIN sticks THEN <<"left">> ELSE <<>>)
    \o (IF "right" \in DOMAIN sticks THEN <<"right">> ELSE <<>>) \o (IF mask # {} THEN <<"press">> ELSE <<>>)

PostInput(releasing, sticks, mask, reads, unknown) ==
  /\ asking = <<>> /\ pad.requests < MaxInputs
  /\ asking' = IF unknown THEN <<>>
               ELSE [i \in DOMAIN Parts(releasing, sticks, mask) |->
                       [part |-> Parts(releasing, sticks, mask)[i], sticks |-> sticks,
                        mask |-> mask, reads |-> reads]]
  /\ pad' = [pad EXCEPT !.requests = @ + 1]
  /\ UNCHANGED driver

\* applyInput calls the driver once for each part, the release first and the press last.
AppliesPart ==
  /\ asking # <<>>
  /\ LET part == Head(asking)
     IN \/ part.part = "release" /\ Release
        \/ part.part = "press" /\ Press(part.mask, part.reads)
        \/ part.part \in Sticks /\ SetStick(part.part, part.sticks[part.part])
  /\ asking' = Tail(asking)

InputNext ==
  \/ Poll
  \/ \E releasing, unknown \in BOOLEAN, named \in SUBSET Sticks, mask \in SUBSET Buttons, reads \in Reads :
       \E sticks \in [named -> Positions] : PostInput(releasing, sticks, mask, reads, unknown)
  \/ AppliesPart
-----------------------------------------------------------------------------
\* Every press asked for since the player was handed back is held for as many of the
\* title's reads as it was asked for, and then let go, however presses overlap.
PressesAreSeen ==
  /\ DOMAIN driver.pressed = {n \in DOMAIN pad.owed : pad.owed[n].seen < pad.owed[n].reads}
  /\ \A n \in DOMAIN driver.pressed :
       /\ driver.pressed[n].mask = pad.owed[n].mask
       /\ driver.pressed[n].reads = pad.owed[n].reads - pad.owed[n].seen

\* A player handed back is driven again only by what is asked for afterwards, and by
\* nothing that was asked for before.
HandedBack ==
  /\ driver.driving <=> pad.asked
  /\ driver.sticks = pad.sticks
  /\ ~driver.driving => DOMAIN driver.pressed = {} /\ driver.sticks = Centred
=============================================================================
