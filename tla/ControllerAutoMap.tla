-------------------------- MODULE ControllerAutoMap ---------------------------
(***************************************************************************)
(* The pad that drives the first player's Pro Controller                    *)
(* (ControllerAutoMap, PadRoster): looked at again whenever a pad was       *)
(* plugged in or out, by what is plugged in then and not by the event.      *)
(***************************************************************************)
EXTENDS Integers, Sequences, FiniteSets, SequencesExt

CONSTANTS
  Pads,        \* gamepads
  MaxPlugged   \* bound: pads plugged in and out

VARIABLES
  plugged,  \* the pads there, in the provider's order, those that connect, and how many came or went
  pads      \* ControllerAutoMap's members, the pads mapped to the player, its controller made

NoPad == "no pad"
ASSUME PadsAreNamed == NoPad \notin Pads

PadsInit ==
  /\ plugged = [there |-> <<>>, connect |-> Pads, moved |-> 0]
  /\ pads = [mapped |-> {}, made |-> FALSE, attached |-> NoPad, gained |-> 0, lost |-> 0, failed |-> FALSE]

\* PadRoster::against.
Lost(mapped) == {p \in mapped : p \notin Range(plugged.there)}
Keeps(mapped) == mapped \ Lost(mapped) # {}

\* attach: the pad connects, and the player's controller is made anew with it alone.
Attached(map, makes) ==
  LET first == plugged.there[1]
  IN IF first \in plugged.connect /\ makes
     THEN [map EXCEPT !.mapped = {first}, !.made = TRUE, !.attached = first, !.gained = @ + 1,
                      !.failed = FALSE]
     ELSE [map EXCEPT !.failed = TRUE]

\* What is lost is let go of, where the player's controller is there.
WithoutLost(map) ==
  LET lost == IF map.made THEN Lost(map.mapped) ELSE {}
  IN [map EXCEPT !.mapped = @ \ lost, !.lost = @ + Cardinality(lost)]
Unnamed(map) == [map EXCEPT !.attached = NoPad]

\* Mutant: the pad last attached is still named when it is gone.
ForgetsToClear(map, makes) ==
  LET left == WithoutLost(map)
  IN IF plugged.there = <<>> \/ (map.made /\ Keeps(map.mapped)) THEN left
     ELSE Attached(Unnamed(left), makes)

Reconciled(map, makes) ==
  LET left == WithoutLost(map)
  IN IF map.made /\ Keeps(map.mapped) THEN left
     ELSE IF plugged.there = <<>> THEN [Unnamed(left) EXCEPT !.failed = FALSE]
     ELSE Attached(Unnamed(left), makes)

\* start: the controller is there with no pad, or could not be created.
StartPads(created, makes) ==
  /\ pads' = Reconciled([pads EXCEPT !.made = created, !.mapped = {}], makes)
  /\ UNCHANGED plugged

\* handleEvent, of a pad added or removed.
HandlePadEvent(makes) == pads' = Reconciled(pads, makes) /\ UNCHANGED plugged

\* A pad comes or goes, or one that would not connect does; the event of it is queued.
Moves(pad) ==
  \/ /\ pad \notin Range(plugged.there)
     /\ plugged' = [plugged EXCEPT !.moved = @ + 1, !.there = Append(@, pad)]
  \/ \E i \in DOMAIN plugged.there :
       /\ plugged.there[i] = pad
       /\ plugged' = [plugged EXCEPT !.moved = @ + 1, !.there = RemoveAt(@, i)]

ConnectsOrNot(pad) ==
  plugged' = [plugged EXCEPT !.moved = @ + 1,
                             !.connect = IF pad \in @ THEN @ \ {pad} ELSE @ \cup {pad}]

\* GET /controllers, read while the host's thread writes it.
ControllersJson == [device |-> pads.attached, gained |-> pads.gained, lost |-> pads.lost]
-----------------------------------------------------------------------------
\* The pad named is the one mapped, and each is counted when it comes and once when it goes.
NamedIsMapped ==
  /\ pads.mapped = (IF ControllersJson.device = NoPad THEN {} ELSE {ControllersJson.device})
  /\ ControllersJson.gained = ControllersJson.lost + Cardinality(pads.mapped)

\* Once every arrival and departure was looked at, a pad that is there drives the player,
\* and none that is not, unless the last one tried would not attach.
PlayedWithWhatIsThere ==
  /\ pads.mapped \subseteq Range(plugged.there)
  /\ plugged.there # <<>> /\ ~pads.failed => pads.mapped # {}
=============================================================================
