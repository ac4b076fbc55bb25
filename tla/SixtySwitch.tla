----------------------------- MODULE SixtySwitch -----------------------------
(***************************************************************************)
(* title::WindWakerPaint and title::SixtyHertz, with the threads that meet *)
(* in them: the guest's display thread, which paints and calls the paint   *)
(* probe; SixtyHertz's own thread, which puts the second paint and then    *)
(* the logic gate in after the first paint; and control-channel threads    *)
(* that take either half in or out (POST /paint, POST /logic).             *)
(*                                                                         *)
(* The logic gate appears as what it answers and what it leaves in guest   *)
(* memory; module LogicGate says how.  pc[t] is the next critical section  *)
(* of thread t; a mutex held from one to the next is in `lock`.            *)
(***************************************************************************)
EXTENDS Naturals

CONSTANTS Clients,       \* control-channel threads
          MaxRequests,   \* bound: requests the clients make in all
          Refusals,      \* which steps may be refused: see Steps
          HalfGates,     \* whether a refused gate may leave its words behind
          FreeOf         \* the owner of a mutex nobody holds

Steps == {"check", "block", "field", "pacing", "slot", "slotBack", "fieldBack",
          "gate", "gateBack"}
ASSUME RefusalsAreSteps == Refusals \subseteq Steps
ASSUME HalfGatesIsBool == HalfGates \in BOOLEAN
ASSUME BoundIsNatural == MaxRequests \in Nat
ASSUME ThreadsDiffer ==
  {"display", "sixty"} \cap Clients = {} /\ FreeOf \notin Clients \cup {"display", "sixty"}

VARIABLES
  \* The display thread in the guest.
  slot,        \* what the vtable slot holds: "title" or "standin"
  field,       \* the display's interval field, in vblanks
  pacing,      \* the emulator's flip pacing, in vblanks
  filled,      \* the stand-in's block holds its words
  discarded,   \* history: a write discarded code the display thread was in
  within,      \* frames the stand-in has still to call, 0 outside its block
  midFrame,    \* the display thread is inside a frame
  \* WindWakerPaint.
  display,     \* the frame probe has seen the display object
  installed, savedField, wroteField, savedPacing, wrotePacing,
  \* The logic gate.
  gateIn,      \* LogicGate::m_enabled
  gateWords,   \* whether the frame logic's block holds the gate
  \* SixtyHertz.
  painted, stopping,
  \* Threads.
  pc, lock, requests, answer,
  lostBack     \* history: which steps of the paint's way back were refused

guestDisplay == <<slot, field, pacing, filled, discarded>>
frames == <<within, midFrame, display>>
paint == <<installed, savedField, wroteField, savedPacing, wrotePacing>>
gate == <<gateIn, gateWords>>
sixty == <<painted, stopping>>
bounds == <<requests, lostBack>>
vars == <<guestDisplay, frames, paint, gate, sixty, pc, lock, bounds, answer>>

TitleInterval == 2
SwapInterval == 1
Switchers == Clients \cup {"sixty"}
Threads == Switchers \cup {"display"}

Init ==
  /\ slot = "title" /\ field = TitleInterval /\ pacing = TitleInterval
  /\ filled = FALSE /\ discarded = FALSE /\ within = 0 /\ midFrame = FALSE /\ display = FALSE
  /\ installed = FALSE /\ savedField = 0 /\ wroteField = FALSE
  /\ savedPacing = 0 /\ wrotePacing = FALSE
  /\ gateIn = FALSE /\ gateWords = FALSE
  /\ painted = FALSE /\ stopping = FALSE
  /\ pc = [t \in Threads |-> CASE t = "display" -> "dispatch"
                               [] t = "sixty"   -> "wait"
                               [] OTHER         -> "idle"]
  /\ lock = [m \in {"paint", "frame", "sixty"} |-> FreeOf]
  /\ requests = 0 /\ lostBack = {}
  /\ answer = [t \in Switchers |-> "none"]

At(t, place) == pc[t] = place
GoTo(t, place) == pc' = [pc EXCEPT ![t] = place]
Free(m) == lock[m] = FreeOf
Take(t, m) == Free(m) /\ lock' = [lock EXCEPT ![m] = t]
MayRefuse(step) == step \in Refusals

\* What going in and out again cannot make good.
RefusesBack(step) ==
  /\ MayRefuse(step)
  /\ lostBack' = lostBack \cup {step} /\ UNCHANGED requests

-----------------------------------------------------------------------------
(* The display thread: the loop's dispatch, the frame, its probe.          *)

\* The loop calls what the slot holds: the title's frame, or the stand-in,
\* which calls that frame twice and branches back to the loop.
Dispatch ==
  /\ At("display", "dispatch")
  /\ within' = IF slot = "standin" THEN 2 ELSE 0
  /\ midFrame' = TRUE
  /\ GoTo("display", "probe")
  /\ UNCHANGED <<guestDisplay, display, paint, gate, sixty, lock, bounds, answer>>

\* Frame::OnCall up to its listener, holding the probe's mutex.
OnCall ==
  /\ At("display", "probe")
  /\ Take("display", "frame")
  /\ display' = TRUE
  /\ GoTo("display", "listener")
  /\ UNCHANGED <<guestDisplay, within, midFrame, paint, gate, sixty, bounds, answer>>

\* SixtyHertz::onPaint, still under the probe's mutex.
OnPaint ==
  /\ At("display", "listener")
  /\ Free("sixty")
  /\ painted' = TRUE
  /\ lock' = [lock EXCEPT !["frame"] = FreeOf]
  /\ GoTo("display", "frame")
  /\ UNCHANGED <<guestDisplay, frames, paint, gate, stopping, bounds, answer>>

\* The frame ends; the stand-in calls its second, or the loop goes round.
FrameEnds ==
  /\ At("display", "frame")
  /\ \/ /\ within = 2
        /\ within' = 1
        /\ GoTo("display", "probe")
        /\ UNCHANGED midFrame
     \/ /\ within # 2
        /\ within' = 0
        /\ midFrame' = FALSE
        /\ GoTo("display", "dispatch")
  /\ UNCHANGED <<guestDisplay, display, paint, gate, sixty, lock, bounds, answer>>

DisplayStep == Dispatch \/ OnCall \/ OnPaint \/ FrameEnds

-----------------------------------------------------------------------------
(* Where a thread goes when a call it made has answered.                   *)

\* Mutants: a refused gate leaves the stand-in; the gate is never asked for.
AfterIgnored(t, call, ok) ==
  IF t \in Clients THEN "idle" ELSE IF call = "paintOn" /\ ok THEN "gateOn" ELSE "done"
AfterPaintOnly(t, call, ok) == IF t \in Clients THEN "idle" ELSE "done"

\* switchOn goes from one half to the next; a client answers its request.
After(t, call, ok) ==
  IF t \in Clients THEN "idle"
  ELSE CASE call = "paintOn" /\ ok -> "gateOn"
         [] call = "gateOn" /\ ~ok -> "paintOff"
         [] OTHER                  -> "done"

\* The call answers; the mutexes t took for it are let go.
Answers(t, call, ok) ==
  /\ GoTo(t, After(t, call, ok))
  /\ answer' = [answer EXCEPT ![t] = IF ok THEN call ELSE "refused"]
  /\ lock' = [m \in DOMAIN lock |-> IF lock[m] = t THEN FreeOf ELSE lock[m]]

Goes(t, place) == GoTo(t, place) /\ UNCHANGED <<lock, answer>>

-----------------------------------------------------------------------------
(* WindWakerPaint::enable, under m_mutex throughout.                       *)

PaintOn(t) ==
  /\ At(t, "paintOn")
  /\ \/ installed /\ Free("paint") /\ Answers(t, "paintOn", TRUE)
     \/ ~installed /\ Take(t, "paint") /\ GoTo(t, "check") /\ UNCHANGED answer
  /\ UNCHANGED <<guestDisplay, frames, paint, gate, sixty, bounds>>

\* The display is read under the probe's mutex; then the vtable, the slot, the
\* loop and the reservation are checked.
Check(t) ==
  /\ At(t, "check")
  /\ Free("frame")
  /\ \/ (~display \/ slot # "title" \/ MayRefuse("check")) /\ Answers(t, "paintOn", FALSE)
     \/ display /\ slot = "title" /\ Goes(t, "block")
  /\ UNCHANGED <<guestDisplay, frames, paint, gate, sixty, bounds>>

\* Mutant: the block is written again whatever it holds.
BlockRewritten(t) ==
  /\ At(t, "block")
  /\ discarded' = (discarded \/ within # 0)
  /\ filled' = TRUE /\ Goes(t, "field")
  /\ UNCHANGED <<slot, field, pacing, frames, paint, gate, sixty, bounds>>

\* A write discards the block's recompiled code, so only words the block does
\* not already hold are written.
Block(t) ==
  /\ At(t, "block")
  /\ discarded' = (discarded \/ (~filled /\ within # 0))
  /\ \/ filled' = TRUE /\ Goes(t, "field")
     \/ /\ ~filled /\ MayRefuse("block")
        /\ UNCHANGED filled /\ Answers(t, "paintOn", FALSE)
  /\ UNCHANGED <<slot, field, pacing, frames, paint, gate, sixty, bounds>>

Field(t) ==
  /\ At(t, "field")
  /\ \/ /\ savedField' = field
        /\ field' = SwapInterval
        /\ wroteField' = TRUE
        /\ Goes(t, "pacing")
     \/ /\ MayRefuse("field")      \* its read keeps what was saved, its write clears it
        /\ savedField' \in {savedField, 0}
        /\ UNCHANGED <<field, wroteField>>
        /\ Answers(t, "paintOn", FALSE)
  /\ UNCHANGED <<slot, pacing, filled, discarded, installed, savedPacing, wrotePacing,
                 frames, gate, sixty, bounds>>

Pacing(t) ==
  /\ At(t, "pacing")
  /\ savedPacing' = pacing
  /\ \/ /\ pacing' = SwapInterval
        /\ wrotePacing' = TRUE
        /\ UNCHANGED <<field, savedField, wroteField>>
        /\ Goes(t, "slot")
     \/ /\ MayRefuse("pacing")
        /\ field' = savedField
        /\ savedField' = 0
        /\ wroteField' = FALSE
        /\ UNCHANGED <<pacing, wrotePacing>>
        /\ Answers(t, "paintOn", FALSE)
  /\ UNCHANGED <<slot, filled, discarded, installed, frames, gate, sixty, bounds>>

\* Mutant: a refused slot leaves the pacing as it was set.
SlotLeavesPacing(t) ==
  /\ At(t, "slot")
  /\ Free("frame")
  /\ \/ slot' = "standin" /\ installed' = TRUE /\ Answers(t, "paintOn", TRUE)
     \/ MayRefuse("slot") /\ UNCHANGED <<slot, installed>> /\ Answers(t, "paintOn", FALSE)
  /\ UNCHANGED <<field, pacing, filled, discarded, savedField, savedPacing, wroteField,
                 wrotePacing, frames, gate, sixty, bounds>>

\* The slot changes under the probe's mutex.
Slot(t) ==
  /\ At(t, "slot")
  /\ Free("frame")
  /\ \/ /\ slot' = "standin"
        /\ installed' = TRUE
        /\ UNCHANGED <<field, pacing, wroteField, wrotePacing>>
        /\ Answers(t, "paintOn", TRUE)
     \/ /\ MayRefuse("slot")
        /\ field' = savedField
        /\ pacing' = savedPacing
        /\ wroteField' = FALSE
        /\ wrotePacing' = FALSE
        /\ UNCHANGED <<slot, installed>>
        /\ Answers(t, "paintOn", FALSE)
  /\ UNCHANGED <<filled, discarded, savedField, savedPacing, frames, gate, sixty, bounds>>

-----------------------------------------------------------------------------
(* WindWakerPaint::disable, under m_mutex and then the probe's mutex.      *)

PaintOff(t) ==
  /\ At(t, "paintOff")
  /\ \/ ~installed /\ Free("paint") /\ Answers(t, "paintOff", TRUE)
     \/ installed /\ Take(t, "paint") /\ GoTo(t, "slotBackLock") /\ UNCHANGED answer
  /\ UNCHANGED <<guestDisplay, frames, paint, gate, sixty, bounds>>

SlotBackLock(t) ==
  /\ At(t, "slotBackLock")
  /\ Take(t, "frame")
  /\ GoTo(t, "slotBack")
  /\ UNCHANGED <<guestDisplay, frames, paint, gate, sixty, bounds, answer>>

SlotBack(t) ==
  /\ At(t, "slotBack")
  /\ \/ /\ slot' = "title"
        /\ installed' = FALSE
        /\ UNCHANGED bounds
        /\ Goes(t, "fieldBack")
     \/ /\ RefusesBack("slotBack")
        /\ UNCHANGED <<slot, installed>>
        /\ Answers(t, "paintOff", FALSE)
  /\ UNCHANGED <<field, pacing, filled, discarded, savedField, wroteField, savedPacing,
                 wrotePacing, frames, gate, sixty>>

\* Mutant: the saved interval is cleared before it is written back.
FieldBackCleared(t) ==
  /\ At(t, "fieldBack")
  /\ field' = IF wroteField THEN 0 ELSE field
  /\ wroteField' = FALSE /\ savedField' = 0
  /\ Goes(t, "pacingBack")
  /\ UNCHANGED <<slot, pacing, filled, discarded, installed, savedPacing, wrotePacing,
                 frames, gate, sixty, bounds>>

\* A refused field returns at once, before the pacing is put back.
FieldBack(t) ==
  /\ At(t, "fieldBack")
  /\ \/ /\ field' = IF wroteField THEN savedField ELSE field
        /\ wroteField' = FALSE
        /\ savedField' = IF wroteField THEN 0 ELSE savedField
        /\ UNCHANGED bounds
        /\ Goes(t, "pacingBack")
     \/ /\ wroteField /\ RefusesBack("fieldBack")
        /\ UNCHANGED <<field, wroteField, savedField>>
        /\ Answers(t, "paintOff", FALSE)
  /\ UNCHANGED <<slot, pacing, filled, discarded, installed, savedPacing, wrotePacing,
                 frames, gate, sixty>>

PacingBack(t) ==
  /\ At(t, "pacingBack")
  /\ pacing' = IF wrotePacing THEN savedPacing ELSE pacing
  /\ savedPacing' = IF wrotePacing THEN 0 ELSE savedPacing
  /\ wrotePacing' = FALSE
  /\ Answers(t, "paintOff", TRUE)
  /\ UNCHANGED <<slot, field, filled, discarded, installed, savedField, wroteField,
                 frames, gate, sixty, bounds>>

-----------------------------------------------------------------------------
(* LogicGate::enable and disable as their callers see them.                *)

GateOn(t) ==
  /\ At(t, "gateOn")
  /\ \/ /\ gateIn' = TRUE /\ gateWords' = TRUE
        /\ Answers(t, "gateOn", TRUE)
     \/ /\ ~gateIn /\ MayRefuse("gate")
        /\ gateWords' \in (IF HalfGates THEN {gateWords, TRUE} ELSE {gateWords})
        /\ UNCHANGED gateIn
        /\ Answers(t, "gateOn", FALSE)
  /\ UNCHANGED <<guestDisplay, frames, paint, sixty, bounds>>

\* Out already, nothing is written.
GateOff(t) ==
  /\ At(t, "gateOff")
  /\ \/ gateIn /\ gateIn' = FALSE /\ gateWords' = FALSE /\ Answers(t, "gateOff", TRUE)
     \/ ~gateIn /\ UNCHANGED gate /\ Answers(t, "gateOff", TRUE)
     \/ gateIn /\ MayRefuse("gateBack") /\ UNCHANGED gate /\ Answers(t, "gateOff", FALSE)
  /\ UNCHANGED <<guestDisplay, frames, paint, sixty, bounds>>

-----------------------------------------------------------------------------
(* SixtyHertz::run and ~SixtyHertz; the control channel's requests.        *)

\* Mutants: the wait has no predicate, or looks for the stop alone.
WokenAnyhow ==
  /\ At("sixty", "wait")
  /\ GoTo("sixty", IF stopping THEN "done" ELSE "paintOn")
  /\ UNCHANGED <<guestDisplay, frames, paint, gate, sixty, lock, bounds, answer>>
WokenByStop ==
  /\ At("sixty", "wait")
  /\ stopping
  /\ GoTo("sixty", "done")
  /\ UNCHANGED <<guestDisplay, frames, paint, gate, sixty, lock, bounds, answer>>

\* The wait for the first paint ends with m_mutex let go, before switchOn.
Woken ==
  /\ At("sixty", "wait")
  /\ Free("sixty")
  /\ painted \/ stopping
  /\ GoTo("sixty", IF stopping THEN "done" ELSE "paintOn")
  /\ UNCHANGED <<guestDisplay, frames, paint, gate, sixty, lock, bounds, answer>>

Stop ==
  /\ ~stopping
  /\ Free("sixty")
  /\ stopping' = TRUE
  /\ UNCHANGED <<guestDisplay, frames, paint, gate, painted, pc, lock, bounds, answer>>

Request(c, call) ==
  /\ At(c, "idle")
  /\ requests < MaxRequests
  /\ requests' = requests + 1 /\ UNCHANGED lostBack
  /\ GoTo(c, call)
  /\ UNCHANGED <<guestDisplay, frames, paint, gate, sixty, lock, answer>>

SwitchStep(t) ==
  \/ PaintOn(t) \/ Check(t) \/ Block(t) \/ Field(t) \/ Pacing(t) \/ Slot(t)
  \/ PaintOff(t) \/ SlotBackLock(t) \/ SlotBack(t) \/ FieldBack(t) \/ PacingBack(t)
  \/ GateOn(t) \/ GateOff(t)

Next ==
  \/ DisplayStep
  \/ Woken \/ Stop
  \/ \E t \in Switchers : SwitchStep(t)
  \/ \E c \in Clients :
       \E call \in {"paintOn", "paintOff", "gateOn", "gateOff"} : Request(c, call)

Spec == Init /\ [][Next]_vars

\* Every thread runs.  Mutexes are taken again and again by the display thread,
\* so a switcher that waits for one needs to get it in the end.
FairSpec == /\ Spec
            /\ WF_vars(DisplayStep)
            /\ WF_vars(Woken)
            /\ \A t \in Switchers : SF_vars(SwitchStep(t))

-----------------------------------------------------------------------------
TypeOK ==
  /\ slot \in {"title", "standin"}
  /\ {field, pacing} \subseteq {SwapInterval, TitleInterval}
  /\ {savedField, savedPacing} \subseteq {0, SwapInterval, TitleInterval}
  /\ {filled, discarded, midFrame, display, installed, wroteField, wrotePacing,
      gateIn, gateWords, painted, stopping} \subseteq BOOLEAN
  /\ within \in 0..2 /\ requests \in 0..MaxRequests /\ lostBack \subseteq Refusals
  /\ lock \in [{"paint", "frame", "sixty"} -> Threads \cup {FreeOf}]
  /\ DOMAIN pc = Threads /\ DOMAIN answer = Switchers

\* The stand-in paints twice a pass, so while the slot names it the title's field
\* and the emulator's pacing both ask for one vblank, at every moment of putting it
\* in or out and whatever is refused on the way; and taken out it leaves the pacing
\* the title had, however often it went in and out and from whichever thread, once
\* the title's field has never refused to be put back.
PacingFollowsSlot ==
  /\ slot = "standin" => field = SwapInterval /\ pacing = SwapInterval
  /\ Free("paint") /\ ~installed /\ "fieldBack" \notin lostBack =>
       field = TitleInterval /\ pacing = TitleInterval

\* ISSUE-010: the block is never written while the display thread is inside it,
\* though going out and in again leaves the thread there.
NeverDiscardedInside == ~discarded

\* SixtyHertz asks for the second paint once the display is known, so it is
\* never refused for asking before the first paint.
SixtyAsksInTime == pc["sixty"] \in {"paintOn", "check"} => display

\* "Neither half runs without the other": once SixtyHertz is done, a second paint
\* still in runs with the gate's words, and a gate it reports in has the second
\* paint, whatever was refused on the way in.  A client's request, or a slot that refuses
\* to be put back, ends the promise.
NeitherAlone ==
  pc["sixty"] = "done" /\ requests = 0 /\ "slotBack" \notin lostBack =>
    /\ slot = "standin" => gateWords
    /\ gateIn => slot = "standin"

\* The comment in enable: "Held so the display thread is not mid-frame when the
\* slot changes."
SlotNotMidFrame == [][slot' # slot => ~midFrame]_vars

\* No order of the three mutexes stops anyone: the display thread goes on painting,
\* every request is answered, and SixtyHertz finishes what it began.
EveryoneGetsOn ==
  /\ []<>(pc["display"] = "dispatch")
  /\ \A c \in Clients : pc[c] # "idle" ~> pc[c] = "idle"
  /\ painted ~> pc["sixty"] = "done"

\* The product comes to run at sixty by itself, unless it is stopped, a step is
\* refused or a client switches first.
ComesOn ==
  <>(\/ slot = "standin" /\ gateWords
     \/ stopping \/ answer["sixty"] = "refused" \/ requests > 0)
=============================================================================
