-------------------------- MODULE SixtySwitchProofs --------------------------
(***************************************************************************)
(* The two halves of the sixty switch, for any set of clients, any number   *)
(* of requests and whatever steps are refused.                              *)
(***************************************************************************)
EXTENDS SixtySwitch, TLAPS

\* The places of a thread that is inside WindWakerPaint's mutex.
Inside == {"check", "block", "field", "pacing", "slot", "slotBackLock", "slotBack",
           "fieldBack", "pacingBack"}
Places == Inside \cup {"idle", "wait", "paintOn", "paintOff", "gateOn", "gateOff", "done"}

PlacesOK ==
  /\ pc \in [Threads -> Places \cup {"dispatch", "probe", "listener", "frame"}]
  /\ \A t \in Switchers : pc[t] \in Places
  /\ pc["display"] \in {"dispatch", "probe", "listener", "frame"}
  /\ lock \in [{"paint", "frame", "sixty"} -> Threads \cup {FreeOf}]
  /\ requests \in Nat

\* The mutex is held by whoever is inside it.
Exclusive == \A t \in Switchers : pc[t] \in Inside => lock["paint"] = t

KeepsBoth == wroteField /\ savedField = TitleInterval /\ wrotePacing /\ savedPacing = TitleInterval
Kept == "fieldBack" \notin lostBack

\* How far a thread on its way in has come,
WayIn(t) ==
  /\ pc[t] \in {"check", "block", "field", "pacing", "slot"} => ~installed
  /\ pc[t] \in {"field", "pacing", "slot"} => filled
  /\ pc[t] \in {"pacing", "slot"} => field = SwapInterval
  /\ pc[t] = "slot" => pacing = SwapInterval
  /\ Kept => /\ pc[t] \in {"check", "block", "field"} => field = TitleInterval
             /\ pc[t] \in {"check", "block", "field", "pacing"} => pacing = TitleInterval
             /\ pc[t] = "pacing" => wroteField /\ savedField = TitleInterval
             /\ pc[t] = "slot" => KeepsBoth
\* and on its way out.
WayOut(t) ==
  /\ pc[t] \in {"slotBackLock", "slotBack"} => installed
  /\ pc[t] \in {"fieldBack", "pacingBack"} => ~installed
  /\ Kept => /\ pc[t] = "fieldBack" => KeepsBoth
             /\ pc[t] = "pacingBack" => /\ field = TitleInterval
                                        /\ wrotePacing /\ savedPacing = TitleInterval

\* In, the title's intervals are kept; out, with nobody inside, they are back.
InOrOut ==
  /\ slot = "standin" <=> installed
  /\ installed => filled /\ field = SwapInterval /\ pacing = SwapInterval /\ (Kept => KeepsBoth)
  /\ Kept /\ ~installed /\ (\A t \in Switchers : pc[t] \notin Inside) =>
       field = TitleInterval /\ pacing = TitleInterval

Halves == Exclusive /\ InOrOut /\ \A t \in Switchers : WayIn(t) /\ WayOut(t)

\* The stand-in runs only where it was filled, and is never rewritten.
Whole == ~discarded /\ (within # 0 => filled)

\* What SixtyHertz waits for comes after the display was seen.
SeenFirst ==
  /\ painted \/ pc["display"] = "listener" => display
  /\ SixtyAsksInTime

\* SixtyHertz left alone: how far it has come, and which halves are in.
SixtyWay ==
  /\ pc["sixty"] \notin {"gateOn", "done"} => ~gateIn
  /\ pc["sixty"] \in {"wait", "paintOn", "check", "block", "field", "pacing", "slot"} => ~installed
  /\ pc["sixty"] = "gateOn" => installed
  /\ pc["sixty"] # "gateOff"
  /\ NeitherAlone
Alone == requests = 0 => SixtyWay /\ \A c \in Clients : pc[c] = "idle"

IInv == PlacesOK /\ Halves /\ Whole /\ SeenFirst /\ Alone

Facts == <<slot, field, pacing, filled, paint, lostBack>>
-----------------------------------------------------------------------------
(* How a thread moves, and what it leaves to the others.                    *)

\* A thread that goes somewhere leaves every other where it is.
LEMMA Moved ==
  ASSUME PlacesOK, NEW t \in Switchers, NEW p \in Places, GoTo(t, p)
  PROVE  /\ pc'[t] = p /\ (\A u \in Threads \ {t} : pc'[u] = pc[u])
         /\ pc' \in [Threads -> Places \cup {"dispatch", "probe", "listener", "frame"}]
         /\ \A u \in Switchers : pc'[u] \in Places
         /\ pc'["display"] = pc["display"]
  <1>1. t \in Threads /\ t # "display" /\ "display" \in Threads
    BY ThreadsDiffer DEF Switchers, Threads
  <1>2. pc' = [pc EXCEPT ![t] = p]
    BY DEF GoTo
  <1> QED BY <1>1, <1>2 DEF PlacesOK, Threads

\* A call that answers leaves its thread outside the mutex, and takes no mutex of another's.
LEMMA Answered ==
  ASSUME PlacesOK, NEW t \in Switchers, NEW call, NEW ok \in BOOLEAN, Answers(t, call, ok)
  PROVE  /\ pc'[t] = After(t, call, ok) /\ pc'[t] \notin Inside \cup {"paintOn"}
         /\ (\A u \in Threads \ {t} : pc'[u] = pc[u])
         /\ pc' \in [Threads -> Places \cup {"dispatch", "probe", "listener", "frame"}]
         /\ \A u \in Switchers : pc'[u] \in Places
         /\ pc'["display"] = pc["display"]
         /\ lock' \in [{"paint", "frame", "sixty"} -> Threads \cup {FreeOf}]
         /\ \A u \in Switchers \ {t} : lock["paint"] = u => lock'["paint"] = u
  <1>1. After(t, call, ok) \in Places \ (Inside \cup {"paintOn"})
    BY DEF After, Places, Inside
  <1>2. GoTo(t, After(t, call, ok))
    BY DEF Answers
  <1>3. lock' = [m \in DOMAIN lock |-> IF lock[m] = t THEN FreeOf ELSE lock[m]]
    BY DEF Answers
  <1>4. /\ lock' \in [{"paint", "frame", "sixty"} -> Threads \cup {FreeOf}]
        /\ \A u \in Switchers \ {t} : lock["paint"] = u => lock'["paint"] = u
    BY <1>3 DEF PlacesOK
  <1>5. After(t, call, ok) \in Places
    BY <1>1
  <1> QED BY <1>1, <1>2, <1>4, <1>5, Moved

\* While one thread is inside the mutex no other is, and while it is free nobody is.
LEMMA OthersOut ==
  ASSUME PlacesOK, Exclusive
  PROVE  /\ \A t, u \in Switchers : t # u /\ pc[t] \in Inside => pc[u] \notin Inside
         /\ Free("paint") => \A t \in Switchers : pc[t] \notin Inside
  BY ThreadsDiffer DEF Exclusive, Free, Switchers

\* Threads outside the mutex do not disturb it.
LEMMA HalvesUnmoved ==
  ASSUME Halves, UNCHANGED Facts,
         \A t \in Switchers : pc'[t] = pc[t] \/ (pc[t] \notin Inside /\ pc'[t] \notin Inside),
         \A t \in Switchers : pc[t] \in Inside /\ lock["paint"] = t => lock'["paint"] = t
  PROVE  Halves'
  <1>1. Exclusive'
    BY DEF Halves, Exclusive
  <1>2. InOrOut'
    BY DEF Halves, InOrOut, Facts, paint, KeepsBoth, Kept
  <1>3. ASSUME NEW t \in Switchers PROVE WayIn(t)' /\ WayOut(t)'
    <2>1. WayIn(t) /\ WayOut(t)
      BY DEF Halves
    <2>2. CASE pc'[t] = pc[t]
      BY <2>1, <2>2 DEF WayIn, WayOut, Facts, paint, KeepsBoth, Kept
    <2>3. CASE pc'[t] \notin Inside
      BY <2>3 DEF WayIn, WayOut, Inside
    <2> QED BY <2>2, <2>3
  <1> QED BY <1>1, <1>2, <1>3 DEF Halves

\* The one inside it has only itself to answer for.
LEMMA HalvesMoved ==
  ASSUME NEW t \in Switchers, \A u \in Switchers \ {t} : pc[u] \notin Inside /\ pc'[u] = pc[u],
         pc'[t] \in Inside => lock'["paint"] = t, WayIn(t)', WayOut(t)', InOrOut'
  PROVE  Halves'
  <1>1. Exclusive'
    BY DEF Exclusive
  <1>2. ASSUME NEW u \in Switchers, u # t PROVE WayIn(u)' /\ WayOut(u)'
    <2>1. pc'[u] \notin Inside
      BY <1>2
    <2> QED BY <2>1 DEF WayIn, WayOut, Inside
  <1> QED BY <1>1, <1>2 DEF Halves

\* Where SixtyHertz goes from each call's answer, and a client from any.
LEMMA WhereNext ==
  /\ \A c \in Clients : \A call : \A ok \in BOOLEAN : After(c, call, ok) = "idle"
  /\ After("sixty", "paintOn", TRUE) = "gateOn" /\ After("sixty", "paintOn", FALSE) = "done"
  /\ After("sixty", "gateOn", TRUE) = "done" /\ After("sixty", "gateOn", FALSE) = "paintOff"
  /\ \A ok \in BOOLEAN : After("sixty", "paintOff", ok) = "done" /\ After("sixty", "gateOff", ok) = "done"
  BY ThreadsDiffer DEF After

\* Nothing inside the mutex touches what SixtyHertz waits for, and nobody asks there.
Bystanders == <<painted, display, requests>>

\* One step further inside the mutex.
LEMMA GoesOn ==
  ASSUME PlacesOK, SeenFirst, NEW t \in Switchers, NEW p \in Inside \ {"check"}, Goes(t, p),
         UNCHANGED Bystanders
  PROVE  /\ PlacesOK' /\ SeenFirst'
         /\ pc'[t] = p /\ lock' = lock /\ \A u \in Switchers \ {t} : pc'[u] = pc[u]
  <1>1. p \in Places
    BY DEF Places
  <1>2. PlacesOK' /\ pc'[t] = p /\ lock' = lock /\ \A u \in Switchers \ {t} : pc'[u] = pc[u]
    BY <1>1, Moved DEF Goes, PlacesOK, Bystanders, Threads
  <1>3. SeenFirst'
    <2>1. pc'["display"] = pc["display"] /\ p \notin {"paintOn", "check"}
      BY <1>1, Moved DEF Goes, Inside
    <2>2. pc'["sixty"] \in {"paintOn", "check"} => pc["sixty"] \in {"paintOn", "check"}
      BY <1>2, <2>1 DEF Switchers
    <2> QED BY <2>1, <2>2 DEF SeenFirst, SixtyAsksInTime, Bystanders
  <1> QED BY <1>2, <1>3

\* The last step of a call.
LEMMA Ends ==
  ASSUME PlacesOK, SeenFirst, NEW t \in Switchers, NEW call, NEW ok \in BOOLEAN, Answers(t, call, ok),
         UNCHANGED Bystanders
  PROVE  /\ PlacesOK' /\ SeenFirst'
         /\ pc'[t] = After(t, call, ok) /\ pc'[t] \notin Inside
         /\ \A u \in Switchers \ {t} : pc'[u] = pc[u] /\ (lock["paint"] = u => lock'["paint"] = u)
  <1>1. /\ pc'[t] = After(t, call, ok) /\ pc'[t] \notin Inside \cup {"paintOn"}
        /\ \A u \in Switchers \ {t} : pc'[u] = pc[u] /\ (lock["paint"] = u => lock'["paint"] = u)
    BY Answered DEF Threads
  <1>2. PlacesOK'
    BY Answered DEF PlacesOK, Bystanders
  <1>3. SeenFirst'
    BY <1>1, Answered DEF SeenFirst, SixtyAsksInTime, Bystanders, Switchers, Inside
  <1> QED BY <1>1, <1>2, <1>3

\* A client that moves was asked for something, which ends what SixtyHertz promised: it is
\* SixtyHertz's own steps that have to keep it.
LEMMA AloneMoved ==
  ASSUME Alone, NEW t \in Switchers, pc[t] # "idle", requests' = requests,
         \A u \in Switchers \ {t} : pc'[u] = pc[u],
         t = "sixty" /\ requests = 0 /\ SixtyWay => SixtyWay'
  PROVE  Alone'
  BY ThreadsDiffer DEF Alone, Switchers

\* The stand-in's block left alone stays whole.
LEMMA WholeKept ==
  ASSUME Whole, UNCHANGED <<discarded, within>>, filled => filled'
  PROVE  Whole'
  BY DEF Whole

-----------------------------------------------------------------------------
(* The way in.                                                              *)

\* A second paint already in is answered; otherwise the mutex is entered.
LEMMA PaintOnKeeps == ASSUME IInv, NEW t \in Switchers, PaintOn(t) PROVE IInv'
  <1> USE DEF IInv
  <1>1. /\ pc[t] = "paintOn" /\ pc[t] \notin Inside
        /\ UNCHANGED Facts /\ UNCHANGED Bystanders /\ UNCHANGED <<gate, discarded, within>>
    BY DEF PaintOn, At, Facts, Bystanders, guestDisplay, frames, sixty, bounds, Inside
  <1>2. Whole'
    BY <1>1, WholeKept DEF Facts
  <1>3. CASE installed /\ Free("paint") /\ Answers(t, "paintOn", TRUE)
    <2>1. PlacesOK' /\ SeenFirst'
      BY <1>1, <1>3, Ends
    <2>2. Halves'
      BY <1>1, <1>3, Ends, HalvesUnmoved
    <2>3. Alone'
      <3>1. t = "sixty" => ~SixtyWay
        BY <1>1, <1>3 DEF SixtyWay
      <3> QED BY <1>1, <1>3, <3>1, Ends, AloneMoved DEF Bystanders
    <2> QED BY <1>2, <2>1, <2>2, <2>3
  <1>4. CASE ~installed /\ Take(t, "paint") /\ GoTo(t, "check")
    <2>1. "check" \in Places /\ "check" \in Inside
      BY DEF Places, Inside
    <2>2. lock' = [lock EXCEPT !["paint"] = t] /\ Free("paint") /\ lock'["paint"] = t
      BY <1>4 DEF Take, PlacesOK
    <2>3. pc'[t] = "check" /\ \A u \in Switchers \ {t} : pc'[u] = pc[u]
      BY <1>4, <2>1, Moved DEF Threads
    <2>4. PlacesOK'
      BY <1>1, <1>4, <2>1, <2>2, Moved DEF PlacesOK, Bystanders, Threads
    <2>5. Halves'
      <3>1. \A u \in Switchers : pc[u] \notin Inside
        BY <2>2, OthersOut DEF Halves
      <3>2. WayIn(t)' /\ WayOut(t)'
        BY <1>1, <1>4, <3>1, <2>3 DEF WayIn, WayOut, Halves, InOrOut, Facts, paint, Kept
      <3>3. InOrOut'
        BY <1>1, <1>4, <3>1 DEF Halves, InOrOut, Facts, paint, Kept
      <3> QED BY <2>2, <2>3, <3>1, <3>2, <3>3, HalvesMoved
    <2>6. SeenFirst'
      BY <1>1, <1>4, <2>1, <2>3, Moved DEF SeenFirst, SixtyAsksInTime, Bystanders, Switchers
    <2>7. Alone'
      <3>1. t = "sixty" /\ SixtyWay => SixtyWay'
        BY <1>1, <1>4, <2>3 DEF SixtyWay, Facts, paint, gate, NeitherAlone
      <3> QED BY <1>1, <2>3, <3>1, AloneMoved DEF Bystanders
    <2> QED BY <1>2, <2>4, <2>5, <2>6, <2>7
  <1> QED BY <1>3, <1>4 DEF PaintOn

\* The display's state is looked at: anything amiss ends the call with nothing changed.
LEMMA CheckKeeps == ASSUME IInv, NEW t \in Switchers, Check(t) PROVE IInv'
  <1> USE DEF IInv
  <1>1. /\ pc[t] = "check" /\ pc[t] \in Inside
        /\ UNCHANGED Facts /\ UNCHANGED Bystanders /\ UNCHANGED <<gate, discarded, within>>
    BY DEF Check, At, Facts, Bystanders, guestDisplay, frames, sixty, bounds, Inside
  <1>2. Whole'
    BY <1>1, WholeKept DEF Facts
  <1>3. \A u \in Switchers \ {t} : pc[u] \notin Inside
    BY <1>1, OthersOut DEF Halves
  <1>4. WayIn(t) /\ InOrOut /\ lock["paint"] = t
    BY <1>1 DEF Halves, Exclusive
  <1>5. CASE Answers(t, "paintOn", FALSE)
    <2>1. PlacesOK' /\ SeenFirst' /\ pc'[t] = After(t, "paintOn", FALSE) /\ pc'[t] \notin Inside
          /\ \A u \in Switchers \ {t} : pc'[u] = pc[u]
      BY <1>1, <1>5, Ends
    <2>2. InOrOut'
      BY <1>1, <1>4 DEF WayIn, InOrOut, Facts, paint, Kept, KeepsBoth
    <2>3. Halves'
      <3>1. WayIn(t)' /\ WayOut(t)'
        BY <2>1 DEF WayIn, WayOut, Inside
      <3> QED BY <1>3, <2>1, <2>2, <3>1, HalvesMoved
    <2>4. Alone'
      <3>1. t = "sixty" /\ SixtyWay => SixtyWay'
        BY <1>1, <1>4, <2>1, WhereNext DEF SixtyWay, InOrOut, Facts, paint, gate, NeitherAlone
      <3> QED BY <1>1, <2>1, <3>1, AloneMoved DEF Bystanders
    <2> QED BY <1>2, <2>1, <2>3, <2>4
  <1>6. CASE Goes(t, "block")
    <2>1. PlacesOK' /\ SeenFirst' /\ pc'[t] = "block" /\ lock' = lock
          /\ \A u \in Switchers \ {t} : pc'[u] = pc[u]
      BY <1>1, <1>6, GoesOn DEF Inside
    <2>2. WayIn(t)' /\ WayOut(t)' /\ InOrOut'
      BY <1>1, <1>4, <2>1 DEF WayIn, WayOut, InOrOut, Facts, paint, Kept, KeepsBoth, Inside
    <2>3. Halves'
      BY <1>3, <1>4, <2>1, <2>2, HalvesMoved
    <2>4. Alone'
      <3>1. t = "sixty" /\ SixtyWay => SixtyWay'
        BY <1>1, <2>1 DEF SixtyWay, Facts, paint, gate, NeitherAlone
      <3> QED BY <1>1, <2>1, <3>1, AloneMoved DEF Bystanders
    <2> QED BY <1>2, <2>1, <2>3, <2>4
  <1> QED BY <1>5, <1>6 DEF Check

\* A block that was filled is left as it is, so nothing the display thread may be in is rewritten.
LEMMA BlockKeeps == ASSUME IInv, NEW t \in Switchers, Block(t) PROVE IInv'
  <1> USE DEF IInv
  <1>1. /\ pc[t] = "block" /\ pc[t] \in Inside /\ UNCHANGED Bystanders
        /\ UNCHANGED <<slot, field, pacing, paint, lostBack, gate, within>>
    BY DEF Block, At, Bystanders, guestDisplay, frames, sixty, bounds, Inside
  <1>2. \A u \in Switchers \ {t} : pc[u] \notin Inside
    BY <1>1, OthersOut DEF Halves
  <1>3. WayIn(t) /\ InOrOut /\ lock["paint"] = t
    BY <1>1 DEF Halves, Exclusive
  <1>4. ~discarded'
    BY DEF Block, Whole
  <1>5. CASE filled' = TRUE /\ Goes(t, "field")
    <2>1. PlacesOK' /\ SeenFirst' /\ pc'[t] = "field" /\ lock' = lock
          /\ \A u \in Switchers \ {t} : pc'[u] = pc[u]
      BY <1>1, <1>5, GoesOn DEF Inside
    <2>2. WayIn(t)' /\ WayOut(t)' /\ InOrOut'
      BY <1>1, <1>3, <1>5, <2>1 DEF WayIn, WayOut, InOrOut, paint, Kept, KeepsBoth, Inside
    <2>3. Halves'
      BY <1>2, <1>3, <2>1, <2>2, HalvesMoved
    <2>4. Alone'
      <3>1. t = "sixty" /\ SixtyWay => SixtyWay'
        BY <1>1, <2>1 DEF SixtyWay, paint, gate, NeitherAlone
      <3> QED BY <1>1, <2>1, <3>1, AloneMoved DEF Bystanders
    <2>5. Whole'
      BY <1>1, <1>4, <1>5 DEF Whole
    <2> QED BY <2>1, <2>3, <2>4, <2>5
  <1>6. CASE UNCHANGED filled /\ Answers(t, "paintOn", FALSE)
    <2>1. PlacesOK' /\ SeenFirst' /\ pc'[t] = After(t, "paintOn", FALSE) /\ pc'[t] \notin Inside
          /\ \A u \in Switchers \ {t} : pc'[u] = pc[u]
      BY <1>1, <1>6, Ends
    <2>2. InOrOut'
      BY <1>1, <1>3, <1>6 DEF WayIn, InOrOut, paint, Kept, KeepsBoth
    <2>3. Halves'
      <3>1. WayIn(t)' /\ WayOut(t)'
        BY <2>1 DEF WayIn, WayOut, Inside
      <3> QED BY <1>2, <2>1, <2>2, <3>1, HalvesMoved
    <2>4. Alone'
      <3>1. t = "sixty" /\ SixtyWay => SixtyWay'
        BY <1>1, <1>3, <2>1, WhereNext DEF SixtyWay, InOrOut, paint, gate, NeitherAlone
      <3> QED BY <1>1, <2>1, <3>1, AloneMoved DEF Bystanders
    <2>5. Whole'
      BY <1>1, <1>4, <1>6 DEF Whole
    <2> QED BY <2>1, <2>3, <2>4, <2>5
  <1> QED BY <1>5, <1>6 DEF Block

\* The title's interval is saved and replaced; refused, what was saved may be gone.
LEMMA FieldKeeps == ASSUME IInv, NEW t \in Switchers, Field(t) PROVE IInv'
  <1> USE DEF IInv
  <1>1. /\ pc[t] = "field" /\ pc[t] \in Inside /\ UNCHANGED Bystanders
        /\ UNCHANGED <<slot, pacing, filled, installed, savedPacing, wrotePacing, lostBack, gate,
                       discarded, within>>
    BY DEF Field, At, Bystanders, frames, sixty, bounds, Inside
  <1>2. \A u \in Switchers \ {t} : pc[u] \notin Inside
    BY <1>1, OthersOut DEF Halves
  <1>3. WayIn(t) /\ InOrOut /\ lock["paint"] = t
    BY <1>1 DEF Halves, Exclusive
  <1>4. Whole'
    BY <1>1, WholeKept
  <1>5. CASE savedField' = field /\ field' = SwapInterval /\ wroteField' = TRUE /\ Goes(t, "pacing")
    <2>1. PlacesOK' /\ SeenFirst' /\ pc'[t] = "pacing" /\ lock' = lock
          /\ \A u \in Switchers \ {t} : pc'[u] = pc[u]
      BY <1>1, <1>5, GoesOn DEF Inside
    <2>2. WayIn(t)' /\ WayOut(t)' /\ InOrOut'
      BY <1>1, <1>3, <1>5, <2>1 DEF WayIn, WayOut, InOrOut, Kept, KeepsBoth, Inside
    <2>3. Halves'
      BY <1>2, <1>3, <2>1, <2>2, HalvesMoved
    <2>4. Alone'
      <3>1. t = "sixty" /\ SixtyWay => SixtyWay'
        BY <1>1, <2>1 DEF SixtyWay, gate, NeitherAlone
      <3> QED BY <1>1, <2>1, <3>1, AloneMoved DEF Bystanders
    <2> QED BY <1>4, <2>1, <2>3, <2>4
  <1>6. CASE UNCHANGED <<field, wroteField>> /\ Answers(t, "paintOn", FALSE)
    <2>1. PlacesOK' /\ SeenFirst' /\ pc'[t] = After(t, "paintOn", FALSE) /\ pc'[t] \notin Inside
          /\ \A u \in Switchers \ {t} : pc'[u] = pc[u]
      BY <1>1, <1>6, Ends
    <2>2. InOrOut'
      BY <1>1, <1>3, <1>6 DEF WayIn, InOrOut, Kept, KeepsBoth
    <2>3. Halves'
      <3>1. WayIn(t)' /\ WayOut(t)'
        BY <2>1 DEF WayIn, WayOut, Inside
      <3> QED BY <1>2, <2>1, <2>2, <3>1, HalvesMoved
    <2>4. Alone'
      <3>1. t = "sixty" /\ SixtyWay => SixtyWay'
        BY <1>1, <1>3, <2>1, WhereNext DEF SixtyWay, InOrOut, gate, NeitherAlone
      <3> QED BY <1>1, <2>1, <3>1, AloneMoved DEF Bystanders
    <2> QED BY <1>4, <2>1, <2>3, <2>4
  <1> QED BY <1>5, <1>6 DEF Field

\* The pacing is replaced, or the field it follows is put back.
LEMMA PacingKeeps == ASSUME IInv, NEW t \in Switchers, Pacing(t) PROVE IInv'
  <1> USE DEF IInv
  <1>1. /\ pc[t] = "pacing" /\ pc[t] \in Inside /\ UNCHANGED Bystanders /\ savedPacing' = pacing
        /\ UNCHANGED <<slot, filled, installed, lostBack, gate, discarded, within>>
    BY DEF Pacing, At, Bystanders, frames, sixty, bounds, Inside
  <1>2. \A u \in Switchers \ {t} : pc[u] \notin Inside
    BY <1>1, OthersOut DEF Halves
  <1>3. WayIn(t) /\ InOrOut /\ lock["paint"] = t
    BY <1>1 DEF Halves, Exclusive
  <1>4. Whole'
    BY <1>1, WholeKept
  <1>5. CASE /\ pacing' = SwapInterval /\ wrotePacing' = TRUE
             /\ UNCHANGED <<field, savedField, wroteField>> /\ Goes(t, "slot")
    <2>1. PlacesOK' /\ SeenFirst' /\ pc'[t] = "slot" /\ lock' = lock
          /\ \A u \in Switchers \ {t} : pc'[u] = pc[u]
      BY <1>1, <1>5, GoesOn DEF Inside
    <2>2. WayIn(t)' /\ WayOut(t)' /\ InOrOut'
      BY <1>1, <1>3, <1>5, <2>1 DEF WayIn, WayOut, InOrOut, Kept, KeepsBoth, Inside
    <2>3. Halves'
      BY <1>2, <1>3, <2>1, <2>2, HalvesMoved
    <2>4. Alone'
      <3>1. t = "sixty" /\ SixtyWay => SixtyWay'
        BY <1>1, <2>1 DEF SixtyWay, gate, NeitherAlone
      <3> QED BY <1>1, <2>1, <3>1, AloneMoved DEF Bystanders
    <2> QED BY <1>4, <2>1, <2>3, <2>4
  <1>6. CASE field' = savedField /\ UNCHANGED pacing /\ Answers(t, "paintOn", FALSE)
    <2>1. PlacesOK' /\ SeenFirst' /\ pc'[t] = After(t, "paintOn", FALSE) /\ pc'[t] \notin Inside
          /\ \A u \in Switchers \ {t} : pc'[u] = pc[u]
      BY <1>1, <1>6, Ends
    <2>2. InOrOut'
      BY <1>1, <1>3, <1>6 DEF WayIn, InOrOut, Kept, KeepsBoth
    <2>3. Halves'
      <3>1. WayIn(t)' /\ WayOut(t)'
        BY <2>1 DEF WayIn, WayOut, Inside
      <3> QED BY <1>2, <2>1, <2>2, <3>1, HalvesMoved
    <2>4. Alone'
      <3>1. t = "sixty" /\ SixtyWay => SixtyWay'
        BY <1>1, <1>3, <2>1, WhereNext DEF SixtyWay, InOrOut, gate, NeitherAlone
      <3> QED BY <1>1, <2>1, <3>1, AloneMoved DEF Bystanders
    <2> QED BY <1>4, <2>1, <2>3, <2>4
  <1> QED BY <1>5, <1>6 DEF Pacing

\* The stand-in goes in with both intervals replaced, or both are put back.
LEMMA SlotKeeps == ASSUME IInv, NEW t \in Switchers, Slot(t) PROVE IInv'
  <1> USE DEF IInv
  <1>1. /\ pc[t] = "slot" /\ pc[t] \in Inside /\ UNCHANGED Bystanders
        /\ UNCHANGED <<filled, savedField, savedPacing, lostBack, gate, discarded, within>>
    BY DEF Slot, At, Bystanders, frames, sixty, bounds, Inside
  <1>2. \A u \in Switchers \ {t} : pc[u] \notin Inside
    BY <1>1, OthersOut DEF Halves
  <1>3. WayIn(t) /\ InOrOut /\ lock["paint"] = t
    BY <1>1 DEF Halves, Exclusive
  <1>4. Whole'
    BY <1>1, WholeKept
  <1>5. CASE /\ slot' = "standin" /\ installed' = TRUE
             /\ UNCHANGED <<field, pacing, wroteField, wrotePacing>> /\ Answers(t, "paintOn", TRUE)
    <2>1. PlacesOK' /\ SeenFirst' /\ pc'[t] = After(t, "paintOn", TRUE) /\ pc'[t] \notin Inside
          /\ \A u \in Switchers \ {t} : pc'[u] = pc[u]
      BY <1>1, <1>5, Ends
    <2>2. InOrOut'
      BY <1>1, <1>3, <1>5 DEF WayIn, InOrOut, Kept, KeepsBoth
    <2>3. Halves'
      <3>1. WayIn(t)' /\ WayOut(t)'
        BY <2>1 DEF WayIn, WayOut, Inside
      <3> QED BY <1>2, <2>1, <2>2, <3>1, HalvesMoved
    <2>4. Alone'
      <3>1. t = "sixty" /\ SixtyWay => SixtyWay'
        BY <1>1, <1>5, <2>1, WhereNext DEF SixtyWay, gate, NeitherAlone
      <3> QED BY <1>1, <2>1, <3>1, AloneMoved DEF Bystanders
    <2> QED BY <1>4, <2>1, <2>3, <2>4
  <1>6. CASE /\ field' = savedField /\ pacing' = savedPacing /\ UNCHANGED <<slot, installed>>
             /\ Answers(t, "paintOn", FALSE)
    <2>1. PlacesOK' /\ SeenFirst' /\ pc'[t] = After(t, "paintOn", FALSE) /\ pc'[t] \notin Inside
          /\ \A u \in Switchers \ {t} : pc'[u] = pc[u]
      BY <1>1, <1>6, Ends
    <2>2. InOrOut'
      BY <1>1, <1>3, <1>6 DEF WayIn, InOrOut, Kept, KeepsBoth
    <2>3. Halves'
      <3>1. WayIn(t)' /\ WayOut(t)'
        BY <2>1 DEF WayIn, WayOut, Inside
      <3> QED BY <1>2, <2>1, <2>2, <3>1, HalvesMoved
    <2>4. Alone'
      <3>1. t = "sixty" /\ SixtyWay => SixtyWay'
        BY <1>1, <1>3, <1>6, <2>1, WhereNext DEF SixtyWay, WayIn, InOrOut, gate, NeitherAlone
      <3> QED BY <1>1, <2>1, <3>1, AloneMoved DEF Bystanders
    <2> QED BY <1>4, <2>1, <2>3, <2>4
  <1> QED BY <1>5, <1>6 DEF Slot

-----------------------------------------------------------------------------
(* The way out.                                                             *)

\* Nothing in is answered; otherwise the mutex is entered.
LEMMA PaintOffKeeps == ASSUME IInv, NEW t \in Switchers, PaintOff(t) PROVE IInv'
  <1> USE DEF IInv
  <1>1. /\ pc[t] = "paintOff" /\ pc[t] \notin Inside
        /\ UNCHANGED Facts /\ UNCHANGED Bystanders /\ UNCHANGED <<gate, discarded, within>>
    BY DEF PaintOff, At, Facts, Bystanders, guestDisplay, frames, sixty, bounds, Inside
  <1>2. Whole'
    BY <1>1, WholeKept DEF Facts
  <1>3. CASE ~installed /\ Free("paint") /\ Answers(t, "paintOff", TRUE)
    <2>1. PlacesOK' /\ SeenFirst'
      BY <1>1, <1>3, Ends
    <2>2. Halves'
      BY <1>1, <1>3, Ends, HalvesUnmoved
    <2>3. Alone'
      <3>1. pc'[t] = After(t, "paintOff", TRUE) /\ \A u \in Switchers \ {t} : pc'[u] = pc[u]
        BY <1>1, <1>3, Ends
      <3>2. t = "sixty" /\ SixtyWay => SixtyWay'
        BY <1>1, <1>3, <3>1, WhereNext DEF SixtyWay, Halves, InOrOut, Facts, paint, gate, NeitherAlone
      <3> QED BY <1>1, <3>1, <3>2, AloneMoved DEF Bystanders
    <2> QED BY <1>2, <2>1, <2>2, <2>3
  <1>4. CASE installed /\ Take(t, "paint") /\ GoTo(t, "slotBackLock")
    <2>1. "slotBackLock" \in Places /\ "slotBackLock" \in Inside
      BY DEF Places, Inside
    <2>2. lock' = [lock EXCEPT !["paint"] = t] /\ Free("paint") /\ lock'["paint"] = t
      BY <1>4 DEF Take, PlacesOK
    <2>3. pc'[t] = "slotBackLock" /\ \A u \in Switchers \ {t} : pc'[u] = pc[u]
      BY <1>4, <2>1, Moved DEF Threads
    <2>4. PlacesOK'
      BY <1>1, <1>4, <2>1, <2>2, Moved DEF PlacesOK, Bystanders, Threads
    <2>5. Halves'
      <3>1. \A u \in Switchers : pc[u] \notin Inside
        BY <2>2, OthersOut DEF Halves
      <3>2. WayIn(t)' /\ WayOut(t)'
        BY <1>1, <1>4, <2>3 DEF WayIn, WayOut, Facts, paint
      <3>3. InOrOut'
        BY <1>1, <1>4, <3>1 DEF Halves, InOrOut, Facts, paint, Kept, KeepsBoth
      <3> QED BY <2>2, <2>3, <3>1, <3>2, <3>3, HalvesMoved
    <2>6. SeenFirst'
      BY <1>1, <1>4, <2>1, <2>3, Moved DEF SeenFirst, SixtyAsksInTime, Bystanders, Switchers
    <2>7. Alone'
      <3>1. t = "sixty" /\ SixtyWay => SixtyWay'
        BY <1>1, <2>3 DEF SixtyWay, gate, NeitherAlone
      <3> QED BY <1>1, <2>3, <3>1, AloneMoved DEF Bystanders
    <2> QED BY <1>2, <2>4, <2>5, <2>6, <2>7
  <1> QED BY <1>3, <1>4 DEF PaintOff

\* The probe's mutex is taken besides, so the slot is put back between two probes.
LEMMA SlotBackLockKeeps == ASSUME IInv, NEW t \in Switchers, SlotBackLock(t) PROVE IInv'
  <1> USE DEF IInv
  <1>1. /\ pc[t] = "slotBackLock" /\ pc[t] \in Inside /\ GoTo(t, "slotBack")
        /\ lock' = [lock EXCEPT !["frame"] = t]
        /\ UNCHANGED Facts /\ UNCHANGED Bystanders /\ UNCHANGED <<gate, discarded, within>>
    BY DEF SlotBackLock, At, Take, Facts, Bystanders, guestDisplay, frames, sixty, bounds, Inside
  <1>2. Whole'
    BY <1>1, WholeKept DEF Facts
  <1>3. "slotBack" \in Places
    BY DEF Places, Inside
  <1>4. pc'[t] = "slotBack" /\ \A u \in Switchers \ {t} : pc'[u] = pc[u]
    BY <1>1, <1>3, Moved DEF Threads
  <1>5. PlacesOK'
    BY <1>1, <1>3, Moved DEF PlacesOK, Bystanders, Threads
  <1>6. Halves'
    <2>1. \A u \in Switchers \ {t} : pc[u] \notin Inside
      BY <1>1, OthersOut DEF Halves
    <2>2. WayOut(t) /\ InOrOut /\ lock["paint"] = t
      BY <1>1 DEF Halves, Exclusive
    <2>3. lock'["paint"] = t
      BY <1>1, <2>2 DEF PlacesOK
    <2>4. WayIn(t)' /\ WayOut(t)' /\ InOrOut'
      BY <1>1, <1>4, <2>2 DEF WayIn, WayOut, InOrOut, Facts, paint, Kept, KeepsBoth
    <2> QED BY <1>4, <2>1, <2>3, <2>4, HalvesMoved
  <1>7. SeenFirst'
    BY <1>1, <1>3, <1>4, Moved DEF SeenFirst, SixtyAsksInTime, Bystanders, Switchers
  <1>8. Alone'
    <2>1. t = "sixty" /\ SixtyWay => SixtyWay'
      BY <1>1, <1>4 DEF SixtyWay, gate, NeitherAlone
    <2> QED BY <1>1, <1>4, <2>1, AloneMoved DEF Bystanders
  <1> QED BY <1>2, <1>5, <1>6, <1>7, <1>8

\* The slot is the title's again, or, refused, everything stays.
LEMMA SlotBackKeeps == ASSUME IInv, NEW t \in Switchers, SlotBack(t) PROVE IInv'
  <1> USE DEF IInv
  <1>1. /\ pc[t] = "slotBack" /\ pc[t] \in Inside /\ UNCHANGED Bystanders
        /\ UNCHANGED <<field, pacing, filled, savedField, wroteField, savedPacing, wrotePacing, gate,
                       discarded, within>>
    BY DEF SlotBack, At, Bystanders, frames, sixty, bounds, RefusesBack, Inside
  <1>2. \A u \in Switchers \ {t} : pc[u] \notin Inside
    BY <1>1, OthersOut DEF Halves
  <1>3. WayOut(t) /\ InOrOut /\ lock["paint"] = t
    BY <1>1 DEF Halves, Exclusive
  <1>4. Whole'
    BY <1>1, WholeKept
  <1>5. CASE slot' = "title" /\ installed' = FALSE /\ UNCHANGED bounds /\ Goes(t, "fieldBack")
    <2>1. PlacesOK' /\ SeenFirst' /\ pc'[t] = "fieldBack" /\ lock' = lock
          /\ \A u \in Switchers \ {t} : pc'[u] = pc[u]
      BY <1>1, <1>5, GoesOn DEF Inside
    <2>2. WayIn(t)' /\ WayOut(t)' /\ InOrOut'
      BY <1>1, <1>3, <1>5, <2>1 DEF WayIn, WayOut, InOrOut, Kept, KeepsBoth, Inside, bounds
    <2>3. Halves'
      BY <1>2, <1>3, <2>1, <2>2, HalvesMoved
    <2>4. Alone'
      <3>1. t = "sixty" /\ SixtyWay => SixtyWay'
        BY <1>1, <2>1 DEF SixtyWay, gate, NeitherAlone
      <3> QED BY <1>1, <2>1, <3>1, AloneMoved DEF Bystanders
    <2> QED BY <1>4, <2>1, <2>3, <2>4
  <1>6. CASE RefusesBack("slotBack") /\ UNCHANGED <<slot, installed>> /\ Answers(t, "paintOff", FALSE)
    <2>1. PlacesOK' /\ SeenFirst' /\ pc'[t] = After(t, "paintOff", FALSE) /\ pc'[t] \notin Inside
          /\ \A u \in Switchers \ {t} : pc'[u] = pc[u]
      BY <1>1, <1>6, Ends
    <2>2. InOrOut'
      BY <1>1, <1>3, <1>6 DEF WayOut, InOrOut, Kept, KeepsBoth, RefusesBack
    <2>3. Halves'
      <3>1. WayIn(t)' /\ WayOut(t)'
        BY <2>1 DEF WayIn, WayOut, Inside
      <3> QED BY <1>2, <2>1, <2>2, <3>1, HalvesMoved
    <2>4. Alone'
      <3>1. t = "sixty" /\ SixtyWay => SixtyWay'
        BY <1>1, <1>6, <2>1, WhereNext DEF SixtyWay, RefusesBack, gate, NeitherAlone
      <3> QED BY <1>1, <2>1, <3>1, AloneMoved DEF Bystanders
    <2> QED BY <1>4, <2>1, <2>3, <2>4
  <1> QED BY <1>5, <1>6 DEF SlotBack

\* The title's interval is put back where it was replaced; refused, it is lost to the title.
LEMMA FieldBackKeeps == ASSUME IInv, NEW t \in Switchers, FieldBack(t) PROVE IInv'
  <1> USE DEF IInv
  <1>1. /\ pc[t] = "fieldBack" /\ pc[t] \in Inside /\ UNCHANGED Bystanders
        /\ UNCHANGED <<slot, pacing, filled, installed, savedPacing, wrotePacing, gate, discarded, within>>
    BY DEF FieldBack, At, Bystanders, frames, sixty, bounds, RefusesBack, Inside
  <1>2. \A u \in Switchers \ {t} : pc[u] \notin Inside
    BY <1>1, OthersOut DEF Halves
  <1>3. WayOut(t) /\ InOrOut /\ lock["paint"] = t
    BY <1>1 DEF Halves, Exclusive
  <1>4. Whole'
    BY <1>1, WholeKept
  <1>5. CASE /\ field' = IF wroteField THEN savedField ELSE field
             /\ UNCHANGED bounds /\ Goes(t, "pacingBack")
    <2>1. PlacesOK' /\ SeenFirst' /\ pc'[t] = "pacingBack" /\ lock' = lock
          /\ \A u \in Switchers \ {t} : pc'[u] = pc[u]
      BY <1>1, <1>5, GoesOn DEF Inside
    <2>2. WayIn(t)' /\ WayOut(t)' /\ InOrOut'
      BY <1>1, <1>3, <1>5, <2>1 DEF WayIn, WayOut, InOrOut, Kept, KeepsBoth, Inside, bounds
    <2>3. Halves'
      BY <1>2, <1>3, <2>1, <2>2, HalvesMoved
    <2>4. Alone'
      <3>1. t = "sixty" /\ SixtyWay => SixtyWay'
        BY <1>1, <1>3, <2>1 DEF SixtyWay, WayOut, gate, NeitherAlone
      <3> QED BY <1>1, <2>1, <3>1, AloneMoved DEF Bystanders
    <2> QED BY <1>4, <2>1, <2>3, <2>4
  <1>6. CASE RefusesBack("fieldBack") /\ Answers(t, "paintOff", FALSE) /\ UNCHANGED field
    <2>1. PlacesOK' /\ SeenFirst' /\ pc'[t] = After(t, "paintOff", FALSE) /\ pc'[t] \notin Inside
          /\ \A u \in Switchers \ {t} : pc'[u] = pc[u]
      BY <1>1, <1>6, Ends
    <2>2. InOrOut'
      BY <1>1, <1>3, <1>6 DEF WayOut, InOrOut, Kept, RefusesBack
    <2>3. Halves'
      <3>1. WayIn(t)' /\ WayOut(t)'
        BY <2>1 DEF WayIn, WayOut, Inside
      <3> QED BY <1>2, <2>1, <2>2, <3>1, HalvesMoved
    <2>4. Alone'
      <3>1. t = "sixty" /\ SixtyWay => SixtyWay'
        BY <1>1, <1>3, <1>6, <2>1, WhereNext DEF SixtyWay, WayOut, InOrOut, gate, NeitherAlone
      <3> QED BY <1>1, <2>1, <3>1, AloneMoved DEF Bystanders
    <2> QED BY <1>4, <2>1, <2>3, <2>4
  <1> QED BY <1>5, <1>6 DEF FieldBack

\* The emulator's pacing follows, and the call is answered.
LEMMA PacingBackKeeps == ASSUME IInv, NEW t \in Switchers, PacingBack(t) PROVE IInv'
  <1> USE DEF IInv
  <1>1. /\ pc[t] = "pacingBack" /\ pc[t] \in Inside /\ UNCHANGED Bystanders
        /\ pacing' = (IF wrotePacing THEN savedPacing ELSE pacing) /\ Answers(t, "paintOff", TRUE)
        /\ UNCHANGED <<slot, field, filled, installed, savedField, wroteField, lostBack, gate,
                       discarded, within>>
    BY DEF PacingBack, At, Bystanders, frames, sixty, bounds, Inside
  <1>2. \A u \in Switchers \ {t} : pc[u] \notin Inside
    BY <1>1, OthersOut DEF Halves
  <1>3. WayOut(t) /\ InOrOut
    BY <1>1 DEF Halves
  <1>4. Whole'
    BY <1>1, WholeKept
  <1>5. PlacesOK' /\ SeenFirst' /\ pc'[t] = After(t, "paintOff", TRUE) /\ pc'[t] \notin Inside
        /\ \A u \in Switchers \ {t} : pc'[u] = pc[u]
    BY <1>1, Ends
  <1>6. InOrOut'
    BY <1>1, <1>3 DEF WayOut, InOrOut, Kept
  <1>7. Halves'
    <2>1. WayIn(t)' /\ WayOut(t)'
      BY <1>5 DEF WayIn, WayOut, Inside
    <2> QED BY <1>2, <1>5, <1>6, <2>1, HalvesMoved
  <1>8. Alone'
    <2>1. t = "sixty" /\ SixtyWay => SixtyWay'
      BY <1>1, <1>3, <1>5, WhereNext DEF SixtyWay, WayOut, InOrOut, gate, NeitherAlone
    <2> QED BY <1>1, <1>5, <2>1, AloneMoved DEF Bystanders
  <1> QED BY <1>4, <1>5, <1>7, <1>8

-----------------------------------------------------------------------------
(* The logic gate's calls, the display thread, SixtyHertz and the clients.  *)

\* The gate goes in, or its refusal leaves what it wrote.
LEMMA GateOnKeeps == ASSUME IInv, NEW t \in Switchers, GateOn(t) PROVE IInv'
  <1> USE DEF IInv
  <1>1. /\ pc[t] = "gateOn" /\ pc[t] \notin Inside
        /\ UNCHANGED Facts /\ UNCHANGED Bystanders /\ UNCHANGED <<discarded, within>>
    BY DEF GateOn, At, Facts, Bystanders, guestDisplay, frames, sixty, bounds, Inside
  <1>2. Whole'
    BY <1>1, WholeKept DEF Facts
  <1>3. ASSUME NEW ok \in BOOLEAN, Answers(t, "gateOn", ok),
               t = "sixty" /\ SixtyWay /\ pc'[t] = After(t, "gateOn", ok) => SixtyWay'
        PROVE  IInv'
    <2>1. PlacesOK' /\ SeenFirst' /\ pc'[t] = After(t, "gateOn", ok)
          /\ \A u \in Switchers \ {t} : pc'[u] = pc[u]
      BY <1>1, <1>3, Ends
    <2>2. Halves'
      BY <1>1, <1>3, Ends, HalvesUnmoved
    <2>3. Alone'
      BY <1>1, <1>3, <2>1, AloneMoved DEF Bystanders
    <2> QED BY <1>2, <2>1, <2>2, <2>3
  <1>4. CASE gateIn' = TRUE /\ gateWords' = TRUE /\ Answers(t, "gateOn", TRUE)
    <2>1. t = "sixty" /\ SixtyWay /\ pc'[t] = After(t, "gateOn", TRUE) => SixtyWay'
      BY <1>1, <1>4, WhereNext DEF SixtyWay, Halves, InOrOut, Facts, paint, NeitherAlone
    <2> QED BY <1>3, <1>4, <2>1
  <1>5. CASE ~gateIn /\ UNCHANGED gateIn /\ Answers(t, "gateOn", FALSE)
    <2>1. t = "sixty" /\ SixtyWay /\ pc'[t] = After(t, "gateOn", FALSE) => SixtyWay'
      BY <1>1, <1>5, WhereNext DEF SixtyWay, NeitherAlone
    <2> QED BY <1>3, <1>5, <2>1
  <1> QED BY <1>4, <1>5 DEF GateOn

\* Only a client takes the gate out.
LEMMA GateOffKeeps == ASSUME IInv, NEW t \in Switchers, GateOff(t) PROVE IInv'
  <1> USE DEF IInv
  <1>1. /\ pc[t] = "gateOff" /\ pc[t] \notin Inside
        /\ UNCHANGED Facts /\ UNCHANGED Bystanders /\ UNCHANGED <<discarded, within>>
    BY DEF GateOff, At, Facts, Bystanders, guestDisplay, frames, sixty, bounds, Inside
  <1>2. Whole'
    BY <1>1, WholeKept DEF Facts
  <1>3. PICK ok \in BOOLEAN : Answers(t, "gateOff", ok)
    BY DEF GateOff
  <1>4. PlacesOK' /\ SeenFirst' /\ pc'[t] = After(t, "gateOff", ok)
        /\ \A u \in Switchers \ {t} : pc'[u] = pc[u]
    BY <1>1, <1>3, Ends
  <1>5. Halves'
    BY <1>1, <1>3, Ends, HalvesUnmoved
  <1>6. Alone'
    <2>1. t = "sixty" => ~SixtyWay
      BY <1>1 DEF SixtyWay
    <2> QED BY <1>1, <1>4, <2>1, AloneMoved DEF Bystanders
  <1> QED BY <1>2, <1>4, <1>5, <1>6

\* The display thread dispatches through a slot that names a filled block, and is seen
\* before the first paint is announced.
LEMMA DisplayKeeps == ASSUME IInv, DisplayStep PROVE IInv'
  <1> USE DEF IInv
  <1>1. /\ UNCHANGED Facts /\ UNCHANGED <<gate, discarded, requests, lostBack>>
        /\ \E p \in {"dispatch", "probe", "listener", "frame"} : GoTo("display", p)
    BY DEF DisplayStep, Dispatch, OnCall, OnPaint, FrameEnds, Facts, guestDisplay, bounds
  <1>2. \A t \in Switchers : pc'[t] = pc[t]
    BY <1>1, ThreadsDiffer DEF GoTo, PlacesOK, Switchers, Threads
  <1>3. \/ lock' = lock
        \/ lock["frame"] = FreeOf /\ lock' = [lock EXCEPT !["frame"] = "display"]
        \/ lock' = [lock EXCEPT !["frame"] = FreeOf]
    BY DEF DisplayStep, Dispatch, OnCall, OnPaint, FrameEnds, Take, Free
  <1>4. PlacesOK'
    <2>1. pc' \in [Threads -> Places \cup {"dispatch", "probe", "listener", "frame"}]
          /\ pc'["display"] \in {"dispatch", "probe", "listener", "frame"}
      BY <1>1 DEF GoTo, PlacesOK, Threads
    <2>2. lock' \in [{"paint", "frame", "sixty"} -> Threads \cup {FreeOf}]
      BY <1>3 DEF PlacesOK, Threads
    <2> QED BY <1>1, <1>2, <2>1, <2>2 DEF PlacesOK
  <1>5. Halves'
    <2>1. lock'["paint"] = lock["paint"]
      BY <1>3 DEF PlacesOK
    <2> QED BY <1>1, <1>2, <2>1, HalvesUnmoved
  <1>6. Whole'
    <2>1. CASE within' = IF slot = "standin" THEN 2 ELSE 0
      BY <1>1, <2>1 DEF Whole, Halves, InOrOut, Facts
    <2>2. CASE within' = within
      BY <1>1, <2>2, WholeKept DEF Facts
    <2>3. CASE within = 2 \/ within' = 0
      BY <1>1, <2>3 DEF Whole, Facts
    <2> QED BY <2>1, <2>2, <2>3 DEF DisplayStep, Dispatch, OnCall, OnPaint, FrameEnds, frames
  <1>7. SeenFirst'
    <2>1. pc'["sixty"] = pc["sixty"]
      BY <1>2 DEF Switchers
    <2>2. CASE Dispatch
      BY <2>1, <2>2 DEF Dispatch, GoTo, PlacesOK, Threads, SeenFirst, SixtyAsksInTime, sixty
    <2>3. CASE OnCall
      BY <2>1, <2>3 DEF OnCall, SeenFirst, SixtyAsksInTime
    <2>4. CASE OnPaint
      BY <2>1, <2>4 DEF OnPaint, At, SeenFirst, SixtyAsksInTime, frames
    <2>5. CASE FrameEnds
      BY <2>1, <2>5 DEF FrameEnds, GoTo, PlacesOK, Threads, SeenFirst, SixtyAsksInTime, sixty
    <2> QED BY <2>2, <2>3, <2>4, <2>5 DEF DisplayStep
  <1>8. Alone'
    BY <1>1, <1>2 DEF Alone, SixtyWay, NeitherAlone, Facts, paint, gate, Switchers
  <1> QED BY <1>4, <1>5, <1>6, <1>7, <1>8

\* SixtyHertz is woken by the first paint, or by its end.
LEMMA WokenKeeps == ASSUME IInv, Woken PROVE IInv'
  <1> USE DEF IInv
  <1>1. /\ pc["sixty"] = "wait" /\ pc["sixty"] \notin Inside /\ "sixty" \in Switchers
        /\ UNCHANGED Facts /\ UNCHANGED Bystanders /\ UNCHANGED <<gate, discarded, within, lock>>
    BY DEF Woken, At, Facts, Bystanders, guestDisplay, frames, sixty, bounds, Inside, Switchers
  <1>2. PICK p \in {"done", "paintOn"} : GoTo("sixty", p) /\ (p = "paintOn" => painted)
    BY DEF Woken
  <1>3. p \in Places /\ p \notin Inside
    BY DEF Places, Inside
  <1>4. /\ PlacesOK' /\ pc'["sixty"] = p /\ pc'["display"] = pc["display"]
        /\ \A u \in Switchers \ {"sixty"} : pc'[u] = pc[u]
    BY <1>1, <1>2, <1>3, Moved DEF PlacesOK, Bystanders, Threads
  <1>5. Halves'
    BY <1>1, <1>3, <1>4, HalvesUnmoved
  <1>6. Whole'
    BY <1>1, WholeKept DEF Facts
  <1>7. SeenFirst'
    BY <1>1, <1>2, <1>4 DEF SeenFirst, SixtyAsksInTime, Bystanders
  <1>8. Alone'
    <2>1. SixtyWay => SixtyWay'
      BY <1>1, <1>4 DEF SixtyWay, Halves, InOrOut, Facts, paint, gate, NeitherAlone
    <2> QED BY <1>1, <1>4, <2>1, AloneMoved DEF Bystanders
  <1> QED BY <1>4, <1>5, <1>6, <1>7, <1>8

\* SixtyHertz is told to end: its thread is only woken.
LEMMA StopKeeps == ASSUME IInv, Stop PROVE IInv'
  <1> USE DEF IInv
  <1>1. UNCHANGED <<guestDisplay, frames, paint, gate, painted, pc, lock, bounds>>
    BY DEF Stop
  <1>2. Halves'
    BY <1>1, HalvesUnmoved DEF Facts, guestDisplay, bounds
  <1> QED BY <1>1, <1>2 DEF PlacesOK, Whole, SeenFirst, SixtyAsksInTime, Alone, SixtyWay, NeitherAlone,
               guestDisplay, frames, paint, gate, bounds

\* A client asks for something: SixtyHertz is no longer alone.
LEMMA RequestKeeps ==
  ASSUME IInv, NEW c \in Clients, NEW call \in {"paintOn", "paintOff", "gateOn", "gateOff"},
         Request(c, call)
  PROVE  IInv'
  <1> USE DEF IInv
  <1>1. /\ pc[c] \notin Inside /\ c \in Switchers /\ c # "sixty" /\ GoTo(c, call)
        /\ UNCHANGED Facts /\ UNCHANGED <<painted, display, discarded, within, lock>>
        /\ requests' = requests + 1
    BY ThreadsDiffer DEF Request, At, Facts, guestDisplay, frames, sixty, Inside, Switchers
  <1>2. call \in Places /\ call \notin Inside
    BY DEF Places, Inside
  <1>3. /\ PlacesOK' /\ pc'[c] = call /\ pc'["display"] = pc["display"]
        /\ \A u \in Switchers \ {c} : pc'[u] = pc[u]
    BY <1>1, <1>2, Moved DEF PlacesOK, Threads
  <1>4. Halves'
    BY <1>1, <1>2, <1>3, HalvesUnmoved
  <1>5. Whole'
    BY <1>1, WholeKept DEF Facts
  <1>6. SeenFirst'
    BY <1>1, <1>3 DEF SeenFirst, SixtyAsksInTime, Switchers
  <1>7. Alone'
    BY <1>1 DEF PlacesOK, Alone
  <1> QED BY <1>3, <1>4, <1>5, <1>6, <1>7

-----------------------------------------------------------------------------
\* Both halves start out.
LEMMA InitHolds == Init => IInv
  <1> SUFFICES ASSUME Init PROVE IInv
    OBVIOUS
  <1>1. /\ pc["display"] = "dispatch" /\ pc["sixty"] = "wait" /\ \A c \in Clients : pc[c] = "idle"
        /\ \A t \in Switchers : pc[t] \in {"wait", "idle"}
        /\ pc \in [Threads -> {"dispatch", "wait", "idle"}]
    BY ThreadsDiffer DEF Init, Threads, Switchers
  <1>2. PlacesOK
    <2>1. lock \in [{"paint", "frame", "sixty"} -> Threads \cup {FreeOf}]
      BY DEF Init
    <2> QED BY <1>1, <2>1 DEF Init, PlacesOK, Places
  <1>3. Halves
    BY <1>1 DEF Init, Halves, Exclusive, InOrOut, WayIn, WayOut, Inside
  <1>4. Whole /\ SeenFirst
    BY <1>1 DEF Init, Whole, SeenFirst, SixtyAsksInTime
  <1>5. Alone
    BY <1>1 DEF Init, Alone, SixtyWay, NeitherAlone
  <1> QED BY <1>2, <1>3, <1>4, <1>5 DEF IInv

\* Where each thread is says which of the slot, the field and the pacing are changed.
THEOREM InductiveInvariant == Spec => []IInv
  <1>1. IInv /\ [Next]_vars => IInv'
    <2> SUFFICES ASSUME IInv, [Next]_vars PROVE IInv'
      OBVIOUS
    <2>1. ASSUME NEW t \in Switchers, SwitchStep(t) PROVE IInv'
      BY <2>1, PaintOnKeeps, CheckKeeps, BlockKeeps, FieldKeeps, PacingKeeps, SlotKeeps, PaintOffKeeps,
         SlotBackLockKeeps, SlotBackKeeps, FieldBackKeeps, PacingBackKeeps, GateOnKeeps, GateOffKeeps
         DEF SwitchStep
    <2>2. CASE UNCHANGED vars
      <3>1. Halves'
        BY <2>2, HalvesUnmoved DEF vars, Facts, guestDisplay, bounds, IInv
      <3> QED BY <2>2, <3>1 DEF vars, guestDisplay, frames, paint, gate, sixty, bounds, IInv, PlacesOK,
                   Whole, SeenFirst, SixtyAsksInTime, Alone, SixtyWay, NeitherAlone
    <2> QED BY <2>1, <2>2, DisplayKeeps, WokenKeeps, StopKeeps, RequestKeeps DEF Next
  <1> QED BY <1>1, InitHolds, PTL DEF Spec

\* While the slot names the stand-in, field and pacing both ask for one vblank, at any moment of
\* any number of requests, whatever is refused; with it out and nobody changing it, both are the
\* title's again unless the title's field once refused.
THEOREM PacingIsTheSlots == Spec => []PacingFollowsSlot
  <1>1. IInv => PacingFollowsSlot
    BY OthersOut DEF IInv, Halves, InOrOut, Kept, PacingFollowsSlot
  <1> QED BY <1>1, InductiveInvariant, PTL

\* The stand-in's block is never rewritten with the display thread inside it.
THEOREM InsideIsLeftAlone == Spec => []NeverDiscardedInside
  <1>1. IInv => NeverDiscardedInside
    BY DEF IInv, Whole, NeverDiscardedInside
  <1> QED BY <1>1, InductiveInvariant, PTL

\* SixtyHertz asks for the second paint only where the display was seen.
THEOREM SixtyAsksWhenSeen == Spec => []SixtyAsksInTime
  <1>1. IInv => SixtyAsksInTime
    BY DEF IInv, SeenFirst
  <1> QED BY <1>1, InductiveInvariant, PTL

\* SixtyHertz left alone ends with both halves in, or neither reported in.
THEOREM HalvesGoTogether == Spec => []NeitherAlone
  <1>1. IInv => NeitherAlone
    BY DEF IInv, Alone, SixtyWay, NeitherAlone
  <1> QED BY <1>1, InductiveInvariant, PTL

-----------------------------------------------------------------------------
(* What was saved of the title's intervals is one whenever it is put back.  *)

Intervals == {SwapInterval, TitleInterval}
Types ==
  /\ slot \in {"title", "standin"} /\ field \in Intervals /\ pacing \in Intervals
  /\ savedField \in Intervals \cup {0} /\ savedPacing \in Intervals \cup {0}
  /\ filled \in BOOLEAN /\ discarded \in BOOLEAN /\ midFrame \in BOOLEAN /\ display \in BOOLEAN
  /\ installed \in BOOLEAN /\ wroteField \in BOOLEAN /\ wrotePacing \in BOOLEAN
  /\ gateIn \in BOOLEAN /\ gateWords \in BOOLEAN /\ painted \in BOOLEAN /\ stopping \in BOOLEAN
  /\ within \in 0..2 /\ requests \in 0..MaxRequests /\ lostBack \subseteq Refusals
  /\ DOMAIN answer = Switchers

SavedBy(t) ==
  /\ pc[t] \in {"pacing", "slot"} => savedField # 0
  /\ pc[t] = "slot" => savedPacing # 0
  /\ pc[t] = "fieldBack" /\ wroteField => savedField # 0
  /\ pc[t] \in {"fieldBack", "pacingBack"} /\ wrotePacing => savedPacing # 0
Saved ==
  /\ installed => (wroteField => savedField # 0) /\ (wrotePacing => savedPacing # 0)
  /\ \A t \in Switchers : SavedBy(t)

\* A thread inside the mutex is answerable for what is saved, alone.
LEMMA SavedInside ==
  ASSUME IInv, NEW t \in Switchers, pc[t] \in Inside, NEW p \in Places, GoTo(t, p),
         pc'[t] = p => SavedBy(t)'
  PROVE  pc'[t] = p /\ \A u \in Switchers : SavedBy(u)'
  <1>1. pc'[t] = p /\ \A u \in Switchers \ {t} : pc'[u] = pc[u]
    BY Moved DEF IInv, Threads
  <1>2. \A u \in Switchers \ {t} : pc'[u] \notin Inside
    BY <1>1, OthersOut DEF IInv, Halves
  <1> QED BY <1>1, <1>2 DEF SavedBy, Inside

\* A thread that goes on elsewhere leaves what is saved.
LEMMA SavedElsewhere ==
  ASSUME IInv, Saved, NEW t \in Threads, NEW p, GoTo(t, p), UNCHANGED paint,
         p \notin {"pacing", "slot", "fieldBack", "pacingBack"}
  PROVE  Saved'
  <1>1. \A u \in Switchers : pc'[u] = pc[u] \/ pc'[u] = p
    BY DEF GoTo, IInv, PlacesOK, Threads
  <1> QED BY <1>1 DEF Saved, SavedBy, paint

\* Where a call that answers leaves its thread.
LEMMA AnswersGo ==
  ASSUME NEW t \in Switchers, NEW call, NEW ok \in BOOLEAN, Answers(t, call, ok),
         DOMAIN answer = Switchers
  PROVE  /\ GoTo(t, After(t, call, ok)) /\ After(t, call, ok) \in Places \ Inside
         /\ DOMAIN answer' = Switchers
  BY DEF Answers, After, Places, Inside

\* A step towards or away from the stand-in that saves nothing and puts nothing back.
LEMMA OtherStepsTyped ==
  ASSUME IInv, Types, Saved, NEW t \in Switchers,
         PaintOn(t) \/ Check(t) \/ Block(t) \/ PaintOff(t) \/ SlotBackLock(t) \/ GateOn(t) \/ GateOff(t)
  PROVE  Types' /\ Saved'
  <1>1. /\ UNCHANGED <<slot, field, pacing, paint, midFrame, display, within, painted, stopping,
                       requests, lostBack>>
        /\ filled' \in BOOLEAN /\ discarded' \in BOOLEAN /\ gateIn' \in BOOLEAN
        /\ gateWords' \in BOOLEAN
    BY DEF PaintOn, Check, Block, PaintOff, SlotBackLock, GateOn, GateOff, guestDisplay, frames,
           gate, sixty, bounds, Types
  <1>2. \/ \E p \in {"check", "block", "slotBackLock", "slotBack"} : GoTo(t, p) /\ UNCHANGED answer
        \/ pc[t] = "block" /\ Goes(t, "field")
        \/ \E call \in {"paintOn", "paintOff", "gateOn", "gateOff"}, ok \in BOOLEAN :
             Answers(t, call, ok)
    <2>1. CASE PaintOn(t)
      BY <2>1 DEF PaintOn
    <2>2. CASE Check(t)
      BY <2>2 DEF Check, Goes
    <2>3. CASE Block(t)
      BY <2>3 DEF Block, At
    <2>4. CASE PaintOff(t)
      BY <2>4 DEF PaintOff
    <2>5. CASE SlotBackLock(t)
      BY <2>5 DEF SlotBackLock
    <2>6. CASE GateOn(t)
      BY <2>6 DEF GateOn
    <2>7. CASE GateOff(t)
      BY <2>7 DEF GateOff
    <2> QED BY <2>1, <2>2, <2>3, <2>4, <2>5, <2>6, <2>7
  <1>3. DOMAIN answer' = Switchers /\ Saved'
    <2>1. ASSUME NEW p \in {"check", "block", "slotBackLock", "slotBack", "field"}, GoTo(t, p),
                 UNCHANGED answer
          PROVE  DOMAIN answer' = Switchers /\ Saved'
      BY <1>1, <2>1, SavedElsewhere DEF Types, Threads
    <2>2. ASSUME NEW call, NEW ok \in BOOLEAN, Answers(t, call, ok)
          PROVE  DOMAIN answer' = Switchers /\ Saved'
      <3>1. /\ GoTo(t, After(t, call, ok)) /\ DOMAIN answer' = Switchers
            /\ After(t, call, ok) \notin Inside
        BY <2>2, AnswersGo DEF Types
      <3>2. After(t, call, ok) \notin {"pacing", "slot", "fieldBack", "pacingBack"}
        BY <3>1 DEF Inside
      <3> QED BY <1>1, <3>1, <3>2, SavedElsewhere DEF Threads
    <2> QED BY <1>2, <2>1, <2>2 DEF Goes
  <1> QED BY <1>1, <1>3 DEF Types, paint

\* What a step of the paint may change, with what it has to be.
LEMMA PaintStepTyped ==
  ASSUME Types, DOMAIN answer' = Switchers,
         UNCHANGED <<filled, discarded, midFrame, display, within, gate, painted, stopping, requests>>,
         slot' \in {"title", "standin"}, field' \in Intervals, pacing' \in Intervals,
         savedField' \in Intervals \cup {0}, savedPacing' \in Intervals \cup {0},
         installed' \in BOOLEAN, wroteField' \in BOOLEAN, wrotePacing' \in BOOLEAN,
         lostBack' \subseteq Refusals
  PROVE  Types'
  BY DEF Types, gate

\* The steps that save the title's field and pacing, and put them back.
LEMMA SavingStepsTyped ==
  ASSUME IInv, Types, Saved, NEW t \in Switchers,
         \/ Field(t) \/ Pacing(t) \/ Slot(t) \/ SlotBack(t) \/ FieldBack(t) \/ PacingBack(t)
  PROVE  Types' /\ Saved'
  <1> DEFINE Theirs == \A u \in Switchers : SavedBy(u)
             Ours == /\ slot' \in {"title", "standin"} /\ field' \in Intervals
                     /\ pacing' \in Intervals /\ savedField' \in Intervals \cup {0}
                     /\ savedPacing' \in Intervals \cup {0} /\ installed' \in BOOLEAN
                     /\ wroteField' \in BOOLEAN /\ wrotePacing' \in BOOLEAN
                     /\ lostBack' \subseteq Refusals
                     /\ installed' => /\ wroteField' => savedField' # 0
                                      /\ wrotePacing' => savedPacing' # 0
  <1>1. /\ pc[t] \in {"field", "pacing", "slot", "slotBack", "fieldBack", "pacingBack"}
        /\ pc[t] \in Inside /\ SavedBy(t)
        /\ UNCHANGED <<filled, discarded, midFrame, display, within, gate, painted, stopping, requests>>
    BY DEF Field, Pacing, Slot, SlotBack, FieldBack, PacingBack, At, Inside, Saved, frames, sixty,
           bounds, RefusesBack
  <1>2. ASSUME NEW p \in {"pacing", "slot", "fieldBack", "pacingBack"}, Goes(t, p),
               pc'[t] = p => SavedBy(t)'
        PROVE  Theirs' /\ DOMAIN answer' = Switchers
    <2>1. p \in Places
      BY DEF Places, Inside
    <2> QED BY <1>1, <1>2, <2>1, SavedInside DEF Goes, Types
  <1>3. ASSUME NEW call, NEW ok \in BOOLEAN, Answers(t, call, ok)
        PROVE  Theirs' /\ DOMAIN answer' = Switchers
    <2>1. /\ GoTo(t, After(t, call, ok)) /\ DOMAIN answer' = Switchers
          /\ After(t, call, ok) \in Places /\ After(t, call, ok) \notin Inside
      BY <1>3, AnswersGo DEF Types
    <2>2. pc'[t] = After(t, call, ok) => SavedBy(t)'
      BY <2>1 DEF SavedBy, Inside
    <2> QED BY <1>1, <2>1, <2>2, SavedInside
  <1>4. ASSUME Ours, Theirs', DOMAIN answer' = Switchers PROVE Types' /\ Saved'
    <2>1. Types'
      BY <1>1, <1>4, PaintStepTyped
    <2>2. Saved'
      BY <1>4 DEF Saved
    <2> QED BY <2>1, <2>2
  <1>5. /\ slot \in {"title", "standin"} /\ field \in Intervals /\ pacing \in Intervals
        /\ savedField \in Intervals \cup {0} /\ savedPacing \in Intervals \cup {0}
        /\ installed \in BOOLEAN /\ wroteField \in BOOLEAN /\ wrotePacing \in BOOLEAN
        /\ lostBack \subseteq Refusals /\ 0 \notin Intervals /\ SwapInterval \in Intervals
        /\ (installed => (wroteField => savedField # 0) /\ (wrotePacing => savedPacing # 0))
    BY DEF Types, Saved, Intervals, SwapInterval, TitleInterval
  <1>6. CASE Field(t)
    <2>1. ~installed
      BY <1>6 DEF Field, At, IInv, Halves, WayIn
    <2>2. CASE /\ savedField' = field /\ field' = SwapInterval /\ wroteField' = TRUE
               /\ Goes(t, "pacing")
      <3>1. pc'[t] = "pacing" => SavedBy(t)'
        BY <1>5, <2>2 DEF SavedBy
      <3>2. Theirs' /\ DOMAIN answer' = Switchers
        BY <1>2, <2>2, <3>1
      <3>3. Ours
        BY <1>5, <1>6, <2>1, <2>2 DEF Field, bounds
      <3> QED BY <1>4, <3>2, <3>3
    <2>3. CASE /\ savedField' \in {savedField, 0} /\ UNCHANGED <<field, wroteField>>
               /\ Answers(t, "paintOn", FALSE)
      <3>1. Theirs' /\ DOMAIN answer' = Switchers
        BY <1>3, <2>3
      <3>2. Ours
        BY <1>5, <1>6, <2>1, <2>3 DEF Field, bounds
      <3> QED BY <1>4, <3>1, <3>2
    <2> QED BY <1>6, <2>2, <2>3 DEF Field
  <1>7. CASE Pacing(t)
    <2>1. pc[t] = "pacing" /\ savedField # 0 /\ ~installed
      BY <1>1, <1>7 DEF Pacing, At, SavedBy, IInv, Halves, WayIn
    <2>2. CASE /\ pacing' = SwapInterval /\ wrotePacing' = TRUE
               /\ UNCHANGED <<field, savedField, wroteField>> /\ Goes(t, "slot")
      <3>1. pc'[t] = "slot" => SavedBy(t)'
        BY <1>5, <1>7, <2>1, <2>2 DEF SavedBy, Pacing
      <3>2. Theirs' /\ DOMAIN answer' = Switchers
        BY <1>2, <2>2, <3>1
      <3>3. Ours
        BY <1>5, <1>7, <2>1, <2>2 DEF Pacing, bounds
      <3> QED BY <1>4, <3>2, <3>3
    <2>3. CASE /\ field' = savedField /\ savedField' = 0 /\ wroteField' = FALSE
               /\ UNCHANGED <<pacing, wrotePacing>> /\ Answers(t, "paintOn", FALSE)
      <3>1. Theirs' /\ DOMAIN answer' = Switchers
        BY <1>3, <2>3
      <3>2. Ours
        BY <1>5, <1>7, <2>1, <2>3 DEF Pacing, bounds
      <3> QED BY <1>4, <3>1, <3>2
    <2> QED BY <1>7, <2>2, <2>3 DEF Pacing
  <1>8. CASE Slot(t)
    <2>1. savedField # 0 /\ savedPacing # 0
      BY <1>1, <1>8 DEF Slot, At, SavedBy
    <2>2. \E ok \in BOOLEAN : Answers(t, "paintOn", ok)
      BY <1>8 DEF Slot
    <2>3. Theirs' /\ DOMAIN answer' = Switchers
      BY <1>3, <2>2
    <2>4. Ours
      BY <1>5, <1>8, <2>1 DEF Slot, bounds
    <2> QED BY <1>4, <2>3, <2>4
  <1>9. CASE SlotBack(t)
    <2>1. installed
      BY <1>9 DEF SlotBack, At, IInv, Halves, WayOut
    <2>2. CASE Goes(t, "fieldBack") /\ slot' = "title" /\ installed' = FALSE /\ UNCHANGED bounds
      <3>1. pc'[t] = "fieldBack" => SavedBy(t)'
        BY <1>5, <1>9, <2>1 DEF SavedBy, SlotBack
      <3>2. Theirs' /\ DOMAIN answer' = Switchers
        BY <1>2, <2>2, <3>1
      <3>3. Ours
        BY <1>5, <1>9, <2>2 DEF SlotBack, bounds
      <3> QED BY <1>4, <3>2, <3>3
    <2>3. CASE RefusesBack("slotBack") /\ UNCHANGED <<slot, installed>> /\ Answers(t, "paintOff", FALSE)
      <3>1. Theirs' /\ DOMAIN answer' = Switchers
        BY <1>3, <2>3
      <3>2. Ours
        BY <1>5, <1>9, <2>3 DEF SlotBack, RefusesBack, MayRefuse
      <3> QED BY <1>4, <3>1, <3>2
    <2> QED BY <1>9, <2>2, <2>3 DEF SlotBack
  <1>10. CASE FieldBack(t)
    <2>1. /\ pc[t] = "fieldBack" /\ ~installed /\ (wroteField => savedField # 0)
          /\ (wrotePacing => savedPacing # 0)
      BY <1>1, <1>10 DEF FieldBack, At, SavedBy, IInv, Halves, WayOut
    <2>2. CASE /\ field' = (IF wroteField THEN savedField ELSE field) /\ wroteField' = FALSE
               /\ savedField' = (IF wroteField THEN 0 ELSE savedField) /\ UNCHANGED bounds
               /\ Goes(t, "pacingBack")
      <3>1. pc'[t] = "pacingBack" => SavedBy(t)'
        BY <1>10, <2>1 DEF SavedBy, FieldBack
      <3>2. Theirs' /\ DOMAIN answer' = Switchers
        BY <1>2, <2>2, <3>1
      <3>3. Ours
        BY <1>5, <1>10, <2>1, <2>2 DEF FieldBack, bounds
      <3> QED BY <1>4, <3>2, <3>3
    <2>3. CASE /\ RefusesBack("fieldBack") /\ UNCHANGED <<field, wroteField, savedField>>
               /\ Answers(t, "paintOff", FALSE)
      <3>1. Theirs' /\ DOMAIN answer' = Switchers
        BY <1>3, <2>3
      <3>2. Ours
        BY <1>5, <1>10, <2>1, <2>3 DEF FieldBack, RefusesBack, MayRefuse
      <3> QED BY <1>4, <3>1, <3>2
    <2> QED BY <1>10, <2>2, <2>3 DEF FieldBack
  <1>11. CASE PacingBack(t)
    <2>1. ~installed /\ (wrotePacing => savedPacing # 0)
      BY <1>1, <1>11 DEF PacingBack, At, SavedBy, IInv, Halves, WayOut
    <2>2. Theirs' /\ DOMAIN answer' = Switchers
      BY <1>3, <1>11 DEF PacingBack
    <2>3. Ours
      BY <1>5, <1>11, <2>1 DEF PacingBack, bounds
    <2> QED BY <1>4, <2>2, <2>3
  <1> QED BY <1>6, <1>7, <1>8, <1>9, <1>10, <1>11

\* The display thread, SixtyHertz and the clients save nothing.
LEMMA OthersTyped ==
  ASSUME IInv, Types, Saved,
         \/ DisplayStep \/ Woken \/ Stop
         \/ \E c \in Clients, call \in {"paintOn", "paintOff", "gateOn", "gateOff"} : Request(c, call)
  PROVE  Types' /\ Saved'
  <1>1. /\ UNCHANGED <<slot, field, pacing, filled, discarded, paint, gate, lostBack, answer>>
        /\ midFrame' \in BOOLEAN /\ display' \in BOOLEAN /\ painted' \in BOOLEAN
        /\ stopping' \in BOOLEAN
    BY DEF DisplayStep, Dispatch, OnCall, OnPaint, FrameEnds, Woken, Stop, Request, guestDisplay,
           frames, sixty, bounds, Types
  <1>2. within' \in 0..2
    BY DEF DisplayStep, Dispatch, OnCall, OnPaint, FrameEnds, Woken, Stop, Request, frames, Types
  <1>3. requests' \in 0..MaxRequests
    BY BoundIsNatural
       DEF DisplayStep, Dispatch, OnCall, OnPaint, FrameEnds, Woken, Stop, Request, bounds, Types
  <1>4. \/ UNCHANGED pc
        \/ \E t \in Threads :
             \E p \in {"dispatch", "probe", "listener", "frame", "done", "paintOn", "paintOff",
                       "gateOn", "gateOff"} : GoTo(t, p)
    BY DEF DisplayStep, Dispatch, OnCall, OnPaint, FrameEnds, Woken, Stop, Request, Threads, Switchers
  <1>5. Saved'
    <2>1. CASE UNCHANGED pc
      BY <1>1, <2>1 DEF Saved, SavedBy, paint
    <2> QED BY <1>1, <1>4, <2>1, SavedElsewhere
  <1> QED BY <1>1, <1>2, <1>3, <1>5 DEF Types, paint, gate

\* The title's display and the emulator always have an interval to go by, whatever is refused
\* on the way in and out: none of the saved ones is put back when it is none.
THEOREM TypeCorrect == Spec => []TypeOK
  <1>1. Init => Types /\ Saved
    <2> SUFFICES ASSUME Init PROVE Types /\ Saved
      OBVIOUS
    <2>1. \A t \in Switchers : pc[t] \in {"wait", "idle"}
      BY ThreadsDiffer DEF Init, Threads, Switchers
    <2>2. Saved
      BY <2>1 DEF Init, Saved, SavedBy
    <2>3. /\ DOMAIN answer = Switchers /\ requests \in 0..MaxRequests /\ within \in 0..2
          /\ {field, pacing} \subseteq Intervals
      BY BoundIsNatural DEF Init, Intervals
    <2> QED BY <2>2, <2>3 DEF Init, Types
  <1>2. IInv /\ (Types /\ Saved) /\ [Next]_vars => (Types /\ Saved)'
    <2> SUFFICES ASSUME IInv, Types, Saved, [Next]_vars PROVE Types' /\ Saved'
      OBVIOUS
    <2>1. CASE UNCHANGED vars
      BY <2>1 DEF vars, guestDisplay, frames, paint, gate, sixty, bounds, Types, Saved, SavedBy
    <2>2. ASSUME NEW t \in Switchers, SwitchStep(t) PROVE Types' /\ Saved'
      BY <2>2, OtherStepsTyped, SavingStepsTyped DEF SwitchStep
    <2> QED BY <2>1, <2>2, OthersTyped DEF Next
  <1>3. IInv /\ Types => TypeOK
    BY DEF IInv, PlacesOK, Types, TypeOK, Intervals
  <1> QED BY <1>1, <1>2, <1>3, InductiveInvariant, PTL DEF Spec
=============================================================================
