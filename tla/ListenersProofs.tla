--------------------------- MODULE ListenersProofs ---------------------------
(***************************************************************************)
(* What the listeners write and show, for any places, any number of ticks   *)
(* and switches, and whatever could not be read, written or drawn.          *)
(***************************************************************************)
EXTENDS MCListeners, SequenceTheorems, TLAPS

-----------------------------------------------------------------------------
(* The schedule.                                                            *)

ScheduleTypes ==
  /\ enabled \in BOOLEAN /\ gate \in [in : BOOLEAN, odd : BOOLEAN]
  /\ call \in {"tick", "skip"} /\ phase \in {"call", "logic", "draw", "drawing", "painting"}
  /\ inTick \in BOOLEAN /\ inMidPaint \in BOOLEAN
  /\ tick \in Nat /\ ticks \in Nat /\ switches \in Nat

\* With nothing switched, a gated tick's picture is wanted until its draw phase closes,
\* and its paint stays open until the next draw phase.
InTurn ==
  /\ enabled
  /\ ~gate.in => tick = 0 /\ ~inTick /\ ~inMidPaint
  /\ gate.in =>
       /\ gate.odd <=> call = "tick"
       /\ inTick <=> call = "tick" /\ phase \in {"logic", "draw", "drawing"}
       /\ inMidPaint <=> \/ call = "tick" /\ phase \in {"painting", "call"}
                         \/ call = "skip" /\ phase = "draw"

ScheduleInv ==
  /\ ScheduleTypes
  /\ inTick => call = "tick" /\ phase \in {"logic", "draw", "drawing"}
  /\ phase = "logic" => call = "tick"
  /\ phase = "drawing" => ~inMidPaint
  /\ switches = 0 => InTurn

Scheduled == Unheard \/ Execute \/ BeginDraw \/ EndDraw \/ UNCHANGED schedule

\* Every listener's step keeps the schedule in order.
LEMMA ScheduleKeeps == ASSUME ScheduleInv, Scheduled PROVE ScheduleInv'
  <1> USE DEF ScheduleInv, ScheduleTypes, InTurn
  <1>1. CASE TickCall
    BY <1>1 DEF TickCall
  <1>2. CASE SkipCall
    BY <1>2 DEF SkipCall
  <1>3. CASE Execute
    BY <1>3 DEF Execute
  <1>4. CASE BeginDraw
    BY <1>4 DEF BeginDraw
  <1>5. CASE EndDraw
    BY <1>5 DEF EndDraw
  <1>6. CASE EndPaint
    BY <1>6 DEF EndPaint
  <1>7. CASE SwitchInterpolation
    BY <1>7 DEF SwitchInterpolation
  <1>8. CASE SwitchLogic
    <2>1. gate' \in [in : BOOLEAN, odd : BOOLEAN]
      BY <1>8 DEF SwitchLogic
    <2>2. switches' \in Nat /\ switches' # 0
      BY <1>8 DEF SwitchLogic
    <2> QED BY <1>8, <2>1, <2>2 DEF SwitchLogic
  <1>9. CASE UNCHANGED schedule
    BY <1>9 DEF schedule
  <1> QED BY <1>1, <1>2, <1>3, <1>4, <1>5, <1>6, <1>7, <1>8, <1>9 DEF Scheduled, Unheard

\* The title starts outside every call, with no paint open.
LEMMA ScheduleBegins == ASSUME ScheduleInit PROVE ScheduleInv
  BY DEF ScheduleInit, ScheduleInv, ScheduleTypes, InTurn

\* Halfway between two of the numbers blended is one.
LEMMA MidIsNatural == \A a, b \in Nat : Mid(a, b) \in Nat
  BY DEF Mid
\* Places are natural numbers, and there is one.
LEMMA PlacesAreNatural == Places \subseteq Nat /\ Somewhere \in Places
  BY PlacesAreEven DEF Somewhere

-----------------------------------------------------------------------------
(* What is put back.                                                        *)

\* One change is put back where it is of the field.
LEMMA PutBackOne ==
  ASSUME NEW m, NEW c
  PROVE  PutBack(<<c>>, m) = [f \in DOMAIN m |-> IF f \in DOMAIN c THEN c[f] ELSE m[f]]
  <1>1. ASSUME NEW f, f \in DOMAIN c PROVE LastOf(<<c>>, f) = 1
    BY <1>1 DEF LastOf
  <1>2. <<c>>[1] = c /\ DOMAIN <<c>> = {1}
    OBVIOUS
  <1> QED BY <1>1, <1>2 DEF PutBack

\* Of two changes of a field the later one stays.
LEMMA PutBackTwo ==
  ASSUME NEW m, NEW c, NEW d
  PROVE  PutBack(<<c, d>>, m) = [f \in DOMAIN m |-> IF f \in DOMAIN d THEN d[f]
                                                    ELSE IF f \in DOMAIN c THEN c[f] ELSE m[f]]
  <1>1. ASSUME NEW f, f \in DOMAIN d PROVE LastOf(<<c, d>>, f) = 2
    BY <1>1 DEF LastOf
  <1>2. ASSUME NEW f, f \notin DOMAIN d, f \in DOMAIN c PROVE LastOf(<<c, d>>, f) = 1
    BY <1>2 DEF LastOf
  <1>3. <<c, d>>[1] = c /\ <<c, d>>[2] = d /\ DOMAIN <<c, d>> = {1, 2}
    OBVIOUS
  <1> QED BY <1>1, <1>2, <1>3 DEF PutBack

\* Two changes stand in the order they were made in.
LEMMA InOrder == ASSUME NEW S, NEW c \in S, NEW d \in S PROVE <<c>> \o <<d>> = <<c, d>>
  <1>1. PICK s, r : s = <<c>> \o <<d>> /\ r = <<c, d>>
    OBVIOUS
  <1>2. s \in Seq(S) /\ Len(s) = 2 /\ s[1] = c /\ s[2] = d
    BY <1>1
  <1>3. r \in Seq(S) /\ Len(r) = 2 /\ r[1] = c /\ r[2] = d
    BY <1>1
  <1>4. Len(s) = Len(r) /\ \A i \in 1 .. Len(s) : s[i] = r[i]
    BY <1>2, <1>3
  <1>5. s = r
    BY <1>2, <1>3, <1>4, SeqEqual
  <1> QED BY <1>1, <1>5

\* Nothing is nothing either way round.
LEMMA ReverseNone == Reverse(<<>>) = <<>>
  BY DEF Reverse
\* One change stays where it is.
LEMMA ReverseOne == ASSUME NEW S, NEW c \in S PROVE Reverse(<<c>>) = <<c>>
  <1>1. PICK s, r : s = <<c>> /\ r = Reverse(s)
    OBVIOUS
  <1>2. Len(s) = 1 /\ s[1] = c /\ s \in Seq(S)
    BY <1>1
  <1>3. r = [i \in 1 .. 1 |-> s[1 - i + 1]]
    BY <1>1, <1>2 DEF Reverse
  <1>4. r \in Seq(S) /\ Len(r) = 1 /\ r[1] = c
    BY <1>2, <1>3
  <1> QED BY <1>1, <1>2, <1>4, SeqEqual

\* Two change places.
LEMMA ReverseTwo == ASSUME NEW S, NEW c \in S, NEW d \in S PROVE Reverse(<<c, d>>) = <<d, c>>
  <1>1. PICK s, r, t : s = <<c, d>> /\ t = <<d, c>> /\ r = Reverse(s)
    OBVIOUS
  <1>2. Len(s) = 2 /\ s[1] = c /\ s[2] = d
    BY <1>1
  <1>3. r = [i \in 1 .. 2 |-> s[2 - i + 1]]
    BY <1>1, <1>2 DEF Reverse
  <1>4. Len(r) = 2 /\ r[1] = d /\ r[2] = c /\ r \in Seq(S)
    BY <1>2, <1>3
  <1>5. t \in Seq(S) /\ Len(t) = 2 /\ t[1] = d /\ t[2] = c
    BY <1>1
  <1>6. r = t
    BY <1>4, <1>5, SeqEqual
  <1> QED BY <1>1, <1>6

-----------------------------------------------------------------------------
(* What was seen.                                                           *)

\* An entry made at this tick or at the one before is of what the title itself had there,
\* while nothing is switched; none is of a tick whose picture is still to be drawn.
Remembers(when, at, mine, was) ==
  /\ when <= tick
  /\ inTick /\ phase \in {"logic", "draw"} => when < tick
  /\ switches = 0 /\ gate.in =>
       /\ when = tick => at = mine
       /\ when + 1 = tick => at = IF phase = "logic" THEN mine ELSE was

\* A step of the schedule that moves nothing keeps an entry as true as it was.
LEMMA StillRemembers ==
  ASSUME ScheduleInv, NEW when \in Int, NEW at, NEW mine, NEW was,
         Remembers(when, at, mine, was),
         Unheard \/ BeginDraw \/ EndDraw \/ UNCHANGED schedule
  PROVE  Remembers(when, at, mine, was)'
  <1> USE DEF ScheduleInv, ScheduleTypes, InTurn, Remembers
  <1>1. CASE TickCall
    <2>1. tick' \in {tick, tick + 1} /\ (inTick' => tick' = tick + 1)
      BY <1>1 DEF TickCall
    <2>2. switches' = 0 /\ gate'.in => switches = 0 /\ gate.in /\ inTick' /\ phase = "call"
      BY <1>1 DEF TickCall
    <2> QED BY <1>1, <2>1, <2>2 DEF TickCall
  <1>2. CASE SkipCall
    BY <1>2 DEF SkipCall
  <1>3. CASE BeginDraw
    BY <1>3 DEF BeginDraw
  <1>4. CASE EndDraw
    BY <1>4 DEF EndDraw
  <1>5. CASE EndPaint
    BY <1>5 DEF EndPaint
  <1>6. CASE SwitchInterpolation
    BY <1>6 DEF SwitchInterpolation
  <1>7. CASE SwitchLogic
    BY <1>7 DEF SwitchLogic
  <1>8. CASE UNCHANGED schedule
    BY <1>8 DEF schedule
  <1> QED BY <1>1, <1>2, <1>3, <1>4, <1>5, <1>6, <1>7, <1>8 DEF Unheard

\* The tick moves on from what it remembers.
LEMMA RemembersBefore ==
  ASSUME ScheduleInv, NEW when \in Int, NEW at, NEW mine, NEW was, NEW now,
         Remembers(when, at, mine, was), Execute
  PROVE  Remembers(when, at, now, mine)'
  BY DEF Execute, ScheduleInv, ScheduleTypes, InTurn, Remembers

-----------------------------------------------------------------------------
(* The sea.                                                                 *)

SeaMemory == [at : Nat, table : 0..2, counter : Nat]
SeaTypes ==
  /\ sea \in SeaMemory /\ seaOwn \in SeaMemory /\ seaWas \in SeaMemory
  /\ seaSeen \in [tick : Nat \cup {Never}, at : Nat, table : 0..2]
  /\ seaMissed \in BOOLEAN /\ seaDrawn \in BOOLEAN

Grid(s) == <<s.at, s.table>>
SeaRemembers == Remembers(seaSeen.tick, Grid(seaSeen), Grid(seaOwn), Grid(seaWas))

\* Outside the in-between draw phase nothing is to be put back.
SeaIsOwn ==
  /\ seaBack = <<>> /\ sea.at = seaOwn.at /\ sea.table = seaOwn.table
  /\ ~seaMissed => sea.counter = seaOwn.counter

\* In it, what is to be put back is the title's own: the counter unless it could not be
\* read, and the grid if it is not in memory.
SeaIsHeld ==
  /\ sea.table = seaOwn.table
  /\ \/ seaBack = <<>> /\ seaMissed /\ sea.at = seaOwn.at
     \/ \E counter \in Nat :
          /\ ~seaMissed => counter = seaOwn.counter
          /\ \/ seaBack = <<[counter |-> counter]>> /\ sea.at = seaOwn.at
             \/ seaBack = <<[counter |-> counter], [at |-> seaOwn.at]>>

SeaInv ==
  /\ SeaTypes /\ SeaRemembers /\ SeaIsBetween
  /\ ~InTickDraw => SeaIsOwn
  /\ InTickDraw => SeaIsHeld

\* The sea starts with no grid and nothing to put back.
LEMMA SeaBegins == ASSUME ScheduleInit, SeaInit PROVE SeaInv
  <1> USE DEF ScheduleInit, SeaInit
  <1>1. SeaTypes /\ SeaRemembers
    <2>1. seaSeen.tick = -2 /\ seaSeen \in [tick : Nat \cup {Never}, at : Nat, table : 0..2]
      BY DEF NoSea, Never
    <2>2. sea \in SeaMemory
      BY PlacesAreNatural DEF SeaMemory
    <2>3. SeaRemembers
      BY <2>1 DEF SeaRemembers, Remembers
    <2>4. SeaTypes
      BY <2>1, <2>2 DEF SeaTypes
    <2> QED BY <2>3, <2>4
  <1>2. ~InTickDraw /\ SeaIsOwn
    BY DEF InTickDraw, InDraw, SeaIsOwn
  <1> QED BY <1>1, <1>2 DEF SeaInv, SeaIsBetween

\* What was seen stays of what the title had there.
LEMMA SeaStillRemembers ==
  ASSUME ScheduleInv, SeaTypes, SeaRemembers,
         Unheard \/ BeginDraw \/ EndDraw \/ UNCHANGED schedule,
         seaSeen' = seaSeen, Grid(seaOwn)' = Grid(seaOwn), Grid(seaWas)' = Grid(seaWas)
  PROVE  SeaRemembers'
  <1>1. PICK when, at, mine, was :
          when \in Int /\ when = seaSeen.tick /\ at = Grid(seaSeen) /\ mine = Grid(seaOwn) /\ was = Grid(seaWas)
    BY DEF SeaTypes, Never
  <1>2. when \in Int /\ Remembers(when, at, mine, was)
    BY <1>1 DEF SeaRemembers
  <1>3. Remembers(when, at, mine, was)'
    BY <1>2, StillRemembers
  <1>4. Grid(seaSeen)' = Grid(seaSeen)
    BY DEF Grid
  <1> QED BY <1>1, <1>3, <1>4 DEF SeaRemembers, Remembers

\* The schedule goes on and the sea is left alone.
LEMMA SeaStays == ASSUME ScheduleInv, SeaInv, Unheard \/ UNCHANGED schedule, UNCHANGED seaVars PROVE SeaInv'
  <1> USE DEF SeaInv, seaVars
  <1>1. SeaTypes'
    BY DEF SeaTypes
  <1>2. SeaRemembers'
    BY SeaStillRemembers DEF Grid
  <1>3. (InTickDraw' <=> InTickDraw) /\ (switches' = 0 => switches = 0)
    BY DEF InTickDraw, InDraw, Unheard, TickCall, SkipCall, EndPaint, SwitchInterpolation, SwitchLogic,
           ScheduleInv, ScheduleTypes, schedule
  <1> QED BY <1>1, <1>2, <1>3 DEF SeaIsBetween, SeaIsOwn, SeaIsHeld

\* The tick fills the grid.
LEMMA SeaExecuteKeeps ==
  ASSUME ScheduleInv, SeaInv, NEW place \in Places, NEW table \in 0..2, SeaExecute(place, table)
  PROVE  SeaInv'
  <1> USE DEF SeaInv, SeaExecute
  <1>1. SeaTypes'
    BY PlacesAreNatural DEF SeaTypes, SeaMemory
  <1>2. SeaRemembers'
    <2>1. PICK when, at, mine, was, now :
            /\ when \in Int /\ when = seaSeen.tick /\ at = Grid(seaSeen) /\ mine = Grid(seaOwn) /\ was = Grid(seaWas)
            /\ now = Grid(seaOwn')
      BY DEF SeaTypes, Never
    <2>2. when \in Int /\ Remembers(when, at, mine, was)
      BY <2>1 DEF SeaRemembers
    <2>3. Remembers(when, at, now, mine)'
      BY <2>2, RemembersBefore
    <2> QED BY <2>1, <2>3 DEF SeaRemembers, Remembers, Grid
  <1>3. ~InTickDraw /\ ~InTickDraw'
    BY DEF InTickDraw, InDraw, Execute
  <1>4. SeaIsOwn'
    BY <1>3 DEF SeaIsOwn, SeaTypes, SeaMemory
  <1> QED BY <1>1, <1>2, <1>3, <1>4 DEF SeaIsBetween

\* The draw phase opens, and the grid is recorded, blended and held.
LEMMA SeaDrawBeginsKeeps ==
  ASSUME ScheduleInv, SeaInv, NEW outcome, SeaDrawBegins(outcome)
  PROVE  SeaInv'
  <1> USE DEF SeaInv, SeaDrawBegins
  <1>1. /\ phase = "draw" /\ phase' = "drawing" /\ inTick' = inTick /\ ~InTickDraw
        /\ tick' = tick /\ switches' = switches /\ tick \in Nat
        /\ InTickDraw' <=> inTick
    BY DEF BeginDraw, InTickDraw, InDraw, ScheduleInv, ScheduleTypes
  <1>2. CASE ~inTick \/ outcome = "unreadable"
    <2>1. SeaTypes'
      BY <1>2 DEF SeaTypes, SeaMemory
    <2>2. SeaRemembers'
      BY <1>2, SeaStillRemembers DEF Grid
    <2>3. SeaIsOwn' /\ (inTick => SeaIsHeld')
      BY <1>1, <1>2 DEF SeaIsOwn, SeaIsHeld, SeaTypes
    <2> QED BY <1>1, <2>1, <2>2, <2>3 DEF SeaIsBetween, SeaIsOwn
  <1>3. CASE inTick /\ outcome # "unreadable"
    <2> DEFINE blends == outcome = "blended" /\ sea.table # 0 /\ SeaBlends
    <2>1. /\ seaSeen' = IF sea.table = 0 THEN NoSea
                        ELSE IF outcome = "gridless" THEN seaSeen
                        ELSE [tick |-> tick, at |-> sea.at, table |-> sea.table]
          /\ seaBack' = SeaHolds(blends)
          /\ sea' = IF blends THEN [sea EXCEPT !.at = Mid(seaSeen.at, sea.at)] ELSE sea
      BY <1>3
    <2>2. SeaTypes'
      BY <1>1, <1>3, <2>1, MidIsNatural DEF SeaTypes, SeaMemory, NoSea
    <2>3. SeaRemembers'
      <3>1. CASE sea.table = 0
        BY <1>1, <2>1, <3>1 DEF SeaRemembers, Remembers, NoSea, Never
      <3>2. CASE sea.table # 0 /\ outcome = "gridless"
        BY <2>1, <3>2, SeaStillRemembers DEF Grid
      <3>3. CASE sea.table # 0 /\ outcome # "gridless"
        BY <1>1, <2>1, <3>3 DEF SeaRemembers, Remembers, Grid, SeaIsOwn
      <3> QED BY <3>1, <3>2, <3>3
    <2>4. SeaIsHeld'
      <3>1. PICK counter \in Nat : counter = sea.counter
        BY DEF SeaTypes, SeaMemory
      <3>2. seaBack' = (IF blends THEN <<[counter |-> counter], [at |-> seaOwn.at]>>
                                  ELSE <<[counter |-> counter]>>)
        BY <1>1, <2>1, <3>1 DEF SeaHolds, SeaIsOwn
      <3>3. sea'.table = seaOwn'.table /\ (~blends => sea'.at = seaOwn'.at)
        BY <1>1, <2>1 DEF SeaIsOwn, SeaTypes, SeaMemory
      <3>4. ~seaMissed' => counter = seaOwn'.counter
        BY <1>1, <3>1 DEF SeaIsOwn
      <3> HIDE DEF blends
      <3> QED BY <3>2, <3>3, <3>4 DEF SeaIsHeld
    <2>5. SeaIsBetween'
      <3>1. CASE ~blends
        BY <1>1, <2>1, <3>1 DEF SeaIsBetween, SeaIsOwn
      <3>2. CASE blends /\ switches = 0
        <4>1. gate.in
          BY <1>1, <1>3, <3>2 DEF ScheduleInv, InTurn
        <4>2. Grid(seaSeen) = Grid(seaWas)
          BY <1>1, <3>2, <4>1 DEF SeaRemembers, Remembers, SeaBlends, Continues
        <4>3. sea'.at = Mid(seaSeen.at, sea.at)
          BY <2>1, <3>2 DEF SeaTypes, SeaMemory
        <4> QED BY <1>1, <3>2, <4>2, <4>3 DEF SeaIsBetween, SeaBlends, Grid, SeaIsOwn
      <3> QED BY <1>1, <3>1, <3>2 DEF SeaIsBetween
    <2> QED BY <1>1, <1>3, <2>2, <2>3, <2>4, <2>5
  <1> QED BY <1>2, <1>3

\* The draw steps the counter, which an in-between phase puts back.
LEMMA SeaDrawKeeps == ASSUME ScheduleInv, SeaInv, SeaDraw PROVE SeaInv'
  <1> USE DEF SeaInv, SeaDraw
  <1>1. SeaTypes'
    BY DEF SeaTypes, SeaMemory
  <1>2. /\ sea'.at = sea.at /\ sea'.table = sea.table /\ sea'.counter = sea.counter + 1
        /\ seaOwn'.at = seaOwn.at /\ seaOwn'.table = seaOwn.table
        /\ seaOwn'.counter = IF inTick THEN seaOwn.counter ELSE seaOwn.counter + 1
    BY DEF SeaTypes, SeaMemory
  <1>3. SeaRemembers'
    BY <1>2, SeaStillRemembers DEF Grid
  <1>4. (InTickDraw' <=> InTickDraw) /\ (InTickDraw <=> inTick) /\ switches' = switches
    BY DEF InTickDraw, InDraw, schedule
  <1>5. SeaIsBetween'
    BY <1>2, <1>4 DEF SeaIsBetween
  <1>6. CASE inTick
    <2>1. SeaIsHeld'
      BY <1>2, <1>4, <1>6 DEF SeaIsHeld
    <2> QED BY <1>1, <1>3, <1>4, <1>5, <1>6, <2>1
  <1>7. CASE ~inTick
    <2>1. SeaIsOwn'
      BY <1>2, <1>4, <1>7 DEF SeaIsOwn
    <2> QED BY <1>1, <1>3, <1>4, <1>5, <1>7, <2>1
  <1> QED BY <1>6, <1>7 DEF ScheduleInv, ScheduleTypes

\* What was held, put back, is the title's own.
LEMMA SeaPutBack ==
  ASSUME SeaTypes, SeaIsHeld
  PROVE  LET restore == PutBack(seaBack, sea) IN
         /\ restore \in SeaMemory /\ restore.at = seaOwn.at /\ restore.table = seaOwn.table
         /\ ~seaMissed => restore.counter = seaOwn.counter
  <1>1. DOMAIN sea = {"at", "table", "counter"}
    BY DEF SeaTypes, SeaMemory
  <1>2. CASE seaBack = <<>>
    <2>1. PutBack(seaBack, sea) = [f \in DOMAIN sea |-> sea[f]]
      BY <1>2 DEF PutBack
    <2>2. PutBack(seaBack, sea) = [at |-> sea.at, table |-> sea.table, counter |-> sea.counter]
      BY <1>1, <2>1
    <2> QED BY <1>2, <2>2 DEF SeaTypes, SeaMemory, SeaIsHeld
  <1>3. ASSUME NEW counter \in Nat, ~seaMissed => counter = seaOwn.counter,
               seaBack = <<[counter |-> counter]>>, sea.at = seaOwn.at
        PROVE  /\ PutBack(seaBack, sea) = [at |-> seaOwn.at, table |-> seaOwn.table, counter |-> counter]
    <2>1. PICK c : c = [counter |-> counter]
      OBVIOUS
    <2>2. PutBack(seaBack, sea) = [f \in DOMAIN sea |-> IF f \in DOMAIN c THEN c[f] ELSE sea[f]]
      BY <1>3, <2>1, PutBackOne
    <2>3. DOMAIN c = {"counter"} /\ c["counter"] = counter
      BY <2>1
    <2> QED BY <1>1, <1>3, <2>2, <2>3 DEF SeaIsHeld
  <1>4. ASSUME NEW counter \in Nat, ~seaMissed => counter = seaOwn.counter,
               seaBack = <<[counter |-> counter], [at |-> seaOwn.at]>>
        PROVE  /\ PutBack(seaBack, sea) = [at |-> seaOwn.at, table |-> seaOwn.table, counter |-> counter]
    <2>1. PICK c : c = [counter |-> counter]
      OBVIOUS
    <2>2. PICK d : d = [at |-> seaOwn.at]
      OBVIOUS
    <2>3. PutBack(seaBack, sea) = [f \in DOMAIN sea |-> IF f \in DOMAIN d THEN d[f]
                                     ELSE IF f \in DOMAIN c THEN c[f] ELSE sea[f]]
      BY <1>4, <2>1, <2>2, PutBackTwo
    <2>4. DOMAIN c = {"counter"} /\ c["counter"] = counter /\ DOMAIN d = {"at"} /\ d["at"] = seaOwn.at
      BY <2>1, <2>2
    <2> QED BY <1>1, <2>3, <2>4 DEF SeaIsHeld
  <1> QED BY <1>2, <1>3, <1>4 DEF SeaIsHeld, SeaTypes, SeaMemory

\* The draw phase closes, and the grid and the counter are put back.
LEMMA SeaDrawEndsKeeps == ASSUME ScheduleInv, SeaInv, SeaDrawEnds PROVE SeaInv'
  <1> USE DEF SeaInv, SeaDrawEnds
  <1>1. /\ ~InTickDraw' /\ (InTickDraw <=> inTick)
    BY DEF InTickDraw, InDraw, EndDraw
  <1>2. SeaTypes' /\ SeaIsOwn'
    <2>1. CASE inTick
      BY <1>1, <2>1, SeaPutBack DEF SeaTypes, SeaIsOwn
    <2>2. CASE ~inTick
      BY <1>1, <2>2 DEF SeaTypes, SeaIsOwn
    <2> QED BY <2>1, <2>2
  <1>3. SeaRemembers'
    BY SeaStillRemembers DEF Grid
  <1> QED BY <1>1, <1>2, <1>3 DEF SeaIsBetween

\* Every step of the sea's is one of these.
LEMMA SeaKeeps == ASSUME ScheduleInv, SeaInv, SeaNext PROVE SeaInv' /\ Scheduled
  <1>1. SeaInv'
    BY SeaStays, SeaExecuteKeeps, SeaDrawBeginsKeeps, SeaDrawKeeps, SeaDrawEndsKeeps DEF SeaNext
  <1>2. Scheduled
    BY DEF SeaNext, Scheduled, SeaExecute, SeaDrawBegins, SeaDraw, SeaDrawEnds
  <1> QED BY <1>1, <1>2

-----------------------------------------------------------------------------
(* The rope.                                                                *)

RopeMemory == [hook : Nat, segment : Nat, first : {0, 1}, sway : Nat]
RopeTypes ==
  /\ rope \in RopeMemory /\ ropeOwn \in RopeMemory /\ ropeWas \in RopeMemory
  /\ ropeSeen \in [tick : Nat \cup {Never}, hook : Nat, segment : Nat, first : {0, 1}]
  /\ ropeMissed \in BOOLEAN /\ ropeDrawn \in BOOLEAN

Line(r) == <<r.hook, r.segment, r.first>>
RopeRemembers == Remembers(ropeSeen.tick, Line(ropeSeen), Line(ropeOwn), Line(ropeWas))

\* Until an in-between draw phase has drawn it, and outside one, the rope is the title's own.
RopeIsOwn ==
  /\ ropeBack = <<>> /\ Line(rope) = Line(ropeOwn)
  /\ ~ropeMissed => rope.sway = ropeOwn.sway

\* Drawn in one, what is to be put back is the title's own.
RopeIsHeld ==
  /\ rope.first = ropeOwn.first
  /\ \/ ropeBack = <<>> /\ ropeMissed /\ Line(rope) = Line(ropeOwn)
     \/ \E sway \in Nat :
          /\ ~ropeMissed => sway = ropeOwn.sway
          /\ \/ ropeBack = <<[sway |-> sway]>> /\ Line(rope) = Line(ropeOwn)
             \/ ropeBack = <<[sway |-> sway], [hook |-> ropeOwn.hook, segment |-> ropeOwn.segment]>>

RopeInv ==
  /\ RopeTypes /\ RopeRemembers /\ RopeIsBetween
  /\ ~(InTickDraw /\ ropeDrawn) => RopeIsOwn
  /\ InTickDraw /\ ropeDrawn => RopeIsHeld

\* The rope starts where the title put it, with nothing seen.
LEMMA RopeBegins == ASSUME ScheduleInit, RopeInit PROVE RopeInv
  <1> USE DEF ScheduleInit, RopeInit
  <1>1. RopeTypes /\ RopeRemembers
    <2>1. /\ ropeSeen.tick = -2
          /\ ropeSeen \in [tick : Nat \cup {Never}, hook : Nat, segment : Nat, first : {0, 1}]
      BY DEF NoRope, Never
    <2>2. rope \in RopeMemory
      BY PlacesAreNatural DEF RopeMemory
    <2>3. RopeRemembers
      BY <2>1 DEF RopeRemembers, Remembers
    <2>4. RopeTypes
      BY <2>1, <2>2 DEF RopeTypes
    <2> QED BY <2>3, <2>4
  <1>2. ~InTickDraw /\ RopeIsOwn
    BY DEF InTickDraw, InDraw, RopeIsOwn
  <1> QED BY <1>1, <1>2 DEF RopeInv, RopeIsBetween

\* What was seen stays of what the title had there.
LEMMA RopeStillRemembers ==
  ASSUME ScheduleInv, RopeTypes, RopeRemembers,
         Unheard \/ BeginDraw \/ EndDraw \/ UNCHANGED schedule,
         ropeSeen' = ropeSeen, Line(ropeOwn)' = Line(ropeOwn), Line(ropeWas)' = Line(ropeWas)
  PROVE  RopeRemembers'
  <1>1. PICK when, at, mine, was :
          when \in Int /\ when = ropeSeen.tick /\ at = Line(ropeSeen) /\ mine = Line(ropeOwn) /\ was = Line(ropeWas)
    BY DEF RopeTypes, Never
  <1>2. when \in Int /\ Remembers(when, at, mine, was)
    BY <1>1 DEF RopeRemembers
  <1>3. Remembers(when, at, mine, was)'
    BY <1>2, StillRemembers
  <1>4. Line(ropeSeen)' = Line(ropeSeen)
    BY DEF Line
  <1> QED BY <1>1, <1>3, <1>4 DEF RopeRemembers, Remembers

\* The schedule goes on and the rope is left alone.
LEMMA RopeStays ==
  ASSUME ScheduleInv, RopeInv, Unheard \/ UNCHANGED schedule, UNCHANGED ropeVars PROVE RopeInv'
  <1> USE DEF RopeInv, ropeVars
  <1>1. RopeTypes'
    BY DEF RopeTypes
  <1>2. RopeRemembers'
    BY RopeStillRemembers DEF Line
  <1>3. (InTickDraw' <=> InTickDraw) /\ (switches' = 0 => switches = 0)
    BY DEF InTickDraw, InDraw, Unheard, TickCall, SkipCall, EndPaint, SwitchInterpolation, SwitchLogic,
           ScheduleInv, ScheduleTypes, schedule
  <1> QED BY <1>1, <1>2, <1>3 DEF RopeIsBetween, RopeIsOwn, RopeIsHeld, Line

\* The tick places the hook and the segments.
LEMMA RopeExecuteKeeps ==
  ASSUME ScheduleInv, RopeInv, NEW hook \in Places, NEW segment \in Places, NEW first \in {0, 1},
         RopeExecute(hook, segment, first)
  PROVE  RopeInv'
  <1> USE DEF RopeInv, RopeExecute
  <1>1. RopeTypes'
    BY PlacesAreNatural DEF RopeTypes, RopeMemory
  <1>2. RopeRemembers'
    <2>1. PICK when, at, mine, was, now :
            /\ when \in Int /\ when = ropeSeen.tick /\ at = Line(ropeSeen) /\ mine = Line(ropeOwn) /\ was = Line(ropeWas)
            /\ now = Line(ropeOwn')
      BY DEF RopeTypes, Never
    <2>2. when \in Int /\ Remembers(when, at, mine, was)
      BY <2>1 DEF RopeRemembers
    <2>3. Remembers(when, at, now, mine)'
      BY <2>2, RemembersBefore
    <2> QED BY <2>1, <2>3 DEF RopeRemembers, Remembers, Line
  <1>3. ~InTickDraw /\ ~InTickDraw'
    BY DEF InTickDraw, InDraw, Execute
  <1>4. RopeIsOwn'
    BY <1>3 DEF RopeIsOwn, RopeTypes, RopeMemory, Line
  <1> QED BY <1>1, <1>2, <1>3, <1>4 DEF RopeIsBetween

\* The draw phase opens, and the rope is yet to be drawn.
LEMMA RopeDrawBeginsKeeps == ASSUME ScheduleInv, RopeInv, RopeDrawBegins PROVE RopeInv'
  <1> USE DEF RopeInv, RopeDrawBegins
  <1>1. ~InTickDraw /\ ~ropeDrawn'
    BY DEF BeginDraw, InTickDraw, InDraw
  <1>2. RopeTypes'
    BY DEF RopeTypes
  <1>3. RopeRemembers'
    BY RopeStillRemembers DEF Line
  <1>4. RopeIsOwn'
    BY <1>1 DEF RopeIsOwn, Line
  <1> QED BY <1>1, <1>2, <1>3, <1>4 DEF RopeIsBetween, RopeIsOwn, Line

\* The draw holds the sway, and blends the hook and the live segments.
LEMMA RopeDrawKeeps == ASSUME ScheduleInv, RopeInv, NEW outcome, RopeDraw(outcome) PROVE RopeInv'
  <1> USE DEF RopeInv, RopeDraw
  <1>1. /\ RopeIsOwn /\ ropeDrawn' /\ (InTickDraw' <=> InTickDraw) /\ (InTickDraw <=> inTick)
        /\ switches' = switches /\ tick' = tick /\ inTick' = inTick
    BY DEF InTickDraw, InDraw, schedule
  <1>2. /\ ropeOwn'.sway = IF inTick THEN ropeOwn.sway ELSE ropeOwn.sway + 1
        /\ ropeOwn' \in RopeMemory
        /\ ropeOwn'.hook = ropeOwn.hook /\ ropeOwn'.segment = ropeOwn.segment /\ ropeOwn'.first = ropeOwn.first
    BY DEF RopeTypes, RopeMemory
  <1>3. CASE ~inTick \/ outcome = "nameless"
    <2>1. /\ rope'.sway = rope.sway + 1 /\ rope' \in RopeMemory
          /\ rope'.hook = rope.hook /\ rope'.segment = rope.segment /\ rope'.first = rope.first
      BY <1>3 DEF RopeTypes, RopeMemory
    <2>2. RopeTypes'
      BY <1>2, <1>3, <2>1 DEF RopeTypes
    <2>3. RopeRemembers'
      BY <1>2, <1>3, RopeStillRemembers DEF Line
    <2>4. RopeIsBetween'
      BY <1>1, <1>2, <2>1 DEF RopeIsBetween, RopeIsOwn, Line
    <2>5. CASE inTick
      <3>1. RopeIsHeld'
        BY <1>1, <1>2, <1>3, <2>1, <2>5 DEF RopeIsHeld, RopeIsOwn, Line
      <3> QED BY <1>1, <2>2, <2>3, <2>4, <2>5, <3>1
    <2>6. CASE ~inTick
      <3>1. RopeIsOwn'
        BY <1>1, <1>2, <1>3, <2>1, <2>6 DEF RopeIsOwn, Line, RopeTypes
      <3> QED BY <1>1, <2>2, <2>3, <2>4, <2>6, <3>1
    <2> QED BY <2>5, <2>6
  <1>4. CASE inTick /\ outcome # "nameless"
    <2> DEFINE blends == outcome = "blended" /\ Continues(ropeSeen)
    <2>1. /\ ropeSeen' = IF outcome = "unreadable" THEN NoRope
                         ELSE [tick |-> tick, hook |-> rope.hook, segment |-> rope.segment,
                               first |-> rope.first]
          /\ ropeBack' = <<[sway |-> rope.sway]>>
                           \o (IF blends THEN <<[hook |-> rope.hook, segment |-> rope.segment]>> ELSE <<>>)
          /\ rope' \in RopeMemory
          /\ rope'.hook = IF blends THEN BlendedRope.hook ELSE rope.hook
          /\ rope'.segment = IF blends THEN BlendedRope.segment ELSE rope.segment
          /\ rope'.first = rope.first
      <3>1. BlendedRope.hook \in Nat /\ BlendedRope.segment \in Nat
        BY MidIsNatural DEF RopeTypes, RopeMemory, BlendedRope
      <3>2. LET line == IF blends THEN BlendedRope ELSE [hook |-> rope.hook, segment |-> rope.segment]
            IN rope' = [hook |-> line.hook, segment |-> line.segment, first |-> rope.first,
                        sway |-> rope.sway + 1]
        BY <1>4
      <3>3. /\ rope' \in RopeMemory
            /\ rope'.hook = IF blends THEN BlendedRope.hook ELSE rope.hook
            /\ rope'.segment = IF blends THEN BlendedRope.segment ELSE rope.segment
            /\ rope'.first = rope.first
        <4> HIDE DEF blends, RopeDraw
        <4> QED BY <3>1, <3>2 DEF RopeTypes, RopeMemory
      <3>4. /\ ropeSeen' = IF outcome = "unreadable" THEN NoRope
                           ELSE [tick |-> tick, hook |-> rope.hook, segment |-> rope.segment,
                                 first |-> rope.first]
            /\ ropeBack' = <<[sway |-> rope.sway]>>
                 \o (IF blends THEN <<[hook |-> rope.hook, segment |-> rope.segment]>> ELSE <<>>)
        BY <1>4
      <3> QED BY <3>3, <3>4
    <2>2. RopeTypes'
      <3>1. ropeSeen' \in [tick : Nat \cup {Never}, hook : Nat, segment : Nat, first : {0, 1}]
        BY <2>1 DEF RopeTypes, RopeMemory, NoRope, ScheduleInv, ScheduleTypes
      <3> QED BY <1>2, <2>1, <3>1 DEF RopeTypes
    <2>3. RopeRemembers'
      <3>1. CASE outcome = "unreadable"
        BY <1>1, <2>1, <3>1 DEF RopeRemembers, Remembers, NoRope, Never, ScheduleInv, ScheduleTypes
      <3>2. CASE outcome # "unreadable"
        <4>1. phase' = "drawing"
          BY DEF schedule, InDraw
        <4> QED BY <1>1, <1>2, <2>1, <3>2, <4>1 DEF RopeRemembers, Remembers, Line, RopeIsOwn, ScheduleInv, ScheduleTypes
      <3> QED BY <3>1, <3>2
    <2>4. RopeIsHeld'
      <3>1. PICK sway \in Nat : sway = rope.sway
        BY DEF RopeTypes, RopeMemory
      <3>2. ropeBack' = (IF blends
                           THEN <<[sway |-> sway], [hook |-> ropeOwn.hook, segment |-> ropeOwn.segment]>>
                           ELSE <<[sway |-> sway]>>)
        BY <1>1, <2>1, <3>1 DEF RopeIsOwn, Line
      <3>3. rope'.first = ropeOwn'.first /\ (~blends => Line(rope)' = Line(ropeOwn)')
        BY <1>1, <1>2, <2>1 DEF RopeIsOwn, Line
      <3>4. ~ropeMissed' => sway = ropeOwn'.sway
        BY <1>1, <1>2, <1>4, <3>1 DEF RopeIsOwn
      <3> HIDE DEF blends
      <3> QED BY <1>2, <3>2, <3>3, <3>4 DEF RopeIsHeld
    <2>5. RopeIsBetween'
      <3>1. CASE ~blends
        BY <1>1, <1>2, <2>1, <3>1 DEF RopeIsBetween, RopeIsOwn, Line
      <3>2. CASE blends /\ switches = 0
        <4>1. gate.in /\ phase = "drawing"
          BY <1>1, <1>4, <3>2 DEF ScheduleInv, InTurn, InDraw
        <4>2. Line(ropeSeen) = Line(ropeWas)
          BY <1>1, <3>2, <4>1 DEF RopeRemembers, Remembers, Continues
        <4> QED BY <1>1, <1>2, <2>1, <3>2, <4>2 DEF RopeIsBetween, BlendedRope, Line, Live, RopeIsOwn
      <3> QED BY <1>1, <3>1, <3>2 DEF RopeIsBetween
    <2> QED BY <1>1, <1>4, <2>2, <2>3, <2>4, <2>5
  <1> QED BY <1>3, <1>4

\* What was held, put back, is the title's own.
LEMMA RopePutBack ==
  ASSUME RopeTypes, RopeIsOwn \/ RopeIsHeld
  PROVE  LET restore == PutBack(ropeBack, rope) IN
         /\ restore \in RopeMemory /\ Line(restore) = Line(ropeOwn)
         /\ ~ropeMissed => restore.sway = ropeOwn.sway
  <1>1. DOMAIN rope = {"hook", "segment", "first", "sway"}
    BY DEF RopeTypes, RopeMemory
  <1>2. CASE ropeBack = <<>>
    <2>1. PutBack(ropeBack, rope) = [f \in DOMAIN rope |-> rope[f]]
      BY <1>2 DEF PutBack
    <2>2. PutBack(ropeBack, rope) = [hook |-> rope.hook, segment |-> rope.segment, first |-> rope.first,
                                     sway |-> rope.sway]
      BY <1>1, <2>1
    <2>3. Line(rope) = Line(ropeOwn) /\ (~ropeMissed => rope.sway = ropeOwn.sway)
      BY <1>2 DEF RopeIsOwn, RopeIsHeld
    <2> QED BY <2>2, <2>3 DEF RopeTypes, RopeMemory, Line
  <1>3. ASSUME NEW sway \in Nat, ~ropeMissed => sway = ropeOwn.sway,
               ropeBack = <<[sway |-> sway]>>, Line(rope) = Line(ropeOwn)
        PROVE  PutBack(ropeBack, rope) = [hook |-> ropeOwn.hook, segment |-> ropeOwn.segment,
                                          first |-> ropeOwn.first, sway |-> sway]
    <2>1. PICK c : c = [sway |-> sway]
      OBVIOUS
    <2>2. PutBack(ropeBack, rope) = [f \in DOMAIN rope |-> IF f \in DOMAIN c THEN c[f] ELSE rope[f]]
      BY <1>3, <2>1, PutBackOne
    <2>3. DOMAIN c = {"sway"} /\ c["sway"] = sway
      BY <2>1
    <2> QED BY <1>1, <1>3, <2>2, <2>3 DEF Line
  <1>4. ASSUME NEW sway \in Nat, ~ropeMissed => sway = ropeOwn.sway, rope.first = ropeOwn.first,
               ropeBack = <<[sway |-> sway], [hook |-> ropeOwn.hook, segment |-> ropeOwn.segment]>>
        PROVE  PutBack(ropeBack, rope) = [hook |-> ropeOwn.hook, segment |-> ropeOwn.segment,
                                          first |-> ropeOwn.first, sway |-> sway]
    <2>1. PICK c : c = [sway |-> sway]
      OBVIOUS
    <2>2. PICK d : d = [hook |-> ropeOwn.hook, segment |-> ropeOwn.segment]
      OBVIOUS
    <2>3. PutBack(ropeBack, rope) = [f \in DOMAIN rope |-> IF f \in DOMAIN d THEN d[f]
                                       ELSE IF f \in DOMAIN c THEN c[f] ELSE rope[f]]
      BY <1>4, <2>1, <2>2, PutBackTwo
    <2>4. /\ DOMAIN c = {"sway"} /\ c["sway"] = sway
          /\ DOMAIN d = {"hook", "segment"} /\ d["hook"] = ropeOwn.hook /\ d["segment"] = ropeOwn.segment
      BY <2>1, <2>2
    <2> QED BY <1>1, <1>4, <2>3, <2>4
  <1> QED BY <1>2, <1>3, <1>4 DEF RopeIsOwn, RopeIsHeld, RopeTypes, RopeMemory, Line

\* The draw phase closes, and what was held is put back.
LEMMA RopeDrawEndsKeeps == ASSUME ScheduleInv, RopeInv, RopeDrawEnds PROVE RopeInv'
  <1> USE DEF RopeInv, RopeDrawEnds
  <1>1. ~InTickDraw' /\ (InTickDraw <=> inTick)
    BY DEF InTickDraw, InDraw, EndDraw
  <1>2. RopeTypes' /\ RopeIsOwn'
    <2>1. CASE inTick
      BY <1>1, <2>1, RopePutBack DEF RopeTypes, RopeIsOwn, Line, KeptRope, NoRope
    <2>2. CASE ~inTick
      BY <1>1, <2>2 DEF RopeTypes, RopeIsOwn, Line
    <2> QED BY <2>1, <2>2
  <1>3. RopeRemembers'
    <2>1. CASE ropeSeen' = ropeSeen
      BY <2>1, RopeStillRemembers DEF Line
    <2>2. CASE ropeSeen' = NoRope
      BY <2>2 DEF RopeRemembers, Remembers, NoRope, Never, ScheduleInv, ScheduleTypes, EndDraw
    <2> QED BY <2>1, <2>2 DEF KeptRope
  <1> QED BY <1>1, <1>2, <1>3 DEF RopeIsBetween

\* Every step of the rope's is one of these.
LEMMA RopeKeeps == ASSUME ScheduleInv, RopeInv, RopeNext PROVE RopeInv' /\ Scheduled
  <1>1. RopeInv'
    BY RopeStays, RopeExecuteKeeps, RopeDrawBeginsKeeps, RopeDrawKeeps, RopeDrawEndsKeeps, PlacesAreNatural
       DEF RopeNext
  <1>2. Scheduled
    BY DEF RopeNext, Scheduled, RopeExecute, RopeDrawBegins, RopeDraw, RopeDrawEnds
  <1> QED BY <1>1, <1>2

-----------------------------------------------------------------------------
(* The cloth.                                                               *)

ClothTypes ==
  /\ cloth = [buffer |-> cloth.buffer, current |-> cloth.current, size |-> cloth.size]
  /\ DOMAIN cloth.buffer = Buffers
  /\ cloth.current \in {0, 1}
  /\ cloth.current = clothOwn.current /\ cloth.size = clothOwn.size
  /\ \A p \in Packets : clothSeen[p].tick \in Int
  /\ DOMAIN clothSeen = Packets

\* A packet's entry is of these buffers, those of current b: their size, and every kind of
\* them that is known.
IsOf(p, at, size, b) ==
  /\ clothSeen[p].size = size
  /\ \A k \in BufferKind : Known(k, b) => clothSeen[p].at[k] = at[k]

ClothRemembers ==
  \A p \in Packets : Remembers(clothSeen[p].tick, TRUE,
                               IsOf(p, Uploaded(clothOwn), clothOwn.size, clothOwn.current),
                               IsOf(p, clothWas.at, clothWas.size, 1 - clothOwn.current))

\* A known buffer is the title's own until it is blended, and one change puts it back then.
ClothIsHeld ==
  \A b \in Buffers : Known(b[1], b[2]) =>
    /\ b \notin clothBlended => /\ cloth.buffer[b] = clothOwn.buffer[b]
                                /\ \A i \in DOMAIN clothBack : b \notin DOMAIN clothBack[i]
    /\ b \in clothBlended =>
         \E i \in DOMAIN clothBack :
           /\ b \in DOMAIN clothBack[i] /\ clothBack[i][b] = clothOwn.buffer[b]
           /\ \A j \in DOMAIN clothBack : b \in DOMAIN clothBack[j] => j = i

ClothInv ==
  /\ ClothTypes /\ ClothRemembers /\ ClothIsBetween /\ ClothIsHeld
  /\ clothBlended \subseteq Buffers /\ \E S : clothBack \in Seq(S)
  /\ ~InTickDraw => clothBack = <<>> /\ clothBlended = {}

\* There is a first kind.
LEMMA BufferIs ==
  ASSUME NEW k \in BufferKind, NEW b \in {0, 1}
  PROVE  <<k, b>> \in Buffers /\ 1 \in BufferKind
  BY BufferKindsAreSome DEF Buffers, BufferKind

\* A change added is the last of them.
LEMMA Appended ==
  ASSUME NEW S, NEW s \in Seq(S), NEW e
  PROVE  /\ \E T : Append(s, e) \in Seq(T)
         /\ DOMAIN Append(s, e) = DOMAIN s \cup {Len(s) + 1} /\ Len(s) + 1 \notin DOMAIN s
         /\ \A i \in DOMAIN s : Append(s, e)[i] = s[i]
         /\ Append(s, e)[Len(s) + 1] = e
  <1>1. PICK T : T = S \cup {e}
    OBVIOUS
  <1>2. s \in Seq(T) /\ e \in T
    BY <1>1
  <1>3. Append(s, e) \in Seq(T)
    BY <1>2
  <1> QED BY <1>2, <1>3

\* The cloth starts with its buffers alike and no packet seen.
LEMMA ClothBegins == ASSUME ScheduleInit, ClothInit PROVE ClothInv
  <1> USE DEF ScheduleInit, ClothInit
  <1>1. \A p \in Packets : clothSeen[p].tick = -2
    BY DEF NoCloth, Never
  <1>2. ClothTypes
    BY <1>1 DEF ClothTypes
  <1>3. ClothRemembers
    BY <1>1 DEF ClothRemembers, Remembers
  <1>4. ~InTickDraw /\ ClothIsHeld
    BY DEF InTickDraw, InDraw, ClothIsHeld
  <1>5. <<>> \in Seq({})
    OBVIOUS
  <1> QED BY <1>2, <1>3, <1>4, <1>5 DEF ClothInv, ClothIsBetween

\* A packet whose entry is left alone is as true as it was, where no buffer comes to be known.
LEMMA ClothStillRemembers ==
  ASSUME ScheduleInv, ClothTypes, ClothRemembers,
         Unheard \/ BeginDraw \/ EndDraw \/ UNCHANGED schedule, UNCHANGED <<clothOwn, clothWas>>,
         clothAgain \subseteq clothAgain', NEW p \in Packets, clothSeen'[p] = clothSeen[p]
  PROVE  Remembers(clothSeen[p].tick, TRUE,
                   IsOf(p, Uploaded(clothOwn), clothOwn.size, clothOwn.current),
                   IsOf(p, clothWas.at, clothWas.size, 1 - clothOwn.current))'
  <1>1. PICK when \in Int, mine, was \in BOOLEAN :
          /\ when = clothSeen[p].tick
          /\ mine <=> IsOf(p, Uploaded(clothOwn), clothOwn.size, clothOwn.current)
          /\ was <=> IsOf(p, clothWas.at, clothWas.size, 1 - clothOwn.current)
    BY DEF ClothTypes
  <1>2. Remembers(when, TRUE, mine, was)
    BY <1>1 DEF ClothRemembers, Remembers
  <1>3. Remembers(when, TRUE, mine, was)'
    BY <1>2, StillRemembers
  <1>4. \A k, b : Known(k, b)' => Known(k, b)
    BY DEF Known
  <1>5. /\ mine => IsOf(p, Uploaded(clothOwn), clothOwn.size, clothOwn.current)'
        /\ was => IsOf(p, clothWas.at, clothWas.size, 1 - clothOwn.current)'
    BY <1>1, <1>4 DEF IsOf, Uploaded
  <1> QED BY <1>1, <1>3, <1>5 DEF Remembers

\* The schedule goes on and the cloth is left alone.
LEMMA ClothStays ==
  ASSUME ScheduleInv, ClothInv, Unheard \/ BeginDraw \/ UNCHANGED schedule, UNCHANGED clothVars
  PROVE  ClothInv'
  <1> USE DEF ClothInv, clothVars
  <1>1. ClothTypes' /\ ClothIsHeld'
    BY DEF ClothTypes, ClothIsHeld, Known
  <1>2. ClothRemembers'
    BY ClothStillRemembers DEF ClothRemembers
  <1>3. CASE BeginDraw
    <2>1. ~InTickDraw /\ (InTickDraw' => inTick)
      BY <1>3 DEF BeginDraw, InTickDraw, InDraw
    <2>2. ClothIsBetween'
      BY <2>1, BufferIs DEF ClothIsBetween, ClothIsHeld, ClothTypes, Uploaded, Known
    <2> QED BY <1>1, <1>2, <2>1, <2>2
  <1>4. CASE ~BeginDraw
    <2>1. (InTickDraw' <=> InTickDraw) /\ (switches' = 0 => switches = 0)
      BY <1>4 DEF InTickDraw, InDraw, Unheard, TickCall, SkipCall, EndPaint, SwitchInterpolation, SwitchLogic,
             schedule, ScheduleInv, ScheduleTypes
    <2>2. ClothIsBetween'
      BY <2>1 DEF ClothIsBetween, Uploaded, Known
    <2> QED BY <1>1, <1>2, <2>1, <2>2
  <1> QED BY <1>3, <1>4

\* A tick fills the other buffers, with the current ones the title's own where known.
LEMMA ClothExecuteKeeps ==
  ASSUME ScheduleInv, ClothInv, NEW place \in Places, NEW size \in {1, 2}, ClothExecute(place, size)
  PROVE  ClothInv'
  <1> DEFINE Filled(c) == [b \in Buffers |-> IF b[2] = c.current THEN c.buffer[b] ELSE place]
  <1>1. /\ phase = "logic" /\ Execute /\ ~InTickDraw /\ ~InTickDraw'
        /\ cloth' = [buffer |-> Filled(cloth), current |-> 1 - cloth.current, size |-> size]
        /\ clothOwn' = [buffer |-> Filled(clothOwn), current |-> 1 - clothOwn.current, size |-> size]
        /\ clothWas' = [at |-> Uploaded(clothOwn), size |-> clothOwn.size]
        /\ clothAgain' = clothAgain \ {1 - cloth.current}
        /\ UNCHANGED <<clothSeen, clothBlended, clothBack>>
    BY DEF ClothExecute, Execute, InTickDraw, InDraw
  <1>2. /\ cloth.current \in {0, 1} /\ clothOwn.current = cloth.current
        /\ clothBack = <<>> /\ clothBlended = {} /\ ClothTypes /\ ClothIsHeld
    BY <1>1 DEF ClothInv, ClothTypes
  <1>3. cloth'.buffer = Filled(cloth) /\ clothOwn'.buffer = Filled(clothOwn)
    BY <1>1
  <1>4. ClothTypes'
    BY <1>1, <1>2 DEF ClothTypes
  <1>5. ASSUME NEW b \in Buffers, Known(b[1], b[2])' PROVE cloth'.buffer[b] = clothOwn'.buffer[b]
    <2>1. CASE b[2] = cloth.current
      <3>1. Known(b[1], b[2])
        BY <1>1, <1>2, <1>5, <2>1 DEF Known
      <3> QED BY <1>2, <1>3, <2>1, <3>1 DEF ClothIsHeld
    <2>2. CASE b[2] # cloth.current
      BY <1>2, <1>3, <2>2
    <2> QED BY <2>1, <2>2
  <1>6. ClothIsHeld'
    <2>1. clothBack' = <<>> /\ clothBlended' = {}
      BY <1>1, <1>2
    <2> HIDE DEF Filled
    <2> QED BY <1>5, <2>1 DEF ClothIsHeld
  <1>7. ASSUME NEW p \in Packets
        PROVE  Remembers(clothSeen[p].tick, TRUE,
                         IsOf(p, Uploaded(clothOwn), clothOwn.size, clothOwn.current),
                         IsOf(p, clothWas.at, clothWas.size, 1 - clothOwn.current))'
    <2>1. PICK when \in Int, mine, was, now \in BOOLEAN :
            /\ when = clothSeen[p].tick
            /\ mine <=> IsOf(p, Uploaded(clothOwn), clothOwn.size, clothOwn.current)
            /\ was <=> IsOf(p, clothWas.at, clothWas.size, 1 - clothOwn.current)
            /\ now <=> IsOf(p, Uploaded(clothOwn), clothOwn.size, clothOwn.current)'
      BY <1>2 DEF ClothTypes
    <2>2. Remembers(when, TRUE, mine, was)
      BY <2>1 DEF ClothInv, ClothRemembers, Remembers
    <2>3. Remembers(when, TRUE, now, mine)'
      BY <1>1, <2>2, RemembersBefore
    <2>4. mine => IsOf(p, clothWas.at, clothWas.size, 1 - clothOwn.current)'
      <3>1. PICK last : last = clothOwn.current
        OBVIOUS
      <3>2. /\ 1 - clothOwn'.current = last /\ clothSeen' = clothSeen
            /\ clothWas'.at = Uploaded(clothOwn) /\ clothWas'.size = clothOwn.size
        BY <1>1, <1>2, <3>1
      <3>3. \A k : Known(k, last)' => Known(k, last)
        BY <1>1, <1>2, <3>1 DEF Known
      <3>4. clothSeen[p].size = clothOwn.size
              /\ (\A k \in BufferKind : Known(k, last)' => clothSeen[p].at[k] = Uploaded(clothOwn)[k])
            => IsOf(p, clothWas.at, clothWas.size, 1 - clothOwn.current)'
        <4> HIDE DEF Filled
        <4> QED BY <3>2 DEF IsOf, Known
      <3> QED BY <2>1, <3>1, <3>3, <3>4 DEF IsOf
    <2>5. clothSeen' = clothSeen
      BY <1>1
    <2> HIDE DEF Filled
    <2> QED BY <2>1, <2>3, <2>4, <2>5 DEF Remembers
  <1>8. ClothRemembers'
    BY <1>7 DEF ClothRemembers
  <1>9. UNCHANGED <<clothBack, clothBlended>>
    BY <1>1
  <1> HIDE DEF Filled
  <1> QED BY <1>1, <1>2, <1>4, <1>6, <1>8, <1>9 DEF ClothInv, ClothIsBetween

\* A packet of a plain draw phase records what it uploads, and one that does not read is
\* forgotten.
LEMMA PlainUploadKeeps ==
  ASSUME ScheduleInv, ClothInv, NEW p \in Packets,
         (~inTick /\ \E refused \in SUBSET BufferKind : Upload(p, refused)) \/ UploadUnread(p)
  PROVE  ClothInv'
  <1> USE DEF ClothInv
  <1>1. /\ UNCHANGED <<cloth, clothBlended, clothBack, clothOwn, clothWas, clothAgain>> /\ UNCHANGED schedule
        /\ phase = "drawing"
        /\ \/ clothSeen' = [clothSeen EXCEPT ![p] = NoCloth]
           \/ /\ ~inTick
              /\ clothSeen' = [clothSeen EXCEPT ![p] =
                                 [tick |-> tick, at |-> Uploaded(cloth), size |-> cloth.size]]
    BY DEF Upload, UploadUnread, InDraw
  <1>2. tick \in Int /\ tick \in Nat
    BY DEF ScheduleInv, ScheduleTypes
  <1>3. \A q \in Packets : q # p => clothSeen'[q] = clothSeen[q]
    BY <1>1 DEF ClothTypes
  <1>4. \/ clothSeen'[p] = NoCloth
        \/ ~inTick /\ clothSeen'[p] = [tick |-> tick, at |-> Uploaded(cloth), size |-> cloth.size]
    BY <1>1 DEF ClothTypes
  <1>5. ClothTypes'
    <2>1. clothSeen'[p].tick \in Int
      BY <1>2, <1>4 DEF NoCloth, Never
    <2> QED BY <1>1, <1>3, <2>1 DEF ClothTypes
  <1>6. (InTickDraw' <=> InTickDraw) /\ switches' = switches /\ tick' = tick /\ inTick' = inTick /\ phase' = phase
    BY <1>1 DEF schedule, InTickDraw, InDraw
  <1>7. ClothIsHeld' /\ ClothIsBetween'
    BY <1>1, <1>6 DEF ClothIsHeld, ClothIsBetween, Known, Uploaded
  <1>8. ASSUME NEW q \in Packets
        PROVE  Remembers(clothSeen[q].tick, TRUE,
                         IsOf(q, Uploaded(clothOwn), clothOwn.size, clothOwn.current),
                         IsOf(q, clothWas.at, clothWas.size, 1 - clothOwn.current))'
    <2>1. CASE q # p
      BY <1>1, <1>3, <2>1, ClothStillRemembers
    <2>2. CASE q = p /\ clothSeen'[p] = NoCloth
      <3>1. clothSeen'[q].tick = -2
        BY <2>2 DEF NoCloth, Never
      <3> QED BY <1>2, <1>6, <3>1 DEF Remembers
    <2>3. CASE q = p /\ ~inTick /\ clothSeen'[p] = [tick |-> tick, at |-> Uploaded(cloth), size |-> cloth.size]
      <3>1. clothSeen'[q].tick = tick /\ clothSeen'[q].at = Uploaded(cloth) /\ clothSeen'[q].size = clothOwn.size
        BY <2>3 DEF ClothTypes
      <3>2. clothBlended = {}
        BY <2>3 DEF InTickDraw
      <3>3. \A k \in BufferKind :
              Known(k, clothOwn.current) => Uploaded(cloth)[k] = Uploaded(clothOwn)[k]
        BY <3>2, BufferIs DEF ClothIsHeld, ClothTypes, Uploaded
      <3>4. IsOf(q, Uploaded(clothOwn), clothOwn.size, clothOwn.current)'
        BY <1>1, <3>1, <3>3 DEF IsOf, Known, Uploaded
      <3> QED BY <1>2, <1>6, <2>3, <3>1, <3>4 DEF Remembers
    <2> QED BY <1>4, <2>1, <2>2, <2>3
  <1>9. ClothRemembers'
    BY <1>8 DEF ClothRemembers
  <1> QED BY <1>1, <1>5, <1>6, <1>7, <1>9

\* One of an in-between draw phase blends what is written, of which no known buffer is
\* blended already.
LEMMA TickUploadKeeps ==
  ASSUME ScheduleInv, ClothInv, NEW p \in Packets, NEW refused \in SUBSET BufferKind, Upload(p, refused), inTick
  PROVE  ClothInv'
  <1> DEFINE written == {<<k, cloth.current>> : k \in BufferKind \ refused}
             change == [b \in written |-> cloth.buffer[b]]
  <1>1. /\ UNCHANGED <<clothSeen, clothOwn, clothWas>> /\ UNCHANGED schedule /\ phase = "drawing"
        /\ \/ UNCHANGED <<cloth, clothBlended, clothBack, clothAgain>>
           \/ /\ ClothBlends(p)
              /\ cloth' = [cloth EXCEPT !.buffer =
                   [b \in Buffers |-> IF b \in written THEN Mid(clothSeen[p].at[b[1]], cloth.buffer[b])
                                      ELSE cloth.buffer[b]]]
              /\ clothBlended' = clothBlended \cup written
              /\ clothBack' = Append(clothBack, change)
              /\ clothAgain' = clothAgain \cup {b[2] : b \in clothBlended}
    BY DEF Upload, InDraw
  <1>2. InTickDraw' /\ InTickDraw /\ switches' = switches /\ tick' = tick
    BY <1>1 DEF schedule, InTickDraw, InDraw
  <1>3. CASE UNCHANGED <<cloth, clothBlended, clothBack, clothAgain>>
    <2>1. ClothTypes' /\ ClothIsHeld' /\ ClothIsBetween'
      BY <1>1, <1>2, <1>3 DEF ClothInv, ClothTypes, ClothIsHeld, ClothIsBetween, Known, Uploaded
    <2>2. ClothRemembers'
      BY <1>1, <1>3, ClothStillRemembers DEF ClothInv, ClothRemembers
    <2> QED BY <1>1, <1>2, <1>3, <2>1, <2>2 DEF ClothInv
  <1>4. CASE /\ ClothBlends(p)
             /\ cloth' = [cloth EXCEPT !.buffer =
                  [b \in Buffers |-> IF b \in written THEN Mid(clothSeen[p].at[b[1]], cloth.buffer[b])
                                     ELSE cloth.buffer[b]]]
             /\ clothBlended' = clothBlended \cup written
             /\ clothBack' = Append(clothBack, change)
             /\ clothAgain' = clothAgain \cup {b[2] : b \in clothBlended}
    <2>1. ClothTypes /\ ClothIsHeld /\ clothBlended \subseteq Buffers
      BY DEF ClothInv
    <2>2. cloth.current \in {0, 1} /\ cloth.current = clothOwn.current /\ written \subseteq Buffers
      BY <2>1, BufferIs DEF ClothTypes
    <2>3. /\ cloth'.current = cloth.current /\ cloth'.size = cloth.size
          /\ cloth'.buffer = [b \in Buffers |-> IF b \in written THEN Mid(clothSeen[p].at[b[1]], cloth.buffer[b])
                                                ELSE cloth.buffer[b]]
          /\ cloth' = [buffer |-> cloth'.buffer, current |-> cloth'.current, size |-> cloth'.size]
      <3>1. PICK c, filled : c = cloth /\ filled =
              [b \in Buffers |-> IF b \in written THEN Mid(clothSeen[p].at[b[1]], cloth.buffer[b])
                                 ELSE cloth.buffer[b]]
        OBVIOUS
      <3>2. c = [buffer |-> c.buffer, current |-> c.current, size |-> c.size] /\ cloth' = [c EXCEPT !.buffer = filled]
        BY <1>4, <2>1, <3>1 DEF ClothTypes
      <3>3. cloth' = [buffer |-> filled, current |-> c.current, size |-> c.size]
        BY <3>2
      <3> QED BY <3>1, <3>3
    <2>4. ClothTypes'
      BY <1>1, <2>1, <2>3 DEF ClothTypes
    <2>5. ASSUME NEW b \in written, Known(b[1], b[2])'
          PROVE  b \notin clothBlended /\ b \in Buffers /\ b[2] = cloth.current /\ Known(b[1], b[2])
      <3>1. b \in Buffers /\ b[2] = cloth.current
        BY <2>2, <2>5
      <3>2. CASE b[1] = 1
        <4>1. b = <<1, cloth.current>>
          BY <2>5, <3>2
        <4> QED BY <1>4, <3>1, <3>2, <4>1 DEF ClothBlends, Known
      <3>3. CASE b[2] \notin clothAgain'
        BY <1>4, <3>1, <3>3 DEF Known
      <3> QED BY <2>5, <3>2, <3>3 DEF Known
    <2>6. \A k, b : Known(k, b)' => Known(k, b)
      BY <1>4 DEF Known
    <2>7. /\ \E T : Append(clothBack, change) \in Seq(T)
          /\ DOMAIN clothBack' = DOMAIN clothBack \cup {Len(clothBack) + 1} /\ Len(clothBack) + 1 \notin DOMAIN clothBack
          /\ \A i \in DOMAIN clothBack : clothBack'[i] = clothBack[i]
          /\ clothBack'[Len(clothBack) + 1] = change
      <3>1. PICK S : clothBack \in Seq(S)
        BY DEF ClothInv
      <3>2. PICK added : added = change
        OBVIOUS
      <3>3. clothBack' = Append(clothBack, added)
        BY <1>4, <3>2
      <3>4. /\ \E T : Append(clothBack, added) \in Seq(T)
            /\ DOMAIN Append(clothBack, added) = DOMAIN clothBack \cup {Len(clothBack) + 1}
            /\ Len(clothBack) + 1 \notin DOMAIN clothBack
            /\ \A i \in DOMAIN clothBack : Append(clothBack, added)[i] = clothBack[i]
            /\ Append(clothBack, added)[Len(clothBack) + 1] = added
        BY <3>1, Appended
      <3> HIDE DEF change
      <3> QED BY <3>2, <3>3, <3>4
    <2>8. DOMAIN change = written /\ \A b \in written : change[b] = cloth.buffer[b]
      OBVIOUS
    <2>9. ClothIsHeld'
      <3> SUFFICES ASSUME NEW b \in Buffers, Known(b[1], b[2])'
                   PROVE  /\ b \notin clothBlended' => /\ cloth'.buffer[b] = clothOwn'.buffer[b]
                                                       /\ \A i \in DOMAIN clothBack' : b \notin DOMAIN clothBack'[i]
                          /\ b \in clothBlended' =>
                               \E i \in DOMAIN clothBack' :
                                 /\ b \in DOMAIN clothBack'[i] /\ clothBack'[i][b] = clothOwn'.buffer[b]
                                 /\ \A j \in DOMAIN clothBack' : b \in DOMAIN clothBack'[j] => j = i
        BY DEF ClothIsHeld
      <3>1. Known(b[1], b[2])
        BY <2>6
      <3>2. PICK last : last = Len(clothBack) + 1
        OBVIOUS
      <3> HIDE DEF change
      <3>3. CASE b \in written
        <4>1. b \notin clothBlended
          BY <2>5, <3>3
        <4>2. cloth.buffer[b] = clothOwn.buffer[b] /\ \A i \in DOMAIN clothBack : b \notin DOMAIN clothBack[i]
          BY <2>1, <3>1, <4>1 DEF ClothIsHeld
        <4>3. last \in DOMAIN clothBack' /\ b \in DOMAIN clothBack'[last] /\ clothBack'[last][b] = clothOwn'.buffer[b]
          BY <1>1, <2>7, <2>8, <3>2, <3>3, <4>2
        <4>4. \A j \in DOMAIN clothBack' : b \in DOMAIN clothBack'[j] => j = last
          BY <2>7, <3>2, <4>2
        <4>5. b \in clothBlended'
          BY <1>4, <3>3
        <4> HIDE DEF written
        <4> QED BY <4>3, <4>4, <4>5
      <3>4. CASE b \notin written
        <4>1. (b \in clothBlended' <=> b \in clothBlended) /\ cloth'.buffer[b] = cloth.buffer[b]
          BY <1>4, <2>3, <3>4
        <4>2. \A i \in DOMAIN clothBack' : b \in DOMAIN clothBack'[i] => i \in DOMAIN clothBack /\ clothBack'[i] = clothBack[i]
          BY <2>7, <2>8, <3>4
        <4>3. DOMAIN clothBack \subseteq DOMAIN clothBack'
          BY <2>7
        <4> HIDE DEF written
        <4>4. CASE b \notin clothBlended
          BY <1>1, <2>1, <3>1, <4>1, <4>2, <4>4 DEF ClothIsHeld
        <4>5. CASE b \in clothBlended
          <5>1. PICK i \in DOMAIN clothBack :
                  /\ b \in DOMAIN clothBack[i] /\ clothBack[i][b] = clothOwn.buffer[b]
                  /\ \A j \in DOMAIN clothBack : b \in DOMAIN clothBack[j] => j = i
            BY <2>1, <3>1, <4>5 DEF ClothIsHeld
          <5>2. i \in DOMAIN clothBack' /\ clothBack'[i] = clothBack[i]
            BY <2>7, <4>3
          <5>3. \A j \in DOMAIN clothBack' : b \in DOMAIN clothBack'[j] => j = i
            BY <4>2, <5>1
          <5> QED BY <1>1, <4>1, <4>5, <5>1, <5>2, <5>3
        <4> QED BY <4>4, <4>5
      <3> QED BY <3>3, <3>4
    <2>10. ClothRemembers'
      BY <1>1, <1>4, <2>1, ClothStillRemembers DEF ClothInv, ClothRemembers
    <2>11. ClothIsBetween'
      <3> SUFFICES ASSUME switches = 0, NEW k \in BufferKind, Known(k, 0)', Known(k, 1)'
                   PROVE  \/ Uploaded(cloth)[k]' = Uploaded(clothOwn)[k]'
                          \/ /\ (clothWas.size = clothOwn.size)'
                             /\ Uploaded(cloth)[k]' = Mid(clothWas.at[k], Uploaded(clothOwn)[k])'
        BY <1>2 DEF ClothIsBetween
      <3>1. PICK b : b = <<k, cloth.current>>
        OBVIOUS
      <3>2. b \in Buffers /\ b[1] = k /\ b[2] = cloth.current /\ Known(b[1], b[2])'
        <4>1. b[1] = k /\ b[2] \in {0, 1} /\ b[2] = cloth.current
          BY <2>2, <3>1
        <4>2. Known(b[1], b[2])'
          BY <4>1 DEF Known
        <4> QED BY <2>2, <3>1, <4>1, <4>2, BufferIs
      <3>3. /\ Uploaded(cloth)[k]' = cloth'.buffer[b] /\ Uploaded(clothOwn)[k]' = clothOwn.buffer[b]
            /\ Uploaded(clothOwn)[k] = clothOwn.buffer[b] /\ Uploaded(cloth)[k] = cloth.buffer[b]
        BY <1>1, <2>2, <2>3, <3>1 DEF Uploaded
      <3>4. CASE b \notin written
        <4>1. cloth'.buffer[b] = cloth.buffer[b]
          BY <2>3, <3>2, <3>4
        <4>2. Known(k, 0) /\ Known(k, 1)
          BY <2>6
        <4>3. \/ cloth.buffer[b] = clothOwn.buffer[b]
              \/ clothWas.size = clothOwn.size /\ cloth.buffer[b] = Mid(clothWas.at[k], clothOwn.buffer[b])
          BY <1>2, <3>3, <4>2 DEF ClothInv, ClothIsBetween
        <4> QED BY <1>1, <3>3, <4>1, <4>3 DEF Mid
      <3>5. CASE b \in written
        <4>1. cloth'.buffer[b] = Mid(clothSeen[p].at[k], cloth.buffer[b])
          BY <2>3, <3>2, <3>5
        <4>2. b \notin clothBlended /\ Known(b[1], b[2])
          BY <2>5, <3>2, <3>5
        <4>3. cloth.buffer[b] = clothOwn.buffer[b]
          BY <2>1, <3>2, <4>2 DEF ClothIsHeld
        <4>4. gate.in /\ clothSeen[p].tick + 1 = tick /\ phase # "logic" /\ clothSeen[p].size = cloth.size
          BY <1>1, <1>4 DEF ScheduleInv, InTurn, ClothBlends, Continues
        <4>5. IsOf(p, clothWas.at, clothWas.size, 1 - clothOwn.current)
          BY <4>4 DEF ClothInv, ClothRemembers, Remembers
        <4>6. Known(k, 1 - clothOwn.current)
          BY <2>2, <2>6
        <4>7. clothSeen[p].at[k] = clothWas.at[k] /\ clothWas.size = clothOwn.size
          BY <2>1, <4>4, <4>5, <4>6 DEF IsOf, ClothTypes
        <4> QED BY <1>1, <3>3, <4>1, <4>3, <4>7 DEF Mid
      <3> QED BY <3>4, <3>5
    <2>12. clothBlended' \subseteq Buffers
      BY <1>4, <2>1, <2>2
    <2>13. \E T : clothBack' \in Seq(T)
      BY <1>4, <2>7
    <2> QED BY <1>2, <2>4, <2>9, <2>10, <2>11, <2>12, <2>13 DEF ClothInv
  <1> QED BY <1>1, <1>3, <1>4

\* The draw phase closes, and what is known is put back.
LEMMA ClothDrawEndsKeeps == ASSUME ScheduleInv, ClothInv, ClothDrawEnds PROVE ClothInv'
  <1> USE DEF ClothInv
  <1>1. /\ ~InTickDraw' /\ (InTickDraw <=> inTick) /\ EndDraw
        /\ UNCHANGED <<clothSeen, clothOwn, clothWas, clothAgain>>
    BY DEF InTickDraw, InDraw, ClothDrawEnds, EndDraw
  <1>2. ClothRemembers'
    BY <1>1, ClothStillRemembers DEF ClothRemembers
  <1>3. CASE ~inTick
    <2>1. UNCHANGED <<cloth, clothBack, clothBlended>>
      BY <1>3 DEF ClothDrawEnds
    <2>2. ClothTypes' /\ ClothIsHeld'
      BY <1>1, <2>1 DEF ClothTypes, ClothIsHeld, Known
    <2> QED BY <1>1, <1>2, <1>3, <2>1, <2>2 DEF ClothIsBetween
  <1>4. CASE inTick
    <2>1. PICK c, restored : c = cloth /\ restored = PutBack(clothBack, cloth.buffer)
      OBVIOUS
    <2>2. c = [buffer |-> c.buffer, current |-> c.current, size |-> c.size]
      BY <2>1 DEF ClothTypes
    <2>3. cloth' = [c EXCEPT !.buffer = restored] /\ clothBack' = <<>> /\ clothBlended' = {}
      BY <1>4, <2>1 DEF ClothDrawEnds
    <2>4. cloth' = [buffer |-> restored, current |-> c.current, size |-> c.size]
      BY <2>2, <2>3
    <2>5. DOMAIN restored = Buffers
      BY <2>1 DEF PutBack, ClothTypes
    <2>6. ClothTypes'
      BY <1>1, <2>1, <2>4, <2>5 DEF ClothTypes
    <2>7. ASSUME NEW b \in Buffers, Known(b[1], b[2]) PROVE restored[b] = clothOwn.buffer[b]
      <3>1. restored[b] = IF \E i \in DOMAIN clothBack : b \in DOMAIN clothBack[i]
                            THEN clothBack[LastOf(clothBack, b)][b] ELSE cloth.buffer[b]
        BY <2>1 DEF PutBack, ClothTypes
      <3>2. CASE b \notin clothBlended
        BY <2>7, <3>1, <3>2 DEF ClothIsHeld
      <3>3. CASE b \in clothBlended
        <4>1. PICK i \in DOMAIN clothBack :
                /\ b \in DOMAIN clothBack[i] /\ clothBack[i][b] = clothOwn.buffer[b]
                /\ \A j \in DOMAIN clothBack : b \in DOMAIN clothBack[j] => j = i
          BY <2>7, <3>3 DEF ClothIsHeld
        <4>2. i \in Int
          <5>1. PICK S : clothBack \in Seq(S)
            OBVIOUS
          <5> QED BY <4>1, <5>1
        <4>3. {j \in DOMAIN clothBack : b \in DOMAIN clothBack[j]} = {i}
          BY <4>1
        <4>4. LastOf(clothBack, b) = i
          BY <4>2, <4>3 DEF LastOf
        <4> QED BY <3>1, <4>1, <4>4
      <3> QED BY <3>2, <3>3
    <2>8. cloth'.buffer = restored
      BY <2>4
    <2>9. ClothIsHeld'
      BY <1>1, <2>3, <2>7, <2>8 DEF ClothIsHeld, Known
    <2>10. <<>> \in Seq({})
      OBVIOUS
    <2> QED BY <1>1, <1>2, <2>3, <2>6, <2>9, <2>10 DEF ClothIsBetween
  <1> QED BY <1>3, <1>4 DEF ScheduleInv, ScheduleTypes

\* Every step of the cloth's is one of these.
LEMMA ClothKeeps == ASSUME ScheduleInv, ClothInv, ClothNext PROVE ClothInv' /\ Scheduled
  <1>1. ASSUME NEW p \in Packets, NEW refused \in SUBSET BufferKind, Upload(p, refused) PROVE ClothInv'
    <2>1. CASE inTick
      BY <1>1, <2>1, TickUploadKeeps
    <2>2. CASE ~inTick
      BY <1>1, <2>2, PlainUploadKeeps
    <2> QED BY <2>1, <2>2
  <1>2. ASSUME NEW p \in Packets, UploadUnread(p) PROVE ClothInv'
    BY <1>2, PlainUploadKeeps
  <1>3. ClothInv'
    BY <1>1, <1>2, ClothStays, ClothExecuteKeeps, ClothDrawEndsKeeps DEF ClothNext, ClothDrawBegins
  <1>4. Scheduled
    BY DEF ClothNext, Scheduled, ClothExecute, ClothDrawBegins, Upload, UploadUnread, ClothDrawEnds
  <1> QED BY <1>3, <1>4

-----------------------------------------------------------------------------
(* The camera.                                                              *)

ViewTypes ==
  /\ view \in [at : Nat, demo : BOOLEAN, event : BOOLEAN, first : BOOLEAN]
  /\ viewSeen \in [tick : Nat \cup {Never}, at : Nat] /\ viewWas \in Nat
  /\ paragraph \in BOOLEAN /\ newShot \in BOOLEAN /\ viewRead \in [was : BOOLEAN, now : BOOLEAN]

Undrawn == call = "tick" /\ (phase = "draw" \/ (phase = "drawing" /\ viewDrawn = {}))

\* Until the tick's draw asks, a cut is still announced; once one has asked, none is.
Announced ==
  /\ newShot /\ Undrawn => StartsShot
  /\ Undrawn => ~viewRead.now
  /\ viewRead.now => ~paragraph
  /\ viewRead.was /\ ~newShot => ~paragraph
  /\ ~newShot => ~(view.event /\ view.first)

\* A draw that was read is what the next tick's is blended with.
ViewRemembered ==
  /\ viewSeen.tick <= tick
  /\ inTick /\ phase \in {"logic", "draw"} => viewSeen.tick < tick
  /\ switches = 0 /\ gate.in =>
       /\ viewRead.now => /\ viewSeen.at = view.at
                          /\ viewSeen.tick = IF phase = "logic" THEN tick - 1 ELSE tick
       /\ viewRead.was /\ Undrawn => viewSeen.at = viewWas /\ viewSeen.tick = tick - 1

ViewInv == ViewTypes /\ Announced /\ ViewRemembered /\ NoViewAcrossACut /\ ShotGoesOn

\* The camera starts with no view seen.
LEMMA ViewBegins == ASSUME ScheduleInit, ViewInit PROVE ViewInv
  <1> USE DEF ScheduleInit, ViewInit
  <1>1. viewSeen.tick = -2 /\ viewSeen \in [tick : Nat \cup {Never}, at : Nat]
    BY DEF NoView, Never
  <1>2. view \in [at : Nat, demo : BOOLEAN, event : BOOLEAN, first : BOOLEAN] /\ viewWas \in Nat
    BY PlacesAreNatural
  <1>3. ViewTypes
    BY <1>1, <1>2 DEF ViewTypes
  <1>4. ~InTickDraw /\ ~Undrawn
    BY DEF InTickDraw, InDraw, Undrawn
  <1>5. Announced /\ ViewRemembered
    BY <1>1, <1>4 DEF Announced, ViewRemembered
  <1> QED BY <1>3, <1>4, <1>5 DEF ViewInv, NoViewAcrossACut, ShotGoesOn

\* The schedule goes on and the camera is left alone.
LEMMA ViewStays ==
  ASSUME ScheduleInv, ViewInv, Unheard \/ UNCHANGED schedule, UNCHANGED viewVars
  PROVE  ViewInv'
  <1> USE DEF ViewInv, viewVars, ScheduleInv, ScheduleTypes
  <1>1. ViewTypes'
    BY DEF ViewTypes
  <1>2. (InTickDraw' <=> InTickDraw) /\ (switches' = 0 => switches = 0) /\ (Undrawn' => Undrawn)
    BY DEF InTickDraw, InDraw, Unheard, TickCall, SkipCall, EndPaint, SwitchInterpolation, SwitchLogic,
           schedule, Undrawn
  <1>3. Announced' /\ NoViewAcrossACut' /\ ShotGoesOn'
    BY <1>2 DEF Announced, StartsShot, NoViewAcrossACut, ShotGoesOn
  <1>4. ViewRemembered'
    <2> USE DEF ViewRemembered, ViewTypes
    <2>1. CASE TickCall
      <3>1. tick' \in {tick, tick + 1} /\ (inTick' => tick' = tick + 1) /\ phase' = "logic" /\ ~Undrawn'
        BY <2>1 DEF TickCall, Undrawn
      <3>2. switches' = 0 /\ gate'.in => switches = 0 /\ gate.in /\ inTick' /\ phase = "call"
        BY <2>1 DEF TickCall, InTurn
      <3>3. viewSeen.tick \in Int
        BY DEF Never
      <3> QED BY <3>1, <3>2, <3>3
    <2>2. CASE SkipCall
      BY <2>2 DEF SkipCall, Undrawn, InTurn
    <2>3. CASE EndPaint
      BY <2>3 DEF EndPaint, Undrawn
    <2>4. CASE SwitchInterpolation
      BY <2>4 DEF SwitchInterpolation
    <2>5. CASE SwitchLogic
      BY <2>5 DEF SwitchLogic
    <2>6. CASE UNCHANGED schedule
      BY <2>6 DEF schedule, Undrawn
    <2> QED BY <2>1, <2>2, <2>3, <2>4, <2>5, <2>6 DEF Unheard
  <1> QED BY <1>1, <1>3, <1>4

\* The camera runs, in its shot or in another.
LEMMA ViewExecuteKeeps ==
  ASSUME ScheduleInv, ViewInv, NEW at \in Places, NEW demo \in BOOLEAN, NEW event \in BOOLEAN,
         NEW first \in BOOLEAN, NEW adaptors, ViewExecute(at, demo, adaptors, event, first)
  PROVE  ViewInv'
  <1> USE DEF ViewInv, ViewExecute
  <1>1. /\ view' = [at |-> at, demo |-> demo, event |-> event, first |-> first]
        /\ viewRead'.was = viewRead.now /\ viewRead'.now = FALSE
        /\ viewRead' \in [was : BOOLEAN, now : BOOLEAN]
    BY DEF ViewTypes
  <1>2. ViewTypes'
    BY <1>1, PlacesAreNatural DEF ViewTypes, SetsVariable
  <1>3. /\ phase = "logic" /\ phase' = "draw" /\ UNCHANGED <<gate, call, inTick, tick, switches>>
        /\ call = "tick" /\ Undrawn' /\ ~InTickDraw'
    BY DEF Execute, Undrawn, InTickDraw, InDraw, ScheduleInv
  <1>4. Announced'
    BY <1>1, <1>3 DEF Announced, StartsShot, SetsVariable, ViewTypes
  <1>5. ViewRemembered'
    BY <1>1, <1>3 DEF ViewRemembered
  <1> QED BY <1>2, <1>3, <1>4, <1>5 DEF NoViewAcrossACut, ShotGoesOn

\* The draw phase opens with nothing of the view drawn.
LEMMA ViewDrawBeginsKeeps == ASSUME ScheduleInv, ViewInv, ViewDrawBegins PROVE ViewInv'
  <1> USE DEF ViewInv, ViewDrawBegins
  <1>1. /\ phase = "draw" /\ phase' = "drawing" /\ UNCHANGED <<gate, call, inTick, tick, switches>>
        /\ Undrawn' <=> Undrawn
    BY DEF BeginDraw, Undrawn
  <1>2. ViewTypes'
    BY DEF ViewTypes
  <1>3. Announced' /\ ViewRemembered'
    BY <1>1 DEF Announced, StartsShot, ViewRemembered, ScheduleInv, ScheduleTypes
  <1>4. inTick => Undrawn
    BY <1>1 DEF Undrawn, ScheduleInv
  <1> QED BY <1>1, <1>2, <1>3, <1>4 DEF NoViewAcrossACut, ShotGoesOn, Announced, InTickDraw

\* The view is drawn at the midpoint unless the shot is new.
LEMMA CameraDrawKeeps ==
  ASSUME ScheduleInv, ViewInv, NEW readable \in BOOLEAN, CameraDraw(readable)
  PROVE  ViewInv'
  <1> USE DEF ViewInv
  <1> DEFINE reads == inTick /\ readable
  <1>1. /\ phase = "drawing" /\ viewDrawn = {} /\ UNCHANGED schedule /\ UNCHANGED <<view, viewWas, newShot>>
        /\ viewDrawn' = {IF reads /\ Continues(viewSeen) /\ ~StartsShot
                           THEN Mid(viewSeen.at, view.at) ELSE view.at}
        /\ viewSeen' = IF reads THEN [tick |-> tick, at |-> view.at] ELSE viewSeen
        /\ paragraph' = ParagraphAfter(reads)
        /\ viewRead' = IF reads THEN [viewRead EXCEPT !.now = TRUE] ELSE viewRead
    BY DEF CameraDraw, InDraw
  <1>2. ~Undrawn' /\ viewDrawn' # {} /\ (inTick => Undrawn)
    BY <1>1 DEF Undrawn, ScheduleInv, schedule
  <1>3. /\ viewRead' \in [was : BOOLEAN, now : BOOLEAN] /\ viewRead'.was = viewRead.was
        /\ viewRead'.now = (viewRead.now \/ reads)
    BY <1>1 DEF ViewTypes, ScheduleInv, ScheduleTypes
  <1>4. paragraph' \in BOOLEAN /\ (paragraph' <=> paragraph /\ ~reads)
    BY <1>1 DEF ParagraphAfter, ViewTypes
  <1>5. ViewTypes'
    BY <1>1, <1>3, <1>4 DEF ViewTypes, ScheduleInv, ScheduleTypes
  <1>6. UNCHANGED <<gate, call, phase, inTick, tick, switches>>
    BY <1>1 DEF schedule
  <1> HIDE DEF reads
  <1>7. Announced'
    BY <1>1, <1>2, <1>3, <1>4 DEF Announced, ViewTypes
  <1>8. ViewRemembered'
    BY <1>1, <1>2, <1>3, <1>6 DEF ViewRemembered, ViewTypes, ScheduleInv, ScheduleTypes
  <1>9. NoViewAcrossACut'
    BY <1>1, <1>2, <1>6 DEF NoViewAcrossACut, InTickDraw, InDraw, Announced
  <1>10. ASSUME switches = 0, inTick, ~newShot, viewRead'.was, viewRead'.now
         PROVE  viewDrawn' = {Mid(viewWas, view.at)}
    <2>1. reads /\ Undrawn /\ viewRead.was /\ gate.in
      BY <1>2, <1>3, <1>10 DEF Announced, ScheduleInv, InTurn
    <2>2. ~StartsShot
      BY <1>10, <2>1 DEF Announced, StartsShot
    <2>3. viewSeen.at = viewWas /\ Continues(viewSeen)
      BY <1>10, <2>1 DEF ViewRemembered, Continues, ScheduleInv, ScheduleTypes
    <2> QED BY <1>1, <2>1, <2>2, <2>3
  <1>11. ShotGoesOn'
    BY <1>1, <1>6, <1>10 DEF ShotGoesOn, InTickDraw
  <1> QED BY <1>5, <1>7, <1>8, <1>9, <1>11

\* The draw phase closes, and the tick before is no longer remembered.
LEMMA ViewDrawEndsKeeps == ASSUME ScheduleInv, ViewInv, ViewDrawEnds PROVE ViewInv'
  <1> USE DEF ViewInv, ViewDrawEnds
  <1>1. /\ phase = "drawing" /\ phase' = "painting" /\ UNCHANGED <<gate, call, tick, switches>>
        /\ ~inTick' /\ ~InTickDraw' /\ ~Undrawn'
    BY DEF EndDraw, Undrawn, InTickDraw, InDraw
  <1>2. ViewTypes'
    BY DEF ViewTypes, NoView
  <1>3. Announced'
    BY <1>1 DEF Announced, StartsShot
  <1>4. ViewRemembered'
    <2>1. viewSeen' \in {viewSeen, NoView} /\ (viewSeen.tick = tick => viewSeen' = viewSeen)
      BY DEF ScheduleInv, ScheduleTypes, ViewTypes
    <2>2. viewSeen'.tick <= tick
      BY <2>1 DEF NoView, Never, ViewRemembered, ScheduleInv, ScheduleTypes
    <2> QED BY <1>1, <2>1, <2>2 DEF ViewRemembered
  <1> QED BY <1>1, <1>2, <1>3, <1>4 DEF NoViewAcrossACut, ShotGoesOn

\* Every step of the camera's is one of these.
LEMMA ViewKeeps == ASSUME ScheduleInv, ViewInv, ViewNext PROVE ViewInv' /\ Scheduled
  <1>1. ViewInv'
    BY ViewStays, ViewExecuteKeeps, ViewDrawBeginsKeeps, CameraDrawKeeps, ViewDrawEndsKeeps DEF ViewNext
  <1>2. Scheduled
    BY DEF ViewNext, Scheduled, ViewExecute, ViewDrawBegins, CameraDraw, ViewDrawEnds
  <1> QED BY <1>1, <1>2

-----------------------------------------------------------------------------
(* The material animation.                                                  *)

\* A material animation's memory.
Material(rates) == [frame : Int, end : Ends, rate : rates, loops : BOOLEAN, j3d : {0, 1}, in : {"execute", "draw"}]

\* A loop of no length bounds no frame.
InRange(frame) ==
  /\ frame \in Int
  /\ ~anim.loops \/ Span > 0 => Loop <= frame /\ frame <= anim.end /\ (anim.loops => frame < anim.end)

AnimTypes ==
  /\ anim \in Material(Rates \cup {-r : r \in Rates})
  /\ InRange(animOwn) /\ InRange(animWas)
  /\ animSeen \in [tick : Nat \cup {Never}, frame : Int]
  /\ owned \in [tick : Nat \cup {Never}, j3d : {-1, 0, 1}]
  /\ animMoved \in BOOLEAN /\ animDrawn \in BOOLEAN

\* Drawn in an in-between phase, the animation's own frame is the first of those to put back.
AnimIsHeld ==
  \/ animBack = <<>> /\ anim.frame = animOwn
  \/ animBack = <<[frame |-> animOwn]>>
  \/ \E other \in Int : animBack = <<[frame |-> animOwn], [frame |-> other]>>

\* From a tick's draw to the next, an animation goes on by one step at most.
Unstepped ==
  IF anim.in = "execute" THEN ~(inTick /\ phase \in {"draw", "drawing"})
  ELSE \/ call = "tick" /\ phase \in {"painting", "call"}
       \/ call = "skip" /\ (phase = "draw" \/ (phase = "drawing" /\ ~animDrawn))
AnimMoves ==
  animMoved => /\ animOwn \in {animWas, Updated(animWas, anim.rate)}
               /\ Unstepped => animOwn = animWas

\* The tick's draw is still to come.
Unentered == inTick /\ (phase \in {"logic", "draw"} \/ (phase = "drawing" /\ ~animDrawn))

AnimRemembers ==
  /\ animSeen.tick <= tick /\ owned.tick <= tick
  /\ Unentered => animSeen.tick < tick /\ owned.tick < tick
  /\ switches = 0 /\ gate.in =>
       /\ animSeen.tick = tick => animSeen.frame = IF InTickDraw THEN animOwn ELSE animWas
       /\ animSeen.tick + 1 = tick /\ inTick => animSeen.frame = animWas
       /\ owned # NotOwned =>
            IF Unentered /\ phase # "logic" THEN owned.j3d = anim.j3d => animMoved
            ELSE owned.j3d \in {anim.j3d, -1} /\ (~InTickDraw => animMoved)

AnimInv ==
  ~animMissed =>
    /\ AnimTypes /\ AnimRemembers /\ AnimIsBetween
    /\ ~(InTickDraw /\ animDrawn) => anim.frame = animOwn /\ animBack = <<>>
    /\ InTickDraw /\ animDrawn => AnimIsHeld
    /\ switches = 0 /\ gate.in => AnimMoves

\* Rates are whole and even, forward or back.
LEMMA RatesAre ==
  ASSUME NEW rate \in Rates \cup {-r : r \in Rates}
  PROVE  rate \in Int /\ \E h \in Int : rate = 2 * h /\ rate \div 2 = h
  <1>1. ASSUME NEW r \in Rates
        PROVE  r \in Nat /\ \E h \in Nat : r = 2 * h
    BY FramesAreWhole
  <1>2. CASE rate \in Rates
    BY <1>1, <1>2
  <1>3. CASE \E r \in Rates : rate = -r
    <2>1. PICK r \in Rates : rate = -r
      BY <1>3
    <2>2. PICK h \in Nat : r = 2 * h
      BY <1>1
    <2>3. rate = 2 * (-h) /\ (2 * (-h)) \div 2 = -h /\ -h \in Int
      BY <2>1, <2>2
    <2> QED BY <1>1, <2>1, <2>2, <2>3
  <1> QED BY <1>2, <1>3

\* An animation ends where it loops to or later.
LEMMA EndIs ==
  ASSUME anim.end \in Ends
  PROVE  Loop \in Int /\ anim.end \in Int /\ Span \in Nat /\ anim.end = Loop + Span
  BY FramesAreWhole DEF Span

\* What is left after going round is inside the loop.
LEMMA GoesRound ==
  ASSUME NEW x \in Int, NEW s \in Int, s > 0
  PROVE  /\ x % s \in Int /\ 0 <= x % s /\ x % s < s
         /\ 0 <= x /\ x < s => x % s = x
         /\ s <= x /\ x < 2 * s => x % s = x - s
         /\ -s <= x /\ x < 0 => x % s = x + s
  <1>1. x % s \in Int /\ 0 <= x % s /\ x % s < s
    BY SMTT(30)
  <1>2. 0 <= x /\ x < s => x % s = x
    BY SMTT(30)
  <1>3. s <= x /\ x < 2 * s => x % s = x - s
    BY SMTT(30)
  <1>4. -s <= x /\ x < 0 => x % s = x + s
    BY SMTT(30)
  <1> QED BY <1>1, <1>2, <1>3, <1>4

\* A frame in range stays so.
LEMMA StaysInRange ==
  ASSUME AnimTypes, NEW frame, InRange(frame), NEW by \in Int
  PROVE  InRange(Updated(frame, by))
  <1>1. Loop \in Int /\ anim.end \in Int /\ Span \in Nat /\ anim.end = Loop + Span /\ anim.loops \in BOOLEAN
    BY EndIs DEF AnimTypes, Material
  <1>2. CASE anim.loops /\ Span > 0
    <2>0. PICK next \in Int : next = frame + by
      BY DEF InRange
    <2>1. PICK rest : rest = (next - Loop) % Span
      OBVIOUS
    <2>2. rest \in Int /\ 0 <= rest /\ rest < Span
      BY <1>1, <1>2, <2>1, GoesRound DEF InRange
    <2>3. Updated(frame, by) = Loop + rest
      BY <1>2, <2>0, <2>1, Zenon DEF Updated
    <2> QED BY <1>1, <1>2, <2>2, <2>3 DEF InRange
  <1>3. CASE anim.loops /\ Span = 0
    BY <1>1, <1>3 DEF InRange, Updated
  <1>4. CASE ~anim.loops
    BY <1>1, <1>4 DEF InRange, Updated
  <1> QED BY <1>1, <1>2, <1>3, <1>4

\* A step shorter than the loop goes round once at most.
LEMMA GoesRoundOnce ==
  ASSUME AnimTypes, anim.loops, Span > 0, NEW frame, InRange(frame), NEW by \in Int,
         Span > by, Span > -by
  PROVE  Updated(frame, by) = IF frame + by >= anim.end THEN frame + by - Span
                              ELSE IF frame + by < Loop THEN frame + by + Span ELSE frame + by
  <1>1. Loop \in Int /\ anim.end \in Int /\ Span \in Int /\ anim.end = Loop + Span
    BY EndIs DEF AnimTypes, Material
  <1>2. frame \in Int /\ Loop <= frame /\ frame < anim.end
    BY DEF InRange
  <1>3. PICK next, x \in Int : next = frame + by /\ x = next - Loop
    BY <1>1, <1>2
  <1>4. Updated(frame, by) = Loop + (x % Span)
    BY <1>3, Zenon DEF Updated
  <1>5. -Span <= x /\ x < 2 * Span
    BY <1>1, <1>2, <1>3
  <1>6. /\ 0 <= x /\ x < Span => x % Span = x
        /\ Span <= x /\ x < 2 * Span => x % Span = x - Span
        /\ -Span <= x /\ x < 0 => x % Span = x + Span
    BY <1>1, GoesRound
  <1> QED BY <1>1, <1>2, <1>3, <1>4, <1>5, <1>6

\* A frame that does not step stays where it is.
LEMMA NoStep == ASSUME AnimTypes, NEW frame, InRange(frame) PROVE Updated(frame, 0) = frame
  <1>1. Loop \in Int /\ anim.end \in Int /\ Span \in Nat /\ anim.end = Loop + Span /\ anim.loops \in BOOLEAN
    BY EndIs DEF AnimTypes, Material
  <1>2. CASE anim.loops /\ Span > 0
    BY <1>1, <1>2, GoesRoundOnce DEF InRange
  <1>3. CASE ~(anim.loops /\ Span > 0)
    BY <1>1, <1>3 DEF InRange, Updated
  <1> QED BY <1>2, <1>3

\* Any frame steps to a whole one.
LEMMA UpdatedIsWhole ==
  ASSUME anim.end \in Ends, NEW frame \in Int, NEW by \in Int PROVE Updated(frame, by) \in Int
  <1>1. Loop \in Int /\ anim.end \in Int /\ Span \in Nat
    BY EndIs
  <1>2. Span > 0 => (frame + by - Loop) % Span \in Int
    BY <1>1, GoesRound
  <1> QED BY <1>1, <1>2 DEF Updated

\* Half a step is halfway from the last frame to the frame a step brought.
LEMMA HalfAStep ==
  ASSUME AnimTypes, anim.frame = animOwn, IsAStep(animWas),
         animOwn \in {animWas, Updated(animWas, anim.rate)}
  PROVE  MidFrame(animWas) \in {animOwn} \cup HalfTheStep
  <1>1. PICK rate, h \in Int : rate = anim.rate /\ rate = 2 * h /\ rate \div 2 = h
    BY RatesAre DEF AnimTypes, Material
  <1>2. PICK was \in Int, mine \in Int : was = animWas /\ mine = animOwn
    BY DEF AnimTypes, InRange
  <1>3. InRange(was) /\ InRange(mine)
    BY <1>2 DEF AnimTypes
  <1>4. PICK span \in Nat, end \in Int : /\ span = Span /\ end = anim.end /\ end = Loop + span
                                        /\ Loop \in Int /\ anim.loops \in BOOLEAN
    BY EndIs DEF AnimTypes, Material
  <1>5. PICK short \in BOOLEAN : short <=> (span <= 2 * rate \/ span <= -(2 * rate))
    OBVIOUS
  <1>6. HalfTheStep = (IF anim.loops THEN {Updated(was, h)} ELSE {Mid(was, mine)})
                     \cup (IF short THEN {Mid(was, mine)} ELSE {})
    BY <1>1, <1>2, <1>4, <1>5 DEF HalfTheStep
  <1>7. ASSUME WithinStep(mine - was) PROVE MidFrame(was) = Mid(was, mine)
    <2>1. was + (mine - was) \div 2 = (was + mine) \div 2
      OBVIOUS
    <2> QED BY <1>2, <1>7, <2>1 DEF MidFrame, Mid
  <1>8. WithinStep(mine - was) <=>
          (IF mine - was < 0 THEN -(mine - was) ELSE mine - was) <= (IF rate < 0 THEN -rate ELSE rate)
    BY <1>1 DEF WithinStep
  <1>9. CASE mine = was
    <2>1. WithinStep(mine - was) /\ Mid(was, mine) = mine
      BY <1>1, <1>8, <1>9 DEF Mid
    <2> QED BY <1>2, <1>7, <2>1
  <1>10. CASE mine = Updated(was, rate) /\ ~anim.loops
    <2>1. Loop <= was /\ was <= end
      BY <1>3, <1>4, <1>10 DEF InRange
    <2>2. mine = IF was + rate >= end THEN end ELSE IF was + rate < Loop THEN Loop ELSE was + rate
      BY <1>4, <1>10 DEF Updated
    <2>3. WithinStep(mine - was)
      BY <1>1, <1>4, <1>8, <2>1, <2>2
    <2> QED BY <1>2, <1>6, <1>7, <1>10, <2>3
  <1>11. CASE mine = Updated(was, rate) /\ anim.loops /\ span = 0
    <2>1. mine = was + rate /\ Updated(was, h) = was + h
      BY <1>4, <1>11 DEF Updated
    <2>2. WithinStep(mine - was) /\ Mid(was, mine) = was + h
      BY <1>1, <1>8, <2>1 DEF Mid
    <2> QED BY <1>2, <1>6, <1>7, <1>11, <2>1, <2>2
  <1>12. CASE WithinStep(mine - was) /\ short
    BY <1>2, <1>6, <1>7, <1>12
  <1>13. CASE mine = Updated(was, rate) /\ anim.loops /\ span > 0 /\ ~(WithinStep(mine - was) /\ short)
    <2>1. Loop <= was /\ was < end /\ Loop <= mine /\ mine < end
      BY <1>3, <1>4, <1>13 DEF InRange
    <2>2. span > rate /\ span > -rate /\ span > h /\ span > -h
      <3>1. CASE ~short
        BY <1>1, <1>4, <1>5, <1>13, <3>1
      <3>2. CASE ~WithinStep(mine - was)
        <4>1. ~((IF mine - was < 0 THEN -(mine - was) ELSE mine - was) <= (IF rate < 0 THEN -rate ELSE rate))
          BY <1>8, <3>2
        <4>2. mine - was < span /\ was - mine < span
          BY <1>4, <2>1
        <4> QED BY <1>1, <1>4, <4>1, <4>2
      <3> QED BY <1>13, <3>1, <3>2
    <2>3. mine = IF was + rate >= end THEN was + rate - span
                 ELSE IF was + rate < Loop THEN was + rate + span ELSE was + rate
      BY <1>1, <1>3, <1>4, <1>13, <2>2, GoesRoundOnce
    <2>4. Updated(was, h) = IF was + h >= end THEN was + h - span
                            ELSE IF was + h < Loop THEN was + h + span ELSE was + h
      BY <1>3, <1>4, <1>13, <2>2, GoesRoundOnce
    <2>5. CASE Loop <= was + rate /\ was + rate < end
      <3>1. mine = was + rate /\ WithinStep(mine - was) /\ Mid(was, mine) = was + h
        BY <1>1, <1>4, <1>8, <2>3, <2>5 DEF Mid
      <3>2. Updated(was, h) = was + h
        BY <1>1, <1>4, <2>1, <2>4, <2>5
      <3> QED BY <1>2, <1>6, <1>7, <1>13, <3>1, <3>2
    <2>6. CASE was + rate >= end
      <3>1. mine = was + rate - span /\ rate > 0
        BY <1>1, <1>4, <2>1, <2>3, <2>6
      <3>2. ~WithinStep(mine - was)
        <4>1. mine - was = rate - span
          BY <1>4, <3>1
        <4>2. WithinStep(mine - was) => span <= 2 * rate
          BY <1>4, <1>8, <2>2, <3>1, <4>1
        <4> QED BY <1>5, <1>13, <4>2
      <3>3. (mine - was) + span = rate /\ was + h >= Loop /\ was + h \in Int
        BY <1>1, <1>4, <2>1, <3>1
      <3>4. MidFrame(was) = IF was + h >= end THEN was + h - span ELSE was + h
        <4>1. anim.frame = mine /\ anim.rate > 0 /\ ~WithinStep(anim.frame - was)
          BY <1>1, <1>2, <3>1, <3>2
        <4>2. anim.frame - was + (IF anim.rate > 0 THEN Span ELSE -Span) = rate
          BY <1>4, <3>3, <4>1
        <4>3. PICK wrapped, mid \in Int : wrapped = rate /\ mid = was + wrapped \div 2 /\ mid = was + h
          BY <1>1
        <4>4. MidFrame(was) = CASE mid >= anim.end -> mid - Span
                                [] mid < Loop -> mid + Span
                                [] OTHER -> mid
          BY <4>1, <4>2, <4>3 DEF MidFrame
        <4>5. MidFrame(was) = CASE mid >= end -> mid - span
                                [] mid < Loop -> mid + span
                                [] OTHER -> mid
          BY <1>4, <4>4
        <4> QED BY <1>4, <3>3, <4>3, <4>5
      <3>5. Updated(was, h) = IF was + h >= end THEN was + h - span ELSE was + h
        BY <1>4, <2>4, <3>3
      <3> QED BY <1>2, <1>6, <1>13, <3>4, <3>5
    <2>7. CASE was + rate < Loop
      <3>1. mine = was + rate + span /\ rate < 0
        BY <1>1, <1>4, <2>1, <2>3, <2>7
      <3>2. ~WithinStep(mine - was)
        <4>1. mine - was = rate + span
          BY <1>4, <3>1
        <4>2. WithinStep(mine - was) => span <= -(2 * rate)
          BY <1>4, <1>8, <2>2, <3>1, <4>1
        <4> QED BY <1>5, <1>13, <4>2
      <3>3. (mine - was) + (-span) = rate /\ was + h < end /\ was + h \in Int
        BY <1>1, <1>4, <2>1, <3>1
      <3>4. MidFrame(was) = IF was + h < Loop THEN was + h + span ELSE was + h
        <4>1. anim.frame = mine /\ ~(anim.rate > 0) /\ ~WithinStep(anim.frame - was)
          BY <1>1, <1>2, <3>1, <3>2
        <4>2. anim.frame - was + (IF anim.rate > 0 THEN Span ELSE -Span) = rate
          BY <1>4, <3>3, <4>1
        <4>3. PICK wrapped, mid \in Int : wrapped = rate /\ mid = was + wrapped \div 2 /\ mid = was + h
          BY <1>1
        <4>4. MidFrame(was) = CASE mid >= anim.end -> mid - Span
                                [] mid < Loop -> mid + Span
                                [] OTHER -> mid
          BY <4>1, <4>2, <4>3 DEF MidFrame
        <4>5. MidFrame(was) = CASE mid >= end -> mid - span
                                [] mid < Loop -> mid + span
                                [] OTHER -> mid
          BY <1>4, <4>4
        <4> QED BY <1>4, <3>3, <4>3, <4>5
      <3>5. Updated(was, h) = IF was + h < Loop THEN was + h + span ELSE was + h
        BY <1>4, <2>4, <3>3
      <3> QED BY <1>2, <1>6, <1>13, <3>4, <3>5
    <2> QED BY <1>1, <1>4, <2>1, <2>5, <2>6, <2>7
  <1> QED BY <1>1, <1>2, <1>4, <1>9, <1>10, <1>11, <1>12, <1>13

\* An animation starts at its loop frame, owned by no draw.
LEMMA AnimBegins == ASSUME ScheduleInit, AnimInit PROVE AnimInv
  <1> USE DEF ScheduleInit, AnimInit
  <1>1. PICK rate \in Rates \cup {-r : r \in Rates} : rate = anim.rate
    OBVIOUS
  <1>2. anim.end \in Ends /\ Loop \in Int /\ anim.end \in Int /\ Span \in Nat /\ anim.end = Loop + Span
    BY EndIs
  <1>3. animSeen.tick = -2 /\ owned = NotOwned /\ owned.tick = -2
    BY DEF NoAnim, NotOwned, Never
  <1>4. AnimTypes
    <2>1. anim \in Material(Rates \cup {-r : r \in Rates})
      BY <1>2 DEF Material
    <2>2. InRange(Loop)
      BY <1>2 DEF InRange
    <2>3. /\ animSeen \in [tick : Nat \cup {Never}, frame : Int]
          /\ owned \in [tick : Nat \cup {Never}, j3d : {-1, 0, 1}]
      BY DEF NoAnim, NotOwned
    <2> QED BY <2>1, <2>2, <2>3 DEF AnimTypes, InRange, Span
  <1>5. AnimRemembers
    BY <1>3 DEF AnimRemembers, Unentered
  <1>6. ~InTickDraw
    BY DEF InTickDraw, InDraw
  <1>7. AnimIsBetween /\ AnimMoves
    BY <1>6 DEF AnimIsBetween, AnimMoves
  <1>8. anim.frame = animOwn
    OBVIOUS
  <1> QED BY <1>4, <1>5, <1>6, <1>7, <1>8 DEF AnimInv

\* What depends on the schedule alone, where the animation is left alone.
LEMMA AnimStays ==
  ASSUME ScheduleInv, AnimInv, Unheard \/ UNCHANGED schedule, UNCHANGED animVars
  PROVE  AnimInv'
  <1> SUFFICES ASSUME ~animMissed PROVE AnimInv'
    BY DEF AnimInv, animVars
  <1> USE DEF animVars
  <1>0. AnimTypes /\ AnimRemembers /\ AnimIsBetween
    BY DEF AnimInv
  <1>1. AnimTypes'
    BY <1>0 DEF AnimTypes, InRange, Span
  <1>2. (InTickDraw' <=> InTickDraw) /\ (switches' = 0 => switches = 0)
    BY DEF InTickDraw, InDraw, Unheard, TickCall, SkipCall, EndPaint, SwitchInterpolation, SwitchLogic,
           schedule, ScheduleInv, ScheduleTypes
  <1>3. \A f, by : Updated(f, by)' = Updated(f, by)
    BY DEF Updated, Span
  <1>4. AnimIsBetween'
    BY <1>0, <1>2, <1>3 DEF AnimIsBetween, HalfTheStep, Span
  <1>5. AnimRemembers'
    <2> USE <1>0 DEF AnimRemembers, AnimTypes, ScheduleInv, ScheduleTypes, InTurn, InTickDraw, InDraw, Unentered
    <2>0. animSeen.tick \in Int /\ owned.tick \in Int
      BY DEF Never
    <2>1. CASE TickCall
      <3>1. tick' \in {tick, tick + 1} /\ (inTick' => tick' = tick + 1) /\ phase' = "logic"
        BY <2>1 DEF TickCall
      <3>2. switches' = 0 /\ gate'.in => switches = 0 /\ gate.in /\ inTick' /\ phase = "call" /\ ~inTick
        BY <2>1 DEF TickCall
      <3> QED BY <2>0, <3>1, <3>2
    <2>2. CASE SkipCall
      BY <2>2 DEF SkipCall
    <2>3. CASE EndPaint
      BY <2>3 DEF EndPaint
    <2>4. CASE SwitchInterpolation
      BY <2>4 DEF SwitchInterpolation
    <2>5. CASE SwitchLogic
      BY <2>5 DEF SwitchLogic
    <2>6. CASE UNCHANGED schedule
      BY <2>6 DEF schedule
    <2> QED BY <2>1, <2>2, <2>3, <2>4, <2>5, <2>6 DEF Unheard
  <1>6. switches' = 0 /\ gate'.in => AnimMoves'
    <2>1. switches' = 0 /\ gate'.in => switches = 0 /\ gate.in
      BY DEF Unheard, TickCall, SkipCall, EndPaint, SwitchInterpolation, SwitchLogic, schedule,
             ScheduleInv, ScheduleTypes
    <2>2. switches' = 0 /\ gate'.in /\ Unstepped' => Unstepped
      BY <2>1 DEF Unstepped, Unheard, TickCall, SkipCall, EndPaint, SwitchInterpolation, SwitchLogic, schedule,
             ScheduleInv, ScheduleTypes, InTurn
    <2> QED BY <1>3, <2>1, <2>2 DEF AnimMoves, AnimInv
  <1>7. AnimIsHeld' <=> AnimIsHeld
    BY DEF AnimIsHeld
  <1> QED BY <1>1, <1>2, <1>4, <1>5, <1>6, <1>7 DEF AnimInv

\* The tick plays the animation, leaves it or puts another in its place.
LEMMA AnimExecuteKeeps ==
  ASSUME ScheduleInv, AnimInv, NEW how \in {"plays", "stays", "replaced"}, AnimExecute(how)
  PROVE  AnimInv'
  <1> SUFFICES ASSUME ~animMissed PROVE AnimInv'
    BY DEF AnimInv, AnimExecute
  <1>0. AnimTypes /\ AnimRemembers /\ anim.frame = animOwn /\ animBack = <<>>
    BY DEF AnimInv, InTickDraw, InDraw, AnimExecute, Execute
  <1>1. PICK now : now = CASE how = "plays" -> Updated(animOwn, anim.rate)
                           [] how = "stays" -> animOwn
                           [] how = "replaced" -> Loop
    OBVIOUS
  <1>2. /\ phase = "logic" /\ phase' = "draw" /\ UNCHANGED <<gate, call, inTick, tick, switches>>
        /\ call = "tick" /\ ~InTickDraw /\ ~InTickDraw'
    BY DEF AnimExecute, Execute, InTickDraw, InDraw, ScheduleInv
  <1>3. /\ anim' = [anim EXCEPT !.frame = now, !.j3d = IF how = "replaced" THEN 1 - @ ELSE @]
        /\ animOwn' = now /\ animMoved' = (animMoved /\ how # "replaced")
        /\ UNCHANGED <<animSeen, owned, entered, played, animBack, animDrawn, animWas, animShown, animMissed>>
        /\ how = "plays" => anim.in = "execute"
    BY <1>0, <1>1 DEF AnimExecute
  <1>4. anim.rate \in Rates \cup {-r : r \in Rates}
    BY <1>0 DEF AnimTypes, Material
  <1>5. InRange(now)
    <2>1. CASE how = "plays"
      BY <1>0, <1>1, <1>4, <2>1, RatesAre, StaysInRange DEF AnimTypes
    <2>2. CASE how = "stays"
      BY <1>0, <1>1, <2>2 DEF AnimTypes
    <2>3. CASE how = "replaced"
      <3>1. now = Loop
        BY <1>1, <2>3
      <3>2. Loop \in Int /\ anim.end \in Int /\ Span \in Nat /\ anim.end = Loop + Span
        BY <1>0, EndIs DEF AnimTypes, Material
      <3> QED BY <3>1, <3>2 DEF InRange
    <2> QED BY <2>1, <2>2, <2>3
  <1>6. /\ anim'.frame = now /\ anim'.rate = anim.rate /\ anim'.loops = anim.loops /\ anim'.end = anim.end /\ anim'.in = anim.in
        /\ anim'.j3d = IF how = "replaced" THEN 1 - anim.j3d ELSE anim.j3d
        /\ anim' \in Material(Rates \cup {-r : r \in Rates})
    <2>1. now \in Int
      BY <1>5 DEF InRange
    <2>2. PICK j \in {0, 1} : j = IF how = "replaced" THEN 1 - anim.j3d ELSE anim.j3d
      BY <1>0 DEF AnimTypes, Material
    <2>3. anim' = [anim EXCEPT !.frame = now, !.j3d = j]
      BY <1>3, <2>2
    <2>4. anim \in Material(Rates \cup {-r : r \in Rates})
      BY <1>0 DEF AnimTypes
    <2>5. PICK r : r = Rates \cup {-rate : rate \in Rates}
      OBVIOUS
    <2>6. anim \in Material(r)
      BY <2>4, <2>5
    <2>7. LET n == [anim EXCEPT !.frame = now, !.j3d = j] IN
            /\ n \in Material(r) /\ n.frame = now /\ n.j3d = j
            /\ n.rate = anim.rate /\ n.loops = anim.loops /\ n.end = anim.end /\ n.in = anim.in
      BY <2>1, <2>6 DEF Material
    <2> QED BY <2>2, <2>3, <2>5, <2>7
  <1>7. AnimTypes'
    BY <1>0, <1>3, <1>5, <1>6 DEF AnimTypes, InRange, Span
  <1>8. AnimRemembers'
    BY <1>0, <1>2, <1>3, <1>6 DEF AnimRemembers, Unentered, ScheduleInv, ScheduleTypes, InTurn, AnimTypes, Material, NotOwned
  <1>9. switches' = 0 /\ gate'.in => AnimMoves'
    <2> SUFFICES ASSUME switches = 0, gate.in, animMoved, how # "replaced"
                 PROVE  /\ now \in {animWas, Updated(animWas, anim.rate)'}
                        /\ Unstepped' => now = animWas
      BY <1>2, <1>3, <1>6 DEF AnimMoves
    <2>1. inTick
      BY <1>2 DEF ScheduleInv, InTurn
    <2>2. ~Unstepped' /\ AnimMoves
      BY <1>2, <1>6, <2>1 DEF Unstepped, AnimInv
    <2>3. \A f, by : Updated(f, by)' = Updated(f, by)
      BY <1>6 DEF Updated, Span
    <2>4. CASE how = "plays"
      <3>1. animOwn = animWas
        BY <1>2, <1>3, <2>2, <2>4 DEF AnimMoves, Unstepped
      <3> QED BY <1>1, <1>3, <2>2, <2>3, <2>4, <3>1
    <2>5. CASE how = "stays"
      BY <1>1, <1>3, <2>2, <2>3, <2>5 DEF AnimMoves
    <2> QED BY <2>4, <2>5
  <1> QED BY <1>0, <1>2, <1>3, <1>6, <1>7, <1>8, <1>9 DEF AnimInv, AnimIsBetween

\* The draw phase opens, and the actor is yet to be drawn.
LEMMA AnimDrawBeginsKeeps == ASSUME ScheduleInv, AnimInv, AnimDrawBegins PROVE AnimInv'
  <1> SUFFICES ASSUME ~animMissed PROVE AnimInv'
    BY DEF AnimInv, AnimDrawBegins
  <1> USE DEF AnimDrawBegins
  <1>1. /\ phase = "draw" /\ phase' = "drawing" /\ UNCHANGED <<gate, call, inTick, tick, switches>>
        /\ ~InTickDraw
    BY DEF BeginDraw, InTickDraw, InDraw
  <1>2. AnimTypes /\ AnimRemembers /\ anim.frame = animOwn /\ animBack = <<>>
    BY <1>1 DEF AnimInv
  <1>3. AnimTypes'
    BY <1>2 DEF AnimTypes, InRange, Span
  <1>4. AnimRemembers'
    BY <1>1, <1>2 DEF AnimRemembers, Unentered, ScheduleInv, ScheduleTypes, InTurn, InTickDraw, InDraw, AnimTypes
  <1>5. switches' = 0 /\ gate'.in => AnimMoves'
    <2>1. \A f, by : Updated(f, by)' = Updated(f, by)
      BY DEF Updated, Span
    <2>2. Unstepped' => Unstepped
      BY <1>1 DEF Unstepped, ScheduleInv
    <2> QED BY <1>1, <2>1, <2>2 DEF AnimMoves, AnimInv
  <1>6. AnimIsBetween'
    BY DEF AnimIsBetween
  <1> QED BY <1>2, <1>3, <1>4, <1>5, <1>6 DEF AnimInv

\* A frame halfway is whole.
LEMMA MidFrameIsWhole == ASSUME AnimTypes, NEW from \in Int PROVE MidFrame(from) \in Int
  <1>1. PICK frame \in Int, span \in Int : frame = anim.frame /\ span = Span
    BY EndIs DEF AnimTypes, Material
  <1>2. PICK turn \in Int : turn = IF anim.rate > 0 THEN Span ELSE -Span
    BY <1>1
  <1>3. PICK mid \in Int : mid = from + ((frame - from) + turn) \div 2
    OBVIOUS
  <1>4. MidFrame(from) = IF WithinStep(frame - from) THEN from + (frame - from) \div 2
                         ELSE CASE mid >= anim.end -> mid - Span
                                [] mid < Loop -> mid + Span
                                [] OTHER -> mid
    BY <1>1, <1>2, <1>3 DEF MidFrame
  <1> QED BY <1>1, <1>3, <1>4

\* A play that starts half a step back ends half a step on.
LEMMA PlayedFromBehind ==
  ASSUME NEW frame \in Int, NEW rate \in Int, NEW h \in Int, rate = 2 * h
  PROVE  Updated(frame - h, rate) = Updated(frame, h)
  <1>1. frame - h + rate = frame + h
    OBVIOUS
  <1> QED BY <1>1 DEF Updated

\* The actor's draw in an in-between phase blends, sets back and plays, and holds the
\* title's own frame before it does.
LEMMA TickActorDrawKeeps ==
  ASSUME ScheduleInv, AnimInv, NEW plays \in BOOLEAN,
         NEW outcome \in {"blended", "refused", "unreadable"}, TickActorDraw(plays, outcome)
  PROVE  AnimInv'
  <1> SUFFICES ASSUME ~animMissed, plays => entered # NoAnim /\ outcome = "blended" PROVE AnimInv'
    BY DEF AnimInv, TickActorDraw
  <1>1. /\ phase = "drawing" /\ inTick /\ ~animDrawn /\ animDrawn' /\ UNCHANGED schedule
        /\ InTickDraw /\ InTickDraw' /\ Unentered /\ ~Unentered'
        /\ UNCHANGED <<animOwn, animWas, animMoved>>
    BY DEF TickActorDraw, InTickDraw, InDraw, schedule, Unentered
  <1>2. AnimTypes /\ AnimRemembers /\ anim.frame = animOwn /\ animBack = <<>>
    BY <1>1 DEF AnimInv
  <1>3. PICK rate \in Int, h \in Int : rate = anim.rate /\ rate = 2 * h /\ rate \div 2 = h
    BY <1>2, RatesAre DEF AnimTypes, Material
  <1>4. PICK mine \in Int : mine = animOwn /\ InRange(mine)
    BY <1>2 DEF AnimTypes, InRange, Span
  <1>5. PICK mid : mid = BlendedAnim(outcome)
    OBVIOUS
  <1>6. PICK set : set = SetBack(mid, plays, outcome)
    OBVIOUS
  <1>7. PICK final : final = IF plays THEN Updated(set, anim.rate) ELSE set
    OBVIOUS
  <1>8. /\ anim' = [anim EXCEPT !.frame = final]
        /\ animBack' = (IF mid # mine THEN <<[frame |-> mine]>> ELSE <<>>)
                       \o (IF set # mid THEN <<[frame |-> mid]>> ELSE <<>>)
        /\ animShown' = {final}
        /\ animSeen' \in {animSeen, [tick |-> tick, frame |-> mine]}
        /\ owned' \in {[tick |-> tick, j3d |-> anim.j3d], [tick |-> tick, j3d |-> -1], NotOwned}
    BY <1>2, <1>4, <1>5, <1>6, <1>7 DEF TickActorDraw
  <1>9. mid \in Int
    BY <1>2, <1>5, MidFrameIsWhole DEF BlendedAnim, AnimTypes, Material
  <1>10. set = IF plays THEN mid - h ELSE mid
    BY <1>3, <1>6 DEF SetBack
  <1>11. final = IF plays THEN Updated(mid, h) ELSE mid
    <2>1. Updated(mid - h, rate) = Updated(mid, h)
      BY <1>3, <1>9, PlayedFromBehind
    <2> QED BY <1>3, <1>7, <1>10, <2>1
  <1>12. final \in Int
    BY <1>2, <1>3, <1>9, <1>11, UpdatedIsWhole DEF AnimTypes, Material
  <1>13. /\ anim'.frame = final /\ anim'.rate = anim.rate /\ anim'.loops = anim.loops /\ anim'.end = anim.end
         /\ anim'.in = anim.in /\ anim'.j3d = anim.j3d
         /\ anim' \in Material(Rates \cup {-r : r \in Rates})
    <2>1. PICK r : r = Rates \cup {-rr : rr \in Rates}
      OBVIOUS
    <2>2. anim \in Material(r)
      BY <1>2, <2>1 DEF AnimTypes
    <2>3. LET n == [anim EXCEPT !.frame = final] IN
            /\ n \in Material(r) /\ n.frame = final /\ n.j3d = anim.j3d
            /\ n.rate = anim.rate /\ n.loops = anim.loops /\ n.end = anim.end /\ n.in = anim.in
      BY <1>12, <2>2 DEF Material
    <2> QED BY <1>8, <2>1, <2>3
  <1>14. AnimTypes'
    <2>1. tick \in Nat /\ anim.j3d \in {0, 1}
      BY <1>2 DEF ScheduleInv, ScheduleTypes, AnimTypes, Material
    <2>2. animSeen' \in [tick : Nat \cup {Never}, frame : Int]
      BY <1>2, <1>8, <2>1 DEF AnimTypes
    <2>3. owned' \in [tick : Nat \cup {Never}, j3d : {-1, 0, 1}]
      BY <1>8, <2>1 DEF NotOwned
    <2> QED BY <1>1, <1>2, <1>13, <2>2, <2>3 DEF AnimTypes, InRange, Span
  <1>15. \A f, by : Updated(f, by)' = Updated(f, by)
    BY <1>13 DEF Updated, Span
  <1>16. AnimRemembers'
    <2>1. tick' = tick /\ switches' = switches /\ gate' = gate /\ inTick' = inTick /\ tick \in Nat
      BY <1>1 DEF schedule, ScheduleInv, ScheduleTypes
    <2>2. animSeen'.tick <= tick /\ owned'.tick <= tick
      BY <1>2, <1>8, <2>1 DEF AnimRemembers, NotOwned, Never
    <2>3. animSeen'.tick = tick => animSeen'.frame = mine
      BY <1>1, <1>2, <1>8, <2>1 DEF AnimRemembers, AnimTypes
    <2>4. switches = 0 /\ gate.in /\ animSeen'.tick + 1 = tick => animSeen'.frame = animWas
      BY <1>1, <1>2, <1>8, <2>1 DEF AnimRemembers
    <2>5. owned' # NotOwned => owned'.j3d \in {anim.j3d, -1}
      BY <1>8
    <2> QED BY <1>1, <1>4, <1>13, <2>1, <2>2, <2>3, <2>4, <2>5 DEF AnimRemembers
  <1>17. AnimIsBetween'
    <2> SUFFICES ASSUME switches = 0
                 PROVE  LET from == {animOwn} \cup (IF animMoved THEN HalfTheStep ELSE {})
                        IN final \in from \cup {Updated(f, h) : f \in from}
      BY <1>1, <1>3, <1>8, <1>13, <1>15 DEF AnimIsBetween, HalfTheStep, Span, schedule
    <2>1. gate.in /\ AnimMoves
      BY <1>1 DEF ScheduleInv, InTurn, AnimInv
    <2>2. \/ mid = mine
          \/ animMoved /\ mid \in HalfTheStep
      <3>1. CASE mid = anim.frame
        BY <1>2, <1>4, <3>1
      <3>2. CASE /\ owned # NotOwned /\ owned.j3d = anim.j3d /\ animSeen.tick + 1 = tick
                 /\ IsAStep(animSeen.frame) /\ mid = MidFrame(animSeen.frame)
        <4>1. animMoved /\ animSeen.frame = animWas
          BY <1>1, <1>2, <2>1, <3>2 DEF AnimRemembers
        <4>2. animOwn \in {animWas, Updated(animWas, anim.rate)}
          BY <2>1, <4>1 DEF AnimMoves
        <4> QED BY <1>2, <1>3, <1>4, <3>2, <4>1, <4>2, HalfAStep
      <3> QED BY <1>5, <3>1, <3>2 DEF BlendedAnim, Considers, Continues
    <2> QED BY <1>4, <1>11, <2>2
  <1>18. AnimIsHeld'
    <2>1. CASE mid = mine /\ set = mid
      <3>1. final = mine
        <4>1. plays => h = 0
          BY <1>3, <1>9, <1>10, <2>1
        <4>2. Updated(mine, 0) = mine
          BY <1>2, <1>4, NoStep
        <4> QED BY <1>11, <2>1, <4>1, <4>2
      <3> QED BY <1>1, <1>4, <1>8, <1>13, <2>1, <3>1 DEF AnimIsHeld
    <2>2. CASE mid = mine /\ set # mid
      BY <1>1, <1>4, <1>8, <2>2 DEF AnimIsHeld
    <2>3. CASE mid # mine /\ set = mid
      BY <1>1, <1>4, <1>8, <2>3 DEF AnimIsHeld
    <2>4. CASE mid # mine /\ set # mid
      <3>2. animBack' = <<[frame |-> mine], [frame |-> mid]>>
        <4>1. animBack' = <<[frame |-> mine]>> \o <<[frame |-> mid]>>
          BY <1>8, <2>4
        <4>2. [frame |-> mine] \in [frame : Int] /\ [frame |-> mid] \in [frame : Int]
          BY <1>9
        <4> QED BY <4>1, <4>2, InOrder
      <3> QED BY <1>1, <1>4, <1>9, <3>2 DEF AnimIsHeld
    <2> QED BY <2>1, <2>2, <2>3, <2>4
  <1>19. switches' = 0 /\ gate'.in => AnimMoves'
    <2>1. switches' = 0 /\ gate'.in => AnimMoves
      BY <1>1 DEF AnimInv, schedule
    <2>2. ~Unstepped'
      BY <1>1, <1>2, <1>13 DEF Unstepped, schedule, ScheduleInv, AnimTypes, Material
    <2> QED BY <1>1, <1>13, <1>15, <2>1, <2>2 DEF AnimMoves
  <1> QED BY <1>1, <1>14, <1>16, <1>17, <1>18, <1>19 DEF AnimInv

\* A draw outside the in-between phase takes the draw's own step.
LEMMA PlainActorDrawKeeps ==
  ASSUME ScheduleInv, AnimInv, NEW plays \in BOOLEAN, PlainActorDraw(plays)
  PROVE  AnimInv'
  <1> SUFFICES ASSUME ~animMissed PROVE AnimInv'
    BY DEF AnimInv, PlainActorDraw
  <1>1. /\ phase = "drawing" /\ ~inTick /\ ~animDrawn /\ animDrawn' /\ UNCHANGED schedule
        /\ ~InTickDraw /\ ~InTickDraw' /\ (plays => anim.in = "draw")
        /\ UNCHANGED <<animSeen, owned, entered, played, animBack, animWas, animMoved, animMissed>>
    BY DEF PlainActorDraw, InTickDraw, InDraw, schedule
  <1>2. AnimTypes /\ AnimRemembers /\ anim.frame = animOwn /\ animBack = <<>>
    BY <1>1 DEF AnimInv
  <1>3. PICK now : now = IF plays THEN Updated(animOwn, anim.rate) ELSE animOwn
    OBVIOUS
  <1>4. anim' = [anim EXCEPT !.frame = now] /\ animOwn' = now
    BY <1>2, <1>3 DEF PlainActorDraw
  <1>5. InRange(now)
    BY <1>2, <1>3, RatesAre, StaysInRange DEF AnimTypes, Material
  <1>6. /\ anim'.frame = now /\ anim'.rate = anim.rate /\ anim'.loops = anim.loops /\ anim'.end = anim.end
        /\ anim'.in = anim.in /\ anim'.j3d = anim.j3d
        /\ anim' \in Material(Rates \cup {-r : r \in Rates})
    <2>1. PICK r : r = Rates \cup {-rr : rr \in Rates}
      OBVIOUS
    <2>2. anim \in Material(r) /\ now \in Int
      BY <1>2, <1>5, <2>1 DEF AnimTypes, InRange, Span
    <2>3. LET n == [anim EXCEPT !.frame = now] IN
            /\ n \in Material(r) /\ n.frame = now /\ n.j3d = anim.j3d
            /\ n.rate = anim.rate /\ n.loops = anim.loops /\ n.end = anim.end /\ n.in = anim.in
      BY <2>2 DEF Material
    <2> QED BY <1>4, <2>1, <2>3
  <1>7. AnimTypes'
    BY <1>1, <1>2, <1>4, <1>5, <1>6 DEF AnimTypes, InRange, Span
  <1>8. AnimRemembers'
    BY <1>1, <1>2, <1>6 DEF AnimRemembers, Unentered, schedule
  <1>9. switches' = 0 /\ gate'.in => AnimMoves'
    <2> SUFFICES ASSUME switches = 0, gate.in, animMoved
                 PROVE  /\ now \in {animWas, Updated(animWas, anim.rate)'}
                        /\ Unstepped' => now = animWas
      BY <1>1, <1>4, <1>6 DEF AnimMoves, schedule
    <2>1. call = "skip" /\ AnimMoves /\ call' = call /\ phase' = phase /\ inTick' = inTick
      BY <1>1 DEF ScheduleInv, ScheduleTypes, InTurn, AnimInv, schedule
    <2>2. \A f, by : Updated(f, by)' = Updated(f, by)
      BY <1>6 DEF Updated, Span
    <2>3. CASE plays
      <3>1. Unstepped /\ ~Unstepped'
        BY <1>1, <1>6, <2>1, <2>3 DEF Unstepped
      <3> QED BY <1>1, <1>6, <1>3, <2>1, <2>2, <2>3, <3>1 DEF AnimMoves
    <2>4. CASE ~plays
      <3>1. Unstepped' => Unstepped
        BY <1>1, <1>6, <2>1 DEF Unstepped
      <3> QED BY <1>1, <1>6, <1>3, <2>1, <2>2, <2>4, <3>1 DEF AnimMoves
    <2> QED BY <2>3, <2>4
  <1> QED BY <1>1, <1>2, <1>4, <1>6, <1>7, <1>8, <1>9 DEF AnimInv, AnimIsBetween

\* The draw phase's end puts the title's own frame back, whatever was written over it.
LEMMA OwnFramePutBack ==
  ASSUME AnimTypes, AnimIsHeld
  PROVE  /\ PutBackReversed \in Material(Rates \cup {-r : r \in Rates})
         /\ PutBackReversed = [anim EXCEPT !.frame = animOwn]
  <1>1. PICK r : r = Rates \cup {-rr : rr \in Rates}
    OBVIOUS
  <1>2. PICK m, mine : m = anim /\ mine = animOwn /\ m \in Material(r) /\ mine \in Int
    BY <1>1 DEF AnimTypes, InRange, Span
  <1>3. PICK n : n = [m EXCEPT !.frame = mine]
    OBVIOUS
  <1>4. n \in Material(r)
    BY <1>2, <1>3 DEF Material
  <1>5. CASE animBack = <<>> /\ m.frame = mine
    <2>1. PutBack(<<>>, m) = m /\ n = m
      BY <1>2, <1>3, <1>5 DEF PutBack, Material
    <2> QED BY <1>1, <1>2, <1>3, <1>4, <1>5, <2>1, ReverseNone DEF PutBackReversed
  <1>6. CASE animBack = <<[frame |-> mine]>>
    <2>1. PICK c \in [frame : Int] : c = [frame |-> mine]
      BY <1>2
    <2>2. PutBack(<<c>>, m) = [f \in DOMAIN m |-> IF f \in DOMAIN c THEN c[f] ELSE m[f]]
      BY PutBackOne
    <2>3. [f \in DOMAIN m |-> IF f \in DOMAIN c THEN c[f] ELSE m[f]] = n
      BY <1>2, <1>3, <2>1 DEF Material
    <2>4. Reverse(<<c>>) = <<c>>
      BY ReverseOne
    <2> QED BY <1>1, <1>2, <1>3, <1>4, <1>6, <2>1, <2>2, <2>3, <2>4 DEF PutBackReversed
  <1>7. CASE \E other \in Int : animBack = <<[frame |-> mine], [frame |-> other]>>
    <2>1. PICK other \in Int : animBack = <<[frame |-> mine], [frame |-> other]>>
      BY <1>7
    <2>2. PICK c \in [frame : Int], d \in [frame : Int] : c = [frame |-> mine] /\ d = [frame |-> other]
      BY <1>2
    <2>3. PutBack(<<d, c>>, m) = [f \in DOMAIN m |-> IF f \in DOMAIN c THEN c[f]
                                                     ELSE IF f \in DOMAIN d THEN d[f] ELSE m[f]]
      BY PutBackTwo
    <2>4. [f \in DOMAIN m |-> IF f \in DOMAIN c THEN c[f]
                              ELSE IF f \in DOMAIN d THEN d[f] ELSE m[f]] = n
      BY <1>2, <1>3, <2>2 DEF Material
    <2>5. Reverse(<<c, d>>) = <<d, c>>
      BY ReverseTwo
    <2> QED BY <1>1, <1>2, <1>3, <1>4, <2>1, <2>2, <2>3, <2>4, <2>5 DEF PutBackReversed
  <1> QED BY <1>2, <1>5, <1>6, <1>7 DEF AnimIsHeld

\* The draw phase closes: the frame is put back, and what it did not see is forgotten.
LEMMA AnimDrawEndsKeeps == ASSUME ScheduleInv, AnimInv, AnimDrawEnds PROVE AnimInv'
  <1> SUFFICES ASSUME ~animMissed PROVE AnimInv'
    BY DEF AnimInv, AnimDrawEnds
  <1>1. /\ phase = "drawing" /\ phase' = "painting" /\ ~InTickDraw' /\ ~inTick' /\ ~Unentered'
        /\ UNCHANGED <<gate, call, tick, switches, animOwn, animMissed>> /\ (InTickDraw <=> inTick)
    BY DEF AnimDrawEnds, EndDraw, InTickDraw, InDraw, Unentered
  <1>2. AnimTypes /\ AnimRemembers
    BY DEF AnimInv
  <1>3. CASE ~inTick
    <2>1. /\ UNCHANGED <<anim, animBack, owned, animSeen, entered, played, animWas>>
          /\ animMoved' = animMoved /\ anim.frame = animOwn /\ animBack = <<>> /\ animDrawn' = animDrawn
      BY <1>1, <1>2, <1>3 DEF AnimDrawEnds, AnimTypes, AnimInv
    <2>2. AnimTypes'
      BY <1>1, <1>2, <2>1 DEF AnimTypes, InRange, Span
    <2>3. AnimRemembers'
      BY <1>1, <1>2, <1>3, <2>1 DEF AnimRemembers, Unentered
    <2>4. switches' = 0 /\ gate'.in => AnimMoves'
      <3>1. \A f, by : Updated(f, by)' = Updated(f, by)
        BY <2>1 DEF Updated, Span
      <3>2. switches = 0 /\ gate.in => AnimMoves /\ (Unstepped' => Unstepped)
        BY <1>1, <1>3, <2>1 DEF Unstepped, ScheduleInv, ScheduleTypes, InTurn, AnimInv
      <3> QED BY <1>1, <2>1, <3>1, <3>2 DEF AnimMoves
    <2> QED BY <1>1, <2>1, <2>2, <2>3, <2>4 DEF AnimInv, AnimIsBetween
  <1>4. CASE inTick
    <2>1. AnimIsHeld
      BY <1>1, <1>4 DEF AnimInv, AnimIsHeld
    <2>2. PICK r, m, mine : r = Rates \cup {-rr : rr \in Rates} /\ m = anim /\ mine = animOwn
      OBVIOUS
    <2>3. m \in Material(r) /\ mine \in Int
      BY <1>2, <2>2 DEF AnimTypes, InRange, Span
    <2>4. anim' = [m EXCEPT !.frame = mine]
      BY <1>2, <1>4, <2>1, <2>2, OwnFramePutBack DEF AnimDrawEnds
    <2>5. LET n == [m EXCEPT !.frame = mine] IN
            /\ n \in Material(r) /\ n.frame = mine /\ n.j3d = m.j3d
            /\ n.rate = m.rate /\ n.loops = m.loops /\ n.end = m.end /\ n.in = m.in
      BY <2>3 DEF Material
    <2>6. /\ anim' \in Material(r) /\ anim'.frame = animOwn /\ anim'.j3d = anim.j3d
          /\ anim'.rate = anim.rate /\ anim'.loops = anim.loops /\ anim'.end = anim.end /\ anim'.in = anim.in
      BY <2>2, <2>4, <2>5
    <2>7. /\ animBack' = <<>> /\ animWas' = animOwn /\ animMoved' = TRUE /\ animDrawn' = animDrawn
          /\ animSeen' = IF animSeen.tick < tick THEN NoAnim ELSE animSeen
          /\ owned' = IF owned.tick < tick THEN NotOwned ELSE owned
      BY <1>4 DEF AnimDrawEnds, KeptSince
    <2>8. AnimTypes'
      <3>1. animSeen' \in [tick : Nat \cup {Never}, frame : Int]
        BY <1>2, <2>7 DEF AnimTypes, NoAnim
      <3>2. owned' \in [tick : Nat \cup {Never}, j3d : {-1, 0, 1}]
        BY <1>2, <2>7 DEF AnimTypes, NotOwned
      <3> QED BY <1>1, <1>2, <2>2, <2>6, <2>7, <3>1, <3>2 DEF AnimTypes, InRange, Span
    <2>9. AnimRemembers'
      <3>1. tick \in Nat
        BY DEF ScheduleInv, ScheduleTypes
      <3>2. animSeen'.tick <= tick /\ owned'.tick <= tick
        BY <1>2, <2>7, <3>1 DEF AnimRemembers, NoAnim, NotOwned, Never
      <3>3. switches = 0 /\ gate.in /\ animSeen'.tick = tick => animSeen'.frame = animOwn
        BY <1>1, <1>2, <1>4, <2>7, <3>1 DEF AnimRemembers, NoAnim, Never
      <3>4. owned' # NotOwned => owned' = owned /\ ~(owned.tick < tick)
        BY <2>7
      <3>5. switches = 0 /\ gate.in /\ owned' # NotOwned => owned'.j3d \in {anim.j3d, -1}
        BY <1>2, <3>4 DEF AnimRemembers
      <3> QED BY <1>1, <2>6, <2>7, <3>2, <3>3, <3>5 DEF AnimRemembers
    <2>10. AnimMoves'
      BY <1>1, <2>7 DEF AnimMoves
    <2> QED BY <1>1, <2>6, <2>7, <2>8, <2>9, <2>10 DEF AnimInv, AnimIsBetween
  <1> QED BY <1>3, <1>4 DEF ScheduleInv, ScheduleTypes

\* Every step of the animation's is one of these.
LEMMA AnimKeeps == ASSUME ScheduleInv, AnimInv, AnimNext PROVE AnimInv' /\ Scheduled
  <1>1. AnimInv'
    BY AnimStays, AnimExecuteKeeps, AnimDrawBeginsKeeps, TickActorDrawKeeps, PlainActorDrawKeeps,
       AnimDrawEndsKeeps DEF AnimNext
  <1>2. Scheduled
    BY DEF AnimNext, Scheduled, AnimExecute, AnimDrawBegins, TickActorDraw, PlainActorDraw, AnimDrawEnds
  <1> QED BY <1>1, <1>2

-----------------------------------------------------------------------------
(* The weather's packets and the particles' pools.                          *)

SlotMemory == [on : BOOLEAN, at : Nat, base : {0, 1}, age : Nat]
MidTypes ==
  /\ kind \in {"wave", "cloud", "snow", "particle"}
  /\ slot \in [Slots -> SlotMemory]
  /\ seen \in [Slots -> [tick : Nat \cup {Never}, was : SlotMemory]]
  /\ own \in [Slots -> [was : SlotMemory, now : SlotMemory, same : BOOLEAN]]
  /\ DOMAIN back \subseteq Slots /\ \A s \in DOMAIN back : back[s] \in SlotMemory

\* Nothing is to be put back but in the in-between paint, and of the particles only what
\* it has blended; a tick's draw has yet to calculate them.
PaintOrder ==
  /\ ~inMidPaint => DOMAIN back = {}
  /\ kind = "particle" => DOMAIN back \subseteq blended
  /\ phase = "draw" /\ call = "tick" => ~calculated
  /\ phase = "drawing" => \A s \in Slots : shown[s] = {}

\* The tick has yet to move what is in the slots.
Pending ==
  IF kind = "particle"
    THEN call = "tick" /\ (phase \in {"logic", "draw"} \/ (phase = "drawing" /\ ~calculated))
    ELSE phase = "logic"

SlotRemembers(s) ==
  /\ seen[s].tick <= tick
  /\ Pending /\ inTick => seen[s].tick < tick
  /\ switches = 0 /\ gate.in =>
       /\ seen[s].tick = tick => seen[s].was = own[s].now
       /\ seen[s].tick + 1 = tick => seen[s].was = IF Pending THEN own[s].now ELSE own[s].was

\* What is in the slot once all is put back is the title's own, and what became of it at
\* the last tick has left its trace.
MovedOn(s) ==
  /\ own[s].now \in Moved(own[s].was) \cup Renewed(own[s].was) \cup Gone(own[s].was)
  /\ own[s].same <=> own[s].now \in Moved(own[s].was)
SlotIsOwn(s) ==
  /\ IF s \in DOMAIN back THEN back[s] = own[s].now ELSE slot[s] = own[s].now
  /\ MovedOn(s)
Untouched == kind = "particle" \/ switches = 0

\* In the in-between paint a slot holds the title's own or, of one thing, the midpoint.
SlotIsBetween(s) ==
  \/ slot[s] = own[s].now
  \/ /\ inMidPaint /\ slot[s].on = own[s].now.on
     /\ slot[s].at = Mid(own[s].was.at, own[s].now.at) /\ (slot[s].on => own[s].same)

MidInv ==
  /\ MidTypes /\ PaintOrder /\ NeverAcrossABreak
  /\ \A s \in Slots :
       /\ SlotRemembers(s)
       /\ Untouched => SlotIsOwn(s)
       /\ switches = 0 => SlotIsBetween(s)

\* What has a slot's fields, each as it may be, is one.
LEMMA SlotIsWhole ==
  ASSUME NEW r, r = [on |-> r.on, at |-> r.at, base |-> r.base, age |-> r.age],
         r.on \in BOOLEAN, r.at \in Nat, r.base \in {0, 1}, r.age \in Nat
  PROVE  r \in SlotMemory
  BY DEF SlotMemory

\* The title starts with nothing in its packets and pools.
LEMMA MidBegins == ASSUME ScheduleInit, MidInit PROVE MidInv
  <1> USE DEF ScheduleInit, MidInit
  <1>1. Somewhere \in Nat /\ NotSeen \in [tick : Nat \cup {Never}, was : SlotMemory]
    BY PlacesAreNatural DEF NotSeen, SlotMemory
  <1>2. slot \in [Slots -> SlotMemory]
    <2>1. ASSUME NEW r \in [on : {FALSE}, at : {Somewhere}, base : {0}, age : {0}]
          PROVE  r \in SlotMemory
      <3> HIDE DEF ScheduleInit, MidInit
      <3>1. r.on = FALSE /\ r.at = Somewhere /\ r.base = 0 /\ r.age = 0
        OBVIOUS
      <3>2. r = [on |-> FALSE, at |-> Somewhere, base |-> 0, age |-> 0]
        BY <3>1
      <3>3. [on |-> FALSE, at |-> Somewhere, base |-> 0, age |-> 0] \in SlotMemory
        BY <1>1 DEF SlotMemory
      <3> QED BY <3>2, <3>3
    <2>2. slot \in [Slots -> [on : {FALSE}, at : {Somewhere}, base : {0}, age : {0}]]
      OBVIOUS
    <2> QED BY <2>1, <2>2
  <1>3. own \in [Slots -> [was : SlotMemory, now : SlotMemory, same : BOOLEAN]]
    BY <1>2
  <1>4. DOMAIN back = {}
    OBVIOUS
  <1>5. MidTypes
    BY <1>1, <1>2, <1>3, <1>4, KindsAreKnown DEF MidTypes
  <1>6. PaintOrder /\ NeverAcrossABreak
    BY <1>4 DEF PaintOrder, NeverAcrossABreak
  <1>7. ASSUME NEW s \in Slots PROVE SlotRemembers(s) /\ SlotIsOwn(s) /\ SlotIsBetween(s)
    <2>1. own[s].now = slot[s] /\ own[s].was = slot[s] /\ own[s].same = FALSE
      OBVIOUS
    <2>2. SlotRemembers(s)
      BY DEF SlotRemembers, Pending, NotSeen, Never
    <2>3. slot[s] \in SlotMemory /\ slot[s].on = FALSE
      BY <1>2
    <2>4. slot[s] = [slot[s] EXCEPT !.on = FALSE]
      BY <2>3 DEF SlotMemory
    <2>5. slot[s] \notin Moved(slot[s])
      BY <2>3 DEF Moved
    <2>6. slot[s] \in Gone(slot[s])
      BY <2>4 DEF Gone
    <2> QED BY <1>4, <2>1, <2>2, <2>5, <2>6 DEF SlotIsOwn, MovedOn, SlotIsBetween
  <1> QED BY <1>5, <1>6, <1>7 DEF MidInv

\* What the blends take for one thing is one, or is not drawn.
LEMMA JoinsOneThing ==
  ASSUME MidTypes, NEW s \in Slots, MovedOn(s), SameThing(own[s].was, own[s].now)
  PROVE  own[s].now.on => own[s].same
  <1> SUFFICES ASSUME own[s].now.on PROVE own[s].now \in Moved(own[s].was)
    BY DEF MovedOn
  <1>1. PICK from \in SlotMemory, to \in SlotMemory : from = own[s].was /\ to = own[s].now
    BY DEF MidTypes
  <1>2. to.on /\ from.age \in Nat /\ to.age \in Nat /\ SameThing(from, to)
    BY <1>1 DEF SlotMemory
  <1>3. CASE to \in Gone(from)
    <2>1. to.on = FALSE
      BY <1>3 DEF Gone, SlotMemory
    <2> QED BY <1>2, <2>1
  <1>4. CASE to \in Renewed(from)
    <2>1. to.age = 0 /\ (from.on => CASE kind = "wave" -> to.base # from.base \/ Apart(from, to)
                                      [] kind = "cloud" -> to.base = from.base /\ Apart(from, to)
                                      [] kind = "snow" -> to.base # from.base \/ from.age > 0
                                      [] OTHER -> to.base = from.base)
      BY <1>4 DEF Renewed
    <2>2. CASE kind = "wave"
      BY <1>2, <2>1, <2>2 DEF SameThing
    <2>3. CASE kind = "cloud"
      BY <1>2, <2>1, <2>3 DEF SameThing
    <2>4. CASE kind = "snow"
      BY <1>2, <2>1, <2>4 DEF SameThing
    <2>5. CASE kind = "particle"
      BY <1>2, <2>1, <2>5 DEF SameThing
    <2> QED BY <2>2, <2>3, <2>4, <2>5 DEF MidTypes
  <1> QED BY <1>1, <1>3, <1>4 DEF MovedOn

\* The schedule goes on and what a slot remembers of the ticks stays true.
LEMMA SlotStillRemembers ==
  ASSUME ScheduleInv, MidTypes, NEW s \in Slots, SlotRemembers(s), Unheard \/ UNCHANGED schedule,
         UNCHANGED <<kind, seen, own, calculated>>
  PROVE  SlotRemembers(s)'
  <1> USE DEF ScheduleInv, ScheduleTypes, InTurn, SlotRemembers, Pending
  <1>0. seen[s].tick \in Int
    BY DEF MidTypes, Never
  <1>1. CASE TickCall
    <2>1. tick' \in {tick, tick + 1} /\ (inTick' => tick' = tick + 1) /\ phase' = "logic" /\ call' = "tick"
      BY <1>1 DEF TickCall
    <2>2. switches' = 0 /\ gate'.in => switches = 0 /\ gate.in /\ inTick' /\ phase = "call"
      BY <1>1 DEF TickCall
    <2> QED BY <1>0, <2>1, <2>2
  <1>2. CASE SkipCall
    BY <1>2 DEF SkipCall
  <1>3. CASE EndPaint
    BY <1>3 DEF EndPaint
  <1>4. CASE SwitchInterpolation
    BY <1>4 DEF SwitchInterpolation
  <1>5. CASE SwitchLogic
    BY <1>5 DEF SwitchLogic
  <1>6. CASE UNCHANGED schedule
    BY <1>6 DEF schedule
  <1> QED BY <1>1, <1>2, <1>3, <1>4, <1>5, <1>6 DEF Unheard

\* The schedule goes on, and the slots are left alone.
LEMMA MidStays ==
  ASSUME ScheduleInv, MidInv, Unheard \/ UNCHANGED schedule, UNCHANGED midPaint
  PROVE  MidInv'
  <1> USE DEF midPaint
  <1>1. /\ inMidPaint' = inMidPaint /\ (switches' = 0 => switches = 0)
        /\ phase' = "drawing" => phase = "drawing"
        /\ phase' = "painting" => phase = "painting"
        /\ phase' = "draw" /\ call' = "tick" => phase = "draw" /\ call = "tick"
    BY DEF Unheard, TickCall, SkipCall, EndPaint, SwitchInterpolation, SwitchLogic, schedule,
           ScheduleInv, ScheduleTypes
  <1>2. MidTypes'
    BY DEF MidInv, MidTypes
  <1>3. PaintOrder'
    BY <1>1 DEF MidInv, PaintOrder
  <1>4. NeverAcrossABreak'
    BY <1>1 DEF MidInv, NeverAcrossABreak
  <1>5. ASSUME NEW s \in Slots
        PROVE  /\ SlotRemembers(s)'
               /\ Untouched' => SlotIsOwn(s)'
               /\ switches' = 0 => SlotIsBetween(s)'
    <2>1. SlotRemembers(s)'
      BY SlotStillRemembers DEF MidInv
    <2>2. Untouched' => Untouched
      BY <1>1 DEF Untouched
    <2>3. SlotIsOwn(s) => SlotIsOwn(s)'
      BY DEF SlotIsOwn, MovedOn, Moved, Renewed, Gone, Apart
    <2>4. SlotIsBetween(s) => SlotIsBetween(s)'
      BY <1>1 DEF SlotIsBetween
    <2> QED BY <1>1, <2>1, <2>2, <2>3, <2>4 DEF MidInv
  <1> QED BY <1>2, <1>3, <1>4, <1>5 DEF MidInv

\* Nothing is blended where the title moves what is in the slots, and it leaves a trace.
LEMMA TitleMovesOn ==
  ASSUME MidTypes, TitleMoves, UNCHANGED <<kind, seen, back>>
  PROVE  /\ MidTypes'
         /\ \A s \in Slots : own'[s].was = own[s].now /\ slot'[s] = own'[s].now
         /\ (\A s \in Slots : slot[s] = own[s].now) => \A s \in Slots : MovedOn(s)'
  <1>1. PICK to \in [Slots -> Slot] :
          /\ \A s \in Slots : to[s] \in Moved(slot[s]) \cup Renewed(slot[s]) \cup Gone(slot[s])
          /\ slot' = to
          /\ own' = [s \in Slots |-> [was |-> own[s].now, now |-> to[s],
                                      same |-> to[s] \in Moved(own[s].now)]]
    BY DEF TitleMoves
  <1>2. Slot \subseteq SlotMemory
    <2>1. ASSUME NEW r \in [on : BOOLEAN, at : Places, base : {0, 1}, age : 0..MaxTicks]
          PROVE  r \in SlotMemory
      BY PlacesAreNatural, BoundsAreNatural, SlotIsWhole
    <2> QED BY <2>1 DEF Slot
  <1>3. to \in [Slots -> SlotMemory]
    BY <1>2
  <1>4. ASSUME NEW s \in Slots
        PROVE  /\ own'[s] = [was |-> own[s].now, now |-> to[s], same |-> to[s] \in Moved(own[s].now)]
               /\ own'[s].was = own[s].now /\ own'[s].now = to[s]
               /\ own'[s].same = (to[s] \in Moved(own[s].now))
    BY <1>1
  <1>5. own' \in [Slots -> [was : SlotMemory, now : SlotMemory, same : BOOLEAN]]
    <2>1. ASSUME NEW s \in Slots
          PROVE  [was |-> own[s].now, now |-> to[s], same |-> to[s] \in Moved(own[s].now)]
                   \in [was : SlotMemory, now : SlotMemory, same : BOOLEAN]
      BY <1>3 DEF MidTypes
    <2> QED BY <1>1, <2>1
  <1>6. MidTypes'
    BY <1>1, <1>3, <1>5 DEF MidTypes
  <1>7. ASSUME \A s \in Slots : slot[s] = own[s].now, NEW s \in Slots PROVE MovedOn(s)'
    <2>1. \A m : Moved(m)' = Moved(m) /\ Renewed(m)' = Renewed(m) /\ Gone(m)' = Gone(m)
      BY DEF Moved, Renewed, Gone
    <2>2. to[s] \in Moved(own[s].now) \cup Renewed(own[s].now) \cup Gone(own[s].now)
      BY <1>1, <1>7
    <2> QED BY <1>4, <2>1, <2>2 DEF MovedOn
  <1> QED BY <1>1, <1>4, <1>6, <1>7

\* In execute the title moves what its weather packets hold.
LEMMA WeatherExecuteKeeps == ASSUME ScheduleInv, MidInv, WeatherExecute PROVE MidInv'
  <1> USE DEF MidInv
  <1>1. /\ phase = "logic" /\ phase' = "draw" /\ call = "tick" /\ calculated' = FALSE
        /\ UNCHANGED <<gate, call, inTick, inMidPaint, tick, switches>>
        /\ UNCHANGED <<kind, seen, blended, back, shown>> /\ tick \in Nat
    BY DEF WeatherExecute, Execute, ScheduleInv, ScheduleTypes
  <1>2. PaintOrder' /\ NeverAcrossABreak'
    BY <1>1 DEF PaintOrder, NeverAcrossABreak
  <1>3. Untouched' <=> Untouched
    BY <1>1 DEF Untouched
  <1>4. CASE kind = "particle"
    <2>1. slot' = slot /\ own' = own
      BY <1>4 DEF WeatherExecute
    <2>2. MidTypes'
      BY <1>1, <2>1 DEF MidTypes
    <2>3. ASSUME NEW s \in Slots
          PROVE  /\ SlotRemembers(s)'
                 /\ Untouched' => SlotIsOwn(s)'
                 /\ switches' = 0 => SlotIsBetween(s)'
      <3>1. SlotRemembers(s)'
        BY <1>1, <1>4, <2>1 DEF SlotRemembers, Pending
      <3>2. SlotIsOwn(s) => SlotIsOwn(s)'
        BY <1>1, <2>1 DEF SlotIsOwn, MovedOn, Moved, Renewed, Gone, Apart
      <3> QED BY <1>1, <1>3, <2>1, <3>1, <3>2 DEF SlotIsBetween
    <2> QED BY <1>2, <2>2, <2>3
  <1>5. CASE kind # "particle"
    <2>1. TitleMoves
      BY <1>5 DEF WeatherExecute
    <2>2. MidTypes' /\ \A s \in Slots : own'[s].was = own[s].now /\ slot'[s] = own'[s].now
      BY <1>1, <2>1, TitleMovesOn
    <2>3. ASSUME switches = 0
          PROVE  DOMAIN back = {} /\ DOMAIN back' = {} /\ \A s \in Slots : MovedOn(s)'
      <3>1. DOMAIN back = {}
        BY <1>1, <2>3 DEF ScheduleInv, InTurn, PaintOrder
      <3>2. \A s \in Slots : slot[s] = own[s].now
        BY <2>3, <3>1 DEF SlotIsOwn, Untouched
      <3> QED BY <1>1, <2>1, <3>1, <3>2, TitleMovesOn
    <2>4. ASSUME NEW s \in Slots
          PROVE  /\ SlotRemembers(s)'
                 /\ Untouched' => SlotIsOwn(s)'
                 /\ switches' = 0 => SlotIsBetween(s)'
      <3>1. seen[s].tick \in Int /\ (switches = 0 /\ gate.in => inTick)
        BY <1>1 DEF MidTypes, Never, ScheduleInv, InTurn
      <3>2. SlotRemembers(s)'
        BY <1>1, <1>5, <2>2, <3>1 DEF SlotRemembers, Pending
      <3> QED BY <1>1, <1>5, <2>2, <2>3, <3>2 DEF SlotIsOwn, SlotIsBetween, Untouched
    <2> QED BY <1>2, <2>2, <2>4
  <1> QED BY <1>4, <1>5

\* In a tick's draw the title calculates its particles.
LEMMA CalculateKeeps == ASSUME ScheduleInv, MidInv, Calculate PROVE MidInv'
  <1> USE DEF MidInv
  <1>1. /\ phase = "drawing" /\ call = "tick" /\ ~calculated /\ calculated' = TRUE /\ kind = "particle"
        /\ UNCHANGED schedule /\ UNCHANGED <<kind, seen, blended, back, shown>> /\ TitleMoves
        /\ tick \in Nat /\ DOMAIN back = {}
    BY DEF Calculate, ScheduleInv, ScheduleTypes, PaintOrder
  <1>2. PaintOrder' /\ NeverAcrossABreak'
    BY <1>1 DEF PaintOrder, NeverAcrossABreak, schedule
  <1>3. \A s \in Slots : slot[s] = own[s].now
    BY <1>1 DEF SlotIsOwn, Untouched
  <1>4. MidTypes' /\ \A s \in Slots : own'[s].was = own[s].now /\ slot'[s] = own'[s].now /\ MovedOn(s)'
    BY <1>1, <1>3, TitleMovesOn
  <1>5. ASSUME NEW s \in Slots PROVE SlotRemembers(s)' /\ SlotIsOwn(s)' /\ SlotIsBetween(s)'
    <2>1. seen[s].tick \in Int /\ (switches = 0 /\ gate.in => inTick)
      BY <1>1 DEF MidTypes, Never, ScheduleInv, InTurn
    <2>2. SlotRemembers(s)'
      BY <1>1, <1>4, <2>1 DEF SlotRemembers, Pending, schedule
    <2> QED BY <1>1, <1>4, <2>2 DEF SlotIsOwn, SlotIsBetween
  <1> QED BY <1>2, <1>4, <1>5

\* The in-between paint closes, and the title's own is put back.
LEMMA MidPaintEndsKeeps == ASSUME ScheduleInv, MidInv, MidPaintEnds PROVE MidInv'
  <1> USE DEF MidInv
  <1>1. /\ phase = "draw" /\ phase' = "drawing" /\ ~inMidPaint'
        /\ UNCHANGED <<gate, call, inTick, tick, switches>>
        /\ UNCHANGED <<kind, blended, calculated, own>> /\ tick \in Nat
        /\ shown' = [s \in Slots |-> {}]
    BY DEF MidPaintEnds, BeginDraw, ScheduleInv, ScheduleTypes
  <1>2. /\ DOMAIN back' = {} /\ slot' \in [Slots -> SlotMemory]
        /\ \A s \in Slots : slot'[s] = IF s \in DOMAIN back THEN back[s] ELSE slot[s]
    <2>1. CASE inMidPaint
      <3>1. slot' = [s \in Slots |-> IF s \in DOMAIN back THEN back[s] ELSE slot[s]] /\ back' = <<>>
        BY <2>1 DEF MidPaintEnds, PutBackAll
      <3> QED BY <3>1 DEF MidTypes
    <2>2. CASE ~inMidPaint
      BY <2>2 DEF MidPaintEnds, PaintOrder, MidTypes
    <2> QED BY <2>1, <2>2
  <1>3. /\ NotSeen \in [tick : Nat \cup {Never}, was : SlotMemory]
        /\ \A s \in Slots : seen'[s] \in {seen[s], NotSeen}
        /\ seen' \in [Slots -> [tick : Nat \cup {Never}, was : SlotMemory]]
    <2>1. NotSeen \in [tick : Nat \cup {Never}, was : SlotMemory]
      BY DEF NotSeen, SlotMemory
    <2>2. CASE inMidPaint
      <3>1. seen' = [s \in Slots |-> IF kind = "particle" /\ seen[s].tick + 1 < tick THEN NotSeen ELSE seen[s]]
        BY <2>2 DEF MidPaintEnds, Kept
      <3> QED BY <2>1, <3>1 DEF MidTypes
    <2>3. CASE ~inMidPaint
      BY <2>1, <2>3 DEF MidPaintEnds, MidTypes
    <2> QED BY <2>2, <2>3
  <1>4. MidTypes'
    BY <1>1, <1>2, <1>3 DEF MidTypes
  <1>5. PaintOrder' /\ NeverAcrossABreak'
    BY <1>1, <1>2 DEF PaintOrder, NeverAcrossABreak
  <1>6. ASSUME NEW s \in Slots
        PROVE  /\ SlotRemembers(s)'
               /\ Untouched' => SlotIsOwn(s)'
               /\ switches' = 0 => SlotIsBetween(s)'
    <2>1. Pending' <=> Pending
      BY <1>1 DEF Pending, PaintOrder
    <2>2. SlotRemembers(s)'
      BY <1>1, <1>3, <2>1 DEF SlotRemembers, NotSeen, Never
    <2>3. Untouched => SlotIsOwn(s)' /\ slot'[s] = own'[s].now
      BY <1>1, <1>2 DEF SlotIsOwn, MovedOn, Moved, Renewed, Gone, Apart
    <2> QED BY <1>1, <2>2, <2>3 DEF Untouched, SlotIsBetween
  <1> QED BY <1>4, <1>5, <1>6

\* A midpoint differs from what the slot holds in its place alone.
LEMMA HalfwayIs ==
  ASSUME MidTypes, NEW s \in Slots
  PROVE  /\ Halfway(s) \in SlotMemory /\ Halfway(s).on = slot[s].on
         /\ Halfway(s).at = Mid(seen[s].was.at, slot[s].at)
  <1>1. PICK from \in Nat : from = seen[s].was.at
    BY DEF MidTypes, SlotMemory
  <1>2. PICK m \in SlotMemory : m = slot[s]
    BY DEF MidTypes
  <1>3. PICK at \in Nat : at = Mid(from, m.at)
    BY <1>2, MidIsNatural DEF SlotMemory
  <1>4. [m EXCEPT !.at = at] \in SlotMemory /\ [m EXCEPT !.at = at].on = m.on /\ [m EXCEPT !.at = at].at = at
    BY DEF SlotMemory
  <1>5. Halfway(s) = [m EXCEPT !.at = at]
    <2>1. slot[s].at = m.at
      BY <1>2
    <2> QED BY <1>1, <1>2, <1>3, <2>1 DEF Halfway, SlotMemory
  <1> QED BY <1>1, <1>2, <1>3, <1>4, <1>5

\* What is blended from the last tick is halfway along one thing's move.
LEMMA JoinedIsBetween ==
  ASSUME ScheduleInv, MidTypes, NEW s \in Slots, SlotRemembers(s), SlotIsOwn(s),
         switches = 0, gate.in, ~Pending, s \notin DOMAIN back, Joins(s)
  PROVE  /\ Halfway(s).on = own[s].now.on
         /\ Halfway(s).at = Mid(own[s].was.at, own[s].now.at)
         /\ Halfway(s).on => own[s].same
  <1>1. slot[s] = own[s].now /\ MovedOn(s)
    BY DEF SlotIsOwn
  <1>2. seen[s].was = own[s].was /\ SameThing(own[s].was, own[s].now)
    BY <1>1 DEF Joins, Continues, SlotRemembers
  <1>3. own[s].now.on => own[s].same
    BY <1>1, <1>2, JoinsOneThing
  <1> QED BY <1>1, <1>2, <1>3, HalfwayIs

\* The in-between paint opens, and the weather's packets are blended.
LEMMA MidPaintBeginsKeeps ==
  ASSUME ScheduleInv, MidInv, NEW outcome, MidPaintBegins(outcome)
  PROVE  MidInv'
  <1> USE DEF MidInv
  <1>1. /\ phase = "drawing" /\ phase' = "painting" /\ ~inMidPaint /\ (inMidPaint' <=> inTick) /\ ~inTick'
        /\ UNCHANGED <<gate, call, tick, switches>> /\ UNCHANGED <<kind, calculated, own, shown>>
        /\ tick \in Nat /\ DOMAIN back = {} /\ ~Pending /\ ~Pending'
        /\ \A s \in Slots : shown[s] = {}
    BY DEF MidPaintBegins, EndDraw, ScheduleInv, ScheduleTypes, PaintOrder, Pending
  <1>2. /\ \A s \in Slots : Untouched => slot[s] = own[s].now
        /\ Untouched' <=> Untouched
    BY <1>1 DEF SlotIsOwn, Untouched
  <1>3. NeverAcrossABreak'
    BY <1>1 DEF NeverAcrossABreak
  <1>4. /\ seen' \in [Slots -> [tick : Nat \cup {Never}, was : SlotMemory]]
        /\ \A s \in Slots : SlotRemembers(s)'
    <2>1. CASE seen' = seen
      BY <1>1, <2>1 DEF MidTypes, SlotRemembers
    <2>2. CASE inTick /\ kind # "particle" /\ seen' = [s \in Slots |-> [tick |-> tick, was |-> slot[s]]]
      <3>1. \A s \in Slots : seen'[s].tick = tick /\ seen'[s].was = slot[s]
        BY <2>2
      <3>2. seen' \in [Slots -> [tick : Nat \cup {Never}, was : SlotMemory]]
        BY <1>1, <2>2 DEF MidTypes
      <3> QED BY <1>1, <1>2, <3>1, <3>2 DEF SlotRemembers, Untouched
    <2> QED BY <2>1, <2>2 DEF MidPaintBegins
  <1>5. CASE slot' = slot /\ back' = back
    <2>1. MidTypes'
      BY <1>1, <1>4, <1>5 DEF MidTypes
    <2>2. PaintOrder'
      BY <1>1, <1>5 DEF PaintOrder
    <2>3. ASSUME NEW s \in Slots
          PROVE  /\ Untouched' => SlotIsOwn(s)'
                 /\ switches' = 0 => SlotIsBetween(s)'
      <3>1. SlotIsOwn(s) => SlotIsOwn(s)'
        BY <1>1, <1>5 DEF SlotIsOwn, MovedOn, Moved, Renewed, Gone, Apart
      <3> QED BY <1>1, <1>2, <1>5, <3>1 DEF SlotIsBetween, Untouched
    <2> QED BY <1>3, <1>4, <2>1, <2>2, <2>3
  <1>6. CASE inTick /\ kind # "particle" /\ WriteWeather({s \in Slots : Joins(s)})
    <2>1. PICK joined : joined = {s \in Slots : Joins(s)}
      OBVIOUS
    <2>2. PICK kept : kept = IF \E s \in joined : Halfway(s) # slot[s] THEN Slots ELSE {}
      OBVIOUS
    <2>3. Write(joined, kept)
      BY <1>6, <2>1, <2>2 DEF WriteWeather
    <2>4. /\ slot' = [s \in Slots |-> IF s \in joined THEN Halfway(s) ELSE slot[s]]
          /\ back' = [s \in kept |-> slot[s]]
      BY <1>1, <2>3 DEF Write
    <2>5. slot' \in [Slots -> SlotMemory] /\ DOMAIN back' = kept /\ kept \in {{}, Slots}
      BY <2>2, <2>4, HalfwayIs DEF MidTypes
    <2>6. MidTypes'
      BY <1>1, <1>4, <2>4, <2>5 DEF MidTypes
    <2>7. PaintOrder'
      BY <1>1, <1>6 DEF PaintOrder
    <2>8. ASSUME NEW s \in Slots, switches = 0 PROVE SlotIsOwn(s)' /\ SlotIsBetween(s)'
      <3>1. slot[s] = own[s].now /\ SlotIsOwn(s) /\ SlotRemembers(s) /\ gate.in /\ s \notin DOMAIN back
        BY <1>1, <1>2, <1>6, <2>8 DEF Untouched, ScheduleInv, InTurn
      <3>2. MovedOn(s)'
        BY <1>1, <3>1 DEF SlotIsOwn, MovedOn, Moved, Renewed, Gone, Apart
      <3>3. IF s \in DOMAIN back' THEN back'[s] = slot[s] ELSE slot'[s] = slot[s]
        BY <2>2, <2>4, <2>5
      <3>4. SlotIsOwn(s)'
        BY <1>1, <3>1, <3>2, <3>3 DEF SlotIsOwn
      <3>5. CASE s \in joined
        <4>1. /\ Halfway(s).on = own[s].now.on
              /\ Halfway(s).at = Mid(own[s].was.at, own[s].now.at)
              /\ Halfway(s).on => own[s].same
          BY <1>1, <2>1, <2>8, <3>1, <3>5, JoinedIsBetween
        <4>2. slot'[s] = Halfway(s)
          BY <2>4, <3>5
        <4> QED BY <1>1, <1>6, <3>4, <4>1, <4>2 DEF SlotIsBetween, Mid
      <3>6. CASE s \notin joined
        BY <1>1, <2>4, <3>1, <3>4, <3>6 DEF SlotIsBetween
      <3> QED BY <3>4, <3>5, <3>6
    <2> QED BY <1>1, <1>3, <1>4, <1>6, <2>6, <2>7, <2>8 DEF Untouched
  <1> QED BY <1>5, <1>6 DEF MidPaintBegins

\* What a paint draws of a slot is the title's own place, or halfway.
LEMMA DrawnIsBetween ==
  ASSUME NEW s \in Slots, SlotIsBetween(s), slot[s].on
  PROVE  slot[s].at \in {own[s].now.at}
           \cup (IF inMidPaint /\ own[s].same THEN {Mid(own[s].was.at, own[s].now.at)} ELSE {})
  BY DEF SlotIsBetween

\* A draw of the weather.
LEMMA WeatherDrawKeeps == ASSUME ScheduleInv, MidInv, WeatherDraw PROVE MidInv'
  <1> USE DEF MidInv
  <1>1. /\ phase = "painting" /\ shown' = [s \in Slots |-> {slot[s].at}] /\ UNCHANGED schedule
        /\ UNCHANGED <<kind, slot, seen, blended, back, calculated, own>>
    BY DEF WeatherDraw
  <1>2. MidTypes' /\ PaintOrder'
    BY <1>1 DEF MidTypes, PaintOrder, schedule
  <1>3. ASSUME NEW s \in Slots
        PROVE  /\ SlotRemembers(s)'
               /\ Untouched' => SlotIsOwn(s)'
               /\ switches' = 0 => SlotIsBetween(s)'
    <2>1. SlotRemembers(s)'
      BY <1>1 DEF SlotRemembers, Pending, schedule
    <2>2. SlotIsOwn(s) => SlotIsOwn(s)'
      BY <1>1 DEF SlotIsOwn, MovedOn, Moved, Renewed, Gone, Apart
    <2> QED BY <1>1, <2>1, <2>2 DEF SlotIsBetween, Untouched, schedule
  <1>4. NeverAcrossABreak'
    <2> SUFFICES ASSUME switches = 0, NEW s \in Slots, slot[s].on
                 PROVE  {slot[s].at} \subseteq {own[s].now.at}
                          \cup (IF inMidPaint /\ own[s].same THEN {Mid(own[s].was.at, own[s].now.at)} ELSE {})
      BY <1>1 DEF NeverAcrossABreak, schedule, Mid
    <2> QED BY DrawnIsBetween
  <1> QED BY <1>2, <1>3, <1>4

\* A draw of the emitter: the plain paint records its particles, the in-between one
\* blends those it has not yet.
LEMMA EmitterDrawKeeps ==
  ASSUME ScheduleInv, MidInv, NEW read \in SUBSET Slots, NEW refused \in SUBSET Slots,
         EmitterDraw(read, refused)
  PROVE  MidInv'
  <1> USE DEF MidInv
  <1>1. /\ phase = "painting" /\ kind = "particle" /\ UNCHANGED schedule
        /\ shown' = [s \in Slots |-> shown[s] \cup {slot'[s].at}]
        /\ UNCHANGED <<kind, calculated, own>> /\ ~Pending /\ ~Pending' /\ tick \in Nat
        /\ tick' = tick /\ inTick' = inTick /\ inMidPaint' = inMidPaint /\ switches' = switches
        /\ gate' = gate /\ phase' = phase
    BY DEF EmitterDraw, Pending, schedule, ScheduleInv, ScheduleTypes
  <1>2. ASSUME NEW s \in Slots PROVE SlotIsOwn(s) /\ SlotRemembers(s) /\ (switches = 0 => SlotIsBetween(s))
    BY <1>1 DEF Untouched
  <1>3. CASE inMidPaint
    <2>1. PICK drawn : drawn = {s \in Slots : slot[s].on}
      OBVIOUS
    <2>2. PICK joined : joined = {s \in (drawn \ blended) \cap read : Joins(s)} \ refused
      OBVIOUS
    <2>3. Write(joined, joined) /\ blended' = blended \cup drawn /\ seen' = seen
      BY <1>3, <2>1, <2>2 DEF EmitterDraw, ToBlend
    <2>4. /\ slot' = [s \in Slots |-> IF s \in joined THEN Halfway(s) ELSE slot[s]]
          /\ back' = [s \in joined \cup DOMAIN back |-> IF s \in joined THEN slot[s] ELSE back[s]]
      BY <2>3 DEF Write
    <2>5. /\ joined \subseteq Slots /\ joined \cap DOMAIN back = {} /\ joined \subseteq drawn
          /\ DOMAIN back' = joined \cup DOMAIN back
      BY <1>1, <2>1, <2>2, <2>4 DEF PaintOrder
    <2>6. slot' \in [Slots -> SlotMemory] /\ \A s \in Slots : slot'[s].on = slot[s].on
      BY <2>4, HalfwayIs DEF MidTypes
    <2>7. MidTypes'
      BY <1>1, <2>3, <2>4, <2>5, <2>6 DEF MidTypes
    <2>8. PaintOrder'
      BY <1>1, <1>3, <2>3, <2>5 DEF PaintOrder
    <2>9. ASSUME NEW s \in Slots
          PROVE  SlotRemembers(s)' /\ SlotIsOwn(s)' /\ (switches = 0 => SlotIsBetween(s)')
      <3>1. SlotRemembers(s)'
        BY <1>1, <1>2, <2>3 DEF SlotRemembers
      <3>2. MovedOn(s)'
        BY <1>1, <1>2 DEF SlotIsOwn, MovedOn, Moved, Renewed, Gone, Apart
      <3>3. CASE s \in joined
        <4>1. s \notin DOMAIN back /\ Joins(s) /\ slot'[s] = Halfway(s) /\ back'[s] = slot[s] /\ s \in DOMAIN back'
          BY <2>2, <2>4, <2>5, <3>3
        <4>2. SlotIsOwn(s)'
          BY <1>1, <1>2, <3>2, <4>1 DEF SlotIsOwn
        <4>3. switches = 0 =>
                /\ Halfway(s).on = own[s].now.on
                /\ Halfway(s).at = Mid(own[s].was.at, own[s].now.at)
                /\ Halfway(s).on => own[s].same
          BY <1>1, <1>2, <1>3, <4>1, JoinedIsBetween DEF ScheduleInv, InTurn
        <4> QED BY <1>1, <1>3, <3>1, <4>1, <4>2, <4>3 DEF SlotIsBetween, Mid
      <3>4. CASE s \notin joined
        <4>1. /\ slot'[s] = slot[s] /\ (s \in DOMAIN back' <=> s \in DOMAIN back)
              /\ s \in DOMAIN back => back'[s] = back[s]
          BY <2>4, <2>5, <3>4
        <4> QED BY <1>1, <1>2, <3>1, <3>2, <4>1 DEF SlotIsOwn, SlotIsBetween
      <3> QED BY <3>3, <3>4
    <2>10. NeverAcrossABreak'
      <3> SUFFICES ASSUME switches = 0, NEW s \in Slots, slot'[s].on
                   PROVE  shown[s] \cup {slot'[s].at} \subseteq {own[s].now.at}
                            \cup (IF inMidPaint /\ own[s].same THEN {Mid(own[s].was.at, own[s].now.at)} ELSE {})
        BY <1>1 DEF NeverAcrossABreak, Mid
      <3>1. shown[s] \subseteq {own[s].now.at}
              \cup (IF inMidPaint /\ own[s].same THEN {Mid(own[s].was.at, own[s].now.at)} ELSE {})
        BY <1>1, <2>6 DEF NeverAcrossABreak
      <3>2. slot'[s].at \in {own[s].now.at}
              \cup (IF inMidPaint /\ own[s].same THEN {Mid(own[s].was.at, own[s].now.at)} ELSE {})
        BY <1>1, <2>9 DEF SlotIsBetween, Mid
      <3> QED BY <3>1, <3>2
    <2> QED BY <1>1, <2>7, <2>8, <2>9, <2>10
  <1>4. CASE ~inMidPaint
    <2>1. PICK recorded : recorded = {s \in Slots : slot[s].on} \cap read
      OBVIOUS
    <2>2. /\ seen' = [s \in Slots |-> IF s \in recorded THEN [tick |-> tick, was |-> slot[s]] ELSE seen[s]]
          /\ UNCHANGED <<slot, blended, back>> /\ DOMAIN back = {}
      BY <1>4, <2>1 DEF EmitterDraw, PaintOrder
    <2>3. seen' \in [Slots -> [tick : Nat \cup {Never}, was : SlotMemory]]
      BY <1>1, <2>2 DEF MidTypes
    <2>4. MidTypes' /\ PaintOrder'
      BY <1>1, <2>2, <2>3 DEF MidTypes, PaintOrder
    <2>5. ASSUME NEW s \in Slots
          PROVE  SlotRemembers(s)' /\ SlotIsOwn(s)' /\ (switches = 0 => SlotIsBetween(s)')
      <3>1. slot[s] = own[s].now
        BY <1>2, <2>2 DEF SlotIsOwn
      <3>2. SlotRemembers(s)'
        <4>1. CASE s \in recorded
          <5>1. seen'[s].tick = tick /\ seen'[s].was = slot[s]
            BY <2>2, <4>1
          <5> QED BY <1>1, <3>1, <5>1 DEF SlotRemembers
        <4>2. CASE s \notin recorded
          <5>1. seen'[s] = seen[s]
            BY <2>2, <4>2
          <5> QED BY <1>1, <1>2, <5>1 DEF SlotRemembers
        <4> QED BY <4>1, <4>2
      <3>3. SlotIsOwn(s)'
        BY <1>1, <1>2, <2>2 DEF SlotIsOwn, MovedOn, Moved, Renewed, Gone, Apart
      <3> QED BY <1>1, <2>2, <3>1, <3>2, <3>3 DEF SlotIsBetween
    <2>6. NeverAcrossABreak'
      <3> SUFFICES ASSUME switches = 0, NEW s \in Slots, slot[s].on
                   PROVE  shown[s] \cup {slot[s].at} \subseteq {own[s].now.at}
        BY <1>1, <1>4, <2>2 DEF NeverAcrossABreak
      <3>1. shown[s] \subseteq {own[s].now.at}
        BY <1>1, <1>4 DEF NeverAcrossABreak
      <3>2. slot[s] = own[s].now
        BY <1>2, <2>2 DEF SlotIsOwn
      <3> QED BY <3>1, <3>2
    <2> QED BY <1>1, <2>4, <2>5, <2>6
  <1> QED BY <1>3, <1>4 DEF ScheduleInv, ScheduleTypes

\* Every step of the weather's or the particles' is one of these.
LEMMA MidKeeps == ASSUME ScheduleInv, MidInv, MidNext PROVE MidInv' /\ Scheduled
  <1>1. MidInv'
    BY MidStays, WeatherExecuteKeeps, CalculateKeeps, MidPaintEndsKeeps, WeatherDrawKeeps,
       MidPaintBeginsKeeps, EmitterDrawKeeps DEF MidNext
  <1>2. Scheduled
    BY DEF MidNext, Scheduled, WeatherExecute, Calculate, MidPaintEnds, WeatherDraw, MidPaintBegins, EmitterDraw
  <1> QED BY <1>1, <1>2

-----------------------------------------------------------------------------
(* The listeners together.                                                  *)

\* A behaviour is about one of them; the others stay as they began.
SeaRests == sea = seaOwn
RopeRests == rope = ropeOwn
ClothRests == cloth = clothOwn
AnimRests == anim.frame = animOwn /\ animShown = {}
ViewRests == newShot = FALSE /\ viewRead.was = FALSE
MidRests == \A s \in Slots : slot[s] = own[s].now /\ shown[s] = {}

Inv ==
  /\ ScheduleInv
  /\ IF subject = "sea" THEN SeaInv ELSE SeaRests
  /\ IF subject = "rope" THEN RopeInv ELSE RopeRests
  /\ IF subject = "cloth" THEN ClothInv ELSE ClothRests
  /\ IF subject = "material" THEN AnimInv ELSE AnimRests
  /\ IF subject = "camera" THEN ViewInv ELSE ViewRests
  /\ IF subject = "paint" THEN MidInv ELSE MidRests

\* At the start every listener has its own and has seen nothing.
LEMMA Begins == ASSUME Init PROVE Inv
  <1> USE DEF Init
  <1>1. ScheduleInv /\ SeaInv /\ RopeInv /\ ClothInv /\ AnimInv /\ ViewInv /\ MidInv
    BY ScheduleBegins, SeaBegins, RopeBegins, ClothBegins, AnimBegins, ViewBegins, MidBegins
  <1>2. SeaRests
    BY DEF SeaInit, SeaRests
  <1>3. RopeRests
    BY DEF RopeInit, RopeRests
  <1>4. ClothRests
    BY DEF ClothInit, ClothRests
  <1>5. AnimRests
    BY DEF AnimInit, AnimRests
  <1>6. ViewRests
    BY DEF ViewInit, ViewRests
  <1>7. MidRests
    BY DEF MidInit, MidRests
  <1> HIDE DEF Init
  <1> QED BY <1>1, <1>2, <1>3, <1>4, <1>5, <1>6, <1>7 DEF Inv

\* The sea of a behaviour about another listener stays as it began.
LEMMA SeaRestsOn == ASSUME SeaRests, UNCHANGED seaVars PROVE SeaRests'
  BY DEF SeaRests, seaVars
\* So does the rope.
LEMMA RopeRestsOn == ASSUME RopeRests, UNCHANGED ropeVars PROVE RopeRests'
  BY DEF RopeRests, ropeVars
\* So does the cloth.
LEMMA ClothRestsOn == ASSUME ClothRests, UNCHANGED clothVars PROVE ClothRests'
  BY DEF ClothRests, clothVars
\* So does the animation.
LEMMA AnimRestsOn == ASSUME AnimRests, UNCHANGED animVars PROVE AnimRests'
  BY DEF AnimRests, animVars
\* So does the camera.
LEMMA ViewRestsOn == ASSUME ViewRests, UNCHANGED viewVars PROVE ViewRests'
  BY DEF ViewRests, viewVars
\* So do the slots.
LEMMA MidRestsOn == ASSUME MidRests, UNCHANGED midPaint PROVE MidRests'
  BY DEF MidRests, midPaint

\* A step is one listener's, and the others rest.
LEMMA Keeps == ASSUME Inv, [Next]_vars PROVE Inv'
  <1>1. ScheduleInv
    BY DEF Inv
  <1>2. CASE Moves("sea", SeaNext) /\ UNCHANGED <<ropeVars, clothVars, animVars, viewVars, midPaint>>
    <2>1. subject = "sea" /\ subject' = "sea" /\ SeaInv /\ SeaNext
      BY <1>2 DEF Moves, Inv
    <2>2. SeaInv' /\ ScheduleInv'
      BY <1>1, <2>1, SeaKeeps, ScheduleKeeps
    <2> QED BY <1>2, <2>1, <2>2, RopeRestsOn, ClothRestsOn, AnimRestsOn, ViewRestsOn, MidRestsOn DEF Inv
  <1>3. CASE Moves("rope", RopeNext) /\ UNCHANGED <<seaVars, clothVars, animVars, viewVars, midPaint>>
    <2>1. subject = "rope" /\ subject' = "rope" /\ RopeInv /\ RopeNext
      BY <1>3 DEF Moves, Inv
    <2>2. RopeInv' /\ ScheduleInv'
      BY <1>1, <2>1, RopeKeeps, ScheduleKeeps
    <2> QED BY <1>3, <2>1, <2>2, SeaRestsOn, ClothRestsOn, AnimRestsOn, ViewRestsOn, MidRestsOn DEF Inv
  <1>4. CASE Moves("cloth", ClothNext) /\ UNCHANGED <<seaVars, ropeVars, animVars, viewVars, midPaint>>
    <2>1. subject = "cloth" /\ subject' = "cloth" /\ ClothInv /\ ClothNext
      BY <1>4 DEF Moves, Inv
    <2>2. ClothInv' /\ ScheduleInv'
      BY <1>1, <2>1, ClothKeeps, ScheduleKeeps
    <2> QED BY <1>4, <2>1, <2>2, SeaRestsOn, RopeRestsOn, AnimRestsOn, ViewRestsOn, MidRestsOn DEF Inv
  <1>5. CASE Moves("material", AnimNext) /\ UNCHANGED <<seaVars, ropeVars, clothVars, viewVars, midPaint>>
    <2>1. subject = "material" /\ subject' = "material" /\ AnimInv /\ AnimNext
      BY <1>5 DEF Moves, Inv
    <2>2. AnimInv' /\ ScheduleInv'
      BY <1>1, <2>1, AnimKeeps, ScheduleKeeps
    <2> QED BY <1>5, <2>1, <2>2, SeaRestsOn, RopeRestsOn, ClothRestsOn, ViewRestsOn, MidRestsOn DEF Inv
  <1>6. CASE Moves("camera", ViewNext) /\ UNCHANGED <<seaVars, ropeVars, clothVars, animVars, midPaint>>
    <2>1. subject = "camera" /\ subject' = "camera" /\ ViewInv /\ ViewNext
      BY <1>6 DEF Moves, Inv
    <2>2. ViewInv' /\ ScheduleInv'
      BY <1>1, <2>1, ViewKeeps, ScheduleKeeps
    <2> QED BY <1>6, <2>1, <2>2, SeaRestsOn, RopeRestsOn, ClothRestsOn, AnimRestsOn, MidRestsOn DEF Inv
  <1>7. CASE Moves("paint", MidNext) /\ UNCHANGED <<seaVars, ropeVars, clothVars, animVars, viewVars>>
    <2>1. subject = "paint" /\ subject' = "paint" /\ MidInv /\ MidNext
      BY <1>7 DEF Moves, Inv
    <2>2. MidInv' /\ ScheduleInv'
      BY <1>1, <2>1, MidKeeps, ScheduleKeeps
    <2> QED BY <1>7, <2>1, <2>2, SeaRestsOn, RopeRestsOn, ClothRestsOn, AnimRestsOn, ViewRestsOn DEF Inv
  <1>8. CASE UNCHANGED vars
    <2>1. /\ subject' = subject /\ UNCHANGED schedule
          /\ UNCHANGED seaVars /\ UNCHANGED ropeVars /\ UNCHANGED clothVars
          /\ UNCHANGED animVars /\ UNCHANGED viewVars /\ UNCHANGED midPaint
      BY <1>8 DEF vars, others
    <2>2. ScheduleInv'
      BY <1>1, <2>1, ScheduleKeeps DEF Scheduled
    <2>3. /\ IF subject' = "sea" THEN SeaInv' ELSE SeaRests'
          /\ IF subject' = "rope" THEN RopeInv' ELSE RopeRests'
          /\ IF subject' = "cloth" THEN ClothInv' ELSE ClothRests'
      BY <1>1, <2>1, SeaStays, RopeStays, ClothStays, SeaRestsOn, RopeRestsOn, ClothRestsOn DEF Inv
    <2>4. /\ IF subject' = "material" THEN AnimInv' ELSE AnimRests'
          /\ IF subject' = "camera" THEN ViewInv' ELSE ViewRests'
          /\ IF subject' = "paint" THEN MidInv' ELSE MidRests'
      BY <1>1, <2>1, AnimStays, ViewStays, MidStays, AnimRestsOn, ViewRestsOn, MidRestsOn DEF Inv
    <2> QED BY <2>2, <2>3, <2>4 DEF Inv
  <1> QED BY <1>2, <1>3, <1>4, <1>5, <1>6, <1>7, <1>8 DEF Next

\* The invariant is inductive: what each listener remembers and holds is the title's own.
THEOREM InductiveInvariant == Spec => []Inv
  <1>1. Init => Inv
    BY Begins
  <1>2. Inv /\ [Next]_vars => Inv'
    BY Keeps
  <1> QED BY <1>1, <1>2, PTL DEF Spec

\* Guest memory with nothing to be put back is the title's own.
LEMMA NothingIsLeft == ASSUME Inv PROVE LeavesNothing
  <1>1. SeaKeepsItsOwn
    BY DEF Inv, SeaRests, SeaInv, SeaIsOwn, SeaTypes, SeaMemory, SeaKeepsItsOwn
  <1>2. RopeKeepsItsOwn
    BY DEF Inv, RopeRests, RopeInv, RopeIsOwn, RopeTypes, RopeMemory, Line, RopeKeepsItsOwn
  <1>3. ClothKeepsItsOwn
    <2>1. CASE ClothInv
      <3> SUFFICES ASSUME ~InTickDraw
                   PROVE  /\ cloth.current = clothOwn.current /\ cloth.size = clothOwn.size
                          /\ \A b \in Buffers : Known(b[1], b[2]) => cloth.buffer[b] = clothOwn.buffer[b]
        BY DEF ClothKeepsItsOwn
      <3> QED BY <2>1 DEF ClothInv, ClothTypes, ClothIsHeld
    <2>2. CASE cloth = clothOwn
      BY <2>2 DEF ClothKeepsItsOwn
    <2> QED BY <2>1, <2>2 DEF Inv, ClothRests
  <1>4. AnimStepsOnce
    BY DEF Inv, AnimRests, AnimInv, AnimStepsOnce
  <1>5. ClosesClean
    BY DEF Inv, MidRests, MidInv, PaintOrder, Untouched, SlotIsOwn, ClosesClean
  <1> QED BY <1>1, <1>2, <1>3, <1>4, <1>5 DEF LeavesNothing

\* What a listener shows in between is so of each.
LEMMA AllAreInBetween == ASSUME Inv PROVE ShowsInBetween
  <1>1. SeaIsBetween
    BY DEF Inv, SeaRests, SeaInv, SeaIsBetween
  <1>2. RopeIsBetween
    BY DEF Inv, RopeRests, RopeInv, RopeIsBetween
  <1>3. ClothIsBetween
    BY DEF Inv, ClothRests, ClothInv, ClothIsBetween, Uploaded
  <1>4. AnimIsBetween
    BY DEF Inv, AnimRests, AnimInv, AnimIsBetween
  <1>5. NeverAcrossABreak
    BY DEF Inv, MidRests, MidInv, NeverAcrossABreak
  <1> QED BY <1>1, <1>2, <1>3, <1>4, <1>5 DEF ShowsInBetween

\* After the draw phase or the in-between paint, each listener's guest memory is what the
\* title itself made of it, whatever refused, was left out or switched meanwhile; but for the
\* cloth buffers a packet blended after another's first kind was refused, which keep a midpoint.
THEOREM NothingStays == Spec => []LeavesNothing
  BY InductiveInvariant, NothingIsLeft, PTL

\* The in-between draw phase and paint show this tick's value, or halfway from the last
\* tick's of the same thing; but for the same cloth buffers.
THEOREM InBetween == Spec => []ShowsInBetween
  BY InductiveInvariant, AllAreInBetween, PTL

\* A new shot's camera is drawn where it is.
THEOREM CutsAreSharp == Spec => []NoViewAcrossACut
  <1>1. Inv => NoViewAcrossACut
    BY DEF Inv, ViewInv, ViewRests, NoViewAcrossACut
  <1> QED BY <1>1, InductiveInvariant, PTL

\* A shot that goes on is drawn halfway along its move.
THEOREM ShotsGoOn == Spec => []ShotGoesOn
  <1>1. Inv => ShotGoesOn
    BY DEF Inv, ViewInv, ViewRests, ShotGoesOn
  <1> QED BY <1>1, InductiveInvariant, PTL

=============================================================================
