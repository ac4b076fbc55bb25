----------------------- MODULE DrawInterpolationProofs -----------------------
(***************************************************************************)
(* The in-between picture, for every setting: any places, any number of     *)
(* ticks and switches, anything that cannot be read, written or drawn.      *)
(***************************************************************************)
EXTENDS DrawInterpolation, SequenceTheorems, TLAPS

Things == {"camera", "old", "pos", "angle", "base", "joint", "wave", "fade"}
Pcs == {"call", "execute", "before", "camera", "actor", "models", "after", "post", "paint"}
Drawing == {"camera", "actor", "models", "after"}
Moves == [was : Places, now : Places]
Entries == {Never} \cup [tick : Nat, at : Values]
Changes == [{"camera"} -> Values] \cup [{"pos", "angle"} -> Values] \cup [{"joint"} -> Values]

Types ==
  /\ setting \in Settings
  /\ enabled \in BOOLEAN /\ inTick \in BOOLEAN /\ inDraw \in BOOLEAN /\ inMidPaint \in BOOLEAN
  /\ viewed \in BOOLEAN /\ executed \in BOOLEAN
  /\ gate \in [in : BOOLEAN, odd : BOOLEAN] /\ call \in {"tick", "skip"} /\ pc \in Pcs
  /\ camera \in Entries /\ shape \in Entries /\ tickBase \in Entries
  /\ wave \in Entries /\ fade \in Entries
  /\ model \in {NoModel} \cup [tick : Nat, base : Values, joint : Values, fromDraw : BOOLEAN]
  /\ waveBack \in Values \cup {Nothing} /\ fadeBack \in Values \cup {Nothing}
  /\ mem \in [Things -> Values]
  /\ world \in Moves /\ actor \in Moves
  /\ drawn \in [{"camera", "pos", "angle", "joint"} -> Values \cup {Nothing}]
  /\ shown \in [{"wave", "fade"} -> Values \cup {Nothing}]
  /\ restores \in Seq(Changes)

Counts ==
  /\ tick \in Nat /\ ticks \in Nat /\ tick <= ticks /\ ticks <= setting.ticks
  /\ switches \in 0..MaxSwitches
  /\ camera.tick <= tick /\ shape.tick <= tick /\ tickBase.tick <= tick
  /\ wave.tick <= tick /\ fade.tick <= tick /\ model.tick <= tick

\* The flags through a call: the tick's picture is wanted from its management to its
\* AfterOfDraw, and the in-between paint is open from there to the next BeforeOfDraw.
Phases ==
  /\ pc \in {"call", "post", "paint"} \/ call = "skip" => ~inTick
  /\ pc \in Drawing => inDraw /\ ~inMidPaint
  /\ pc = "execute" => call = "tick"
  /\ call = "skip" /\ inMidPaint => pc = "before"
  /\ ~inMidPaint => waveBack = Nothing /\ fadeBack = Nothing
  /\ pc = "post" => fadeBack = Nothing
  /\ "logic" \notin setting.switches =>
       /\ inTick => gate.in /\ gate.odd
       /\ inMidPaint => gate.in /\ (gate.odd \/ (call = "skip" /\ pc = "before"))
       /\ call = "tick" /\ pc \in {"execute", "before"} => ~inMidPaint

\* What the title itself last wrote of a thing the draw phase blends.
Own(t) ==
  IF t = "camera" THEN world.now ELSE IF t = "joint" THEN mem.base ELSE actor.now
Changed(t) == \E i \in 1..Len(restores) : t \in DOMAIN restores[i]

\* Whatever of the title's is not in memory is to be put back.
Restorable ==
  /\ \A i \in 1..Len(restores) : \A t \in DOMAIN restores[i] : restores[i][t] = Own(t)
  /\ \A t \in {"camera", "pos", "angle", "joint"} : mem[t] = Own(t) \/ Changed(t)
  /\ pc \notin {"actor", "models", "after"} \/ ~inTick => restores = <<>>
  /\ pc = "actor" => Len(restores) <= 1 /\ ~Changed("pos") /\ ~Changed("angle")
  /\ ~viewed => ~Changed("joint")
  /\ pc \in {"camera", "actor"} => ~viewed
  /\ Len(restores) <= IF viewed THEN 3 ELSE 2

OwnFade == IF fadeBack = Nothing THEN mem.fade ELSE fadeBack
OwnWave == IF waveBack = Nothing THEN mem.wave ELSE waveBack

\* The fade steps after the draw phase of a tick.
Unstepped == call = "tick" /\ pc \in Drawing \cup {"before", "post"}

Owned ==
  /\ setting.base = "execute" => mem.base = actor.now
  /\ executed => mem.old = actor.was
  /\ ~executed => actor.was = actor.now
  /\ OwnFade = IF Unstepped THEN world.was ELSE world.now
  /\ "logic" \notin setting.switches => OwnWave = world.now
  /\ setting.base = "draw" /\ pc = "models" => mem.base = drawn.pos

\* What was drawn is the tick's own unless the picture is the in-between one.
Drawn ==
  /\ pc = "camera" => drawn.camera = Nothing
  /\ pc \in {"camera", "actor"} =>
       drawn.pos = Nothing /\ drawn.angle = Nothing
  /\ pc \in {"camera", "actor"} => drawn.joint = Nothing
  /\ ~inTick /\ pc \in Drawing =>
       /\ drawn.camera \in {Nothing, world.now}
       /\ drawn.pos \in {Nothing, actor.now} /\ drawn.angle \in {Nothing, actor.now}
       /\ setting.base = "execute" => drawn.joint \in {Nothing, actor.now}
  /\ call = "skip" /\ pc \in {"post", "paint"} =>
       /\ drawn.camera \in {Nothing, world.now}
       /\ drawn.pos \in {Nothing, actor.now} /\ drawn.angle \in {Nothing, actor.now}
       /\ setting.base = "execute" => drawn.joint \in {Nothing, actor.now}
  /\ pc \in Drawing \cup {"post", "paint"} => drawn.pos \in InBetween(actor) \cup {Nothing}
  /\ pc = "models" => drawn.pos # Nothing

-----------------------------------------------------------------------------
\* An entry made at this tick or the one before is of where the thing then was.
Remembers(when, at, moved) ==
  /\ when = tick => pc # "execute" /\ at = moved.now
  /\ when + 1 = tick => at = IF pc = "execute" THEN moved.now ELSE moved.was

\* With nothing switched and the gate in, every tick is one to be shown in between.
Steady ==
  setting.switches = {} =>
    /\ enabled
    /\ ~gate.in => /\ tick = 0 /\ ~inTick /\ ~inMidPaint
                   /\ camera = Never /\ shape = Never /\ tickBase = Never /\ wave = Never
    /\ gate.in =>
         /\ pc = "execute" => inTick
         /\ call = "tick" /\ pc \in Drawing \cup {"before"} => inTick
         /\ call = "tick" /\ pc \in {"post", "paint"} => inMidPaint

\* With nothing switched, what was seen is where the title had put it.
Remembered ==
  setting.switches = {} =>
    /\ gate.in =>
         /\ Remembers(camera.tick, camera.at, world) /\ Remembers(wave.tick, wave.at, world)
         /\ Remembers(shape.tick, shape.at, actor)
         /\ Remembers(model.tick, model.base, actor)
         /\ setting.base = "execute" => Remembers(tickBase.tick, tickBase.at, actor)
    /\ model.fromDraw => setting.base = "draw"

\* With nothing switched, the tick's picture is between the last tick's and its own.
Between ==
  setting.switches = {} /\ inTick /\ pc \in Drawing =>
    /\ drawn.camera \in InBetween(world) \cup {Nothing}
    /\ drawn.angle \in InBetween(actor) \cup {Nothing}
    /\ setting.base = "execute" =>
         /\ mem.joint \in InBetween(actor)
         /\ drawn.joint \in InBetween(actor) \cup {Nothing}

Rigid == model.base = model.joint

\* What the last plain paint showed of the fade, as of this tick or the one before.
FadeSeen ==
  /\ pc = "paint" /\ shown.fade # Nothing =>
       IF inMidPaint THEN EveryFaderIsSeen => shown.fade \in InBetween(world)
                     ELSE shown.fade = world.now
  /\ pc = "paint" /\ fadeBack # Nothing => shown.fade = mem.fade
  /\ inTick \/ (inMidPaint /\ pc \in {"post", "paint"}) => fade.tick < tick
  /\ EveryFaderIsSeen /\ (setting.switches = {} => gate.in) =>
       /\ fade.tick = tick =>
            fade.at = IF Unstepped \/ (call = "tick" /\ pc = "paint" /\ shown.fade = Nothing)
                        THEN world.was ELSE world.now
       /\ fade.tick + 1 = tick /\ (inTick \/ (inMidPaint /\ pc \in {"post", "paint"})) =>
            fade.at = IF pc = "execute" THEN world.now ELSE world.was

Half(moved) == Mid(moved.was, moved.now)

\* With nothing in the way nothing is forgotten: every entry is the last tick's.
Whole ==
  NothingInTheWay /\ gate.in =>
    /\ tick > 1 /\ inTick /\ pc \in {"execute", "before", "camera"} => camera.tick + 1 = tick
    /\ tick > 0 /\ ~(inTick /\ pc \in {"execute", "before", "camera"}) => camera.tick = tick
    /\ tick > 1 /\ inTick /\ pc \in {"execute", "before", "camera", "actor"} => shape.tick + 1 = tick
    /\ tick > 0 /\ ~(inTick /\ pc \in {"execute", "before", "camera", "actor"}) => shape.tick = tick
    /\ tick > 1 /\ inTick => wave.tick + 1 = tick
    /\ tick > 0 /\ ~inTick => wave.tick = tick
    /\ tick > 1 /\ inTick /\ pc \in {"actor", "models"} => drawn.camera = Half(world)
    /\ tick > 1 /\ inTick /\ pc = "models" => drawn.angle = Half(actor)
    /\ tick > 1 /\ pc = "post" => mem.wave = IF call = "tick" THEN Half(world) ELSE world.now
    /\ tick > 1 /\ pc = "paint" => shown.wave = IF call = "tick" THEN Half(world) ELSE world.now
    /\ pc # "after"

\* Where the base of a model is known, its joint is halfway once viewed.
Stands ==
  setting.outcomes = {"blended"} /\ setting.switches = {} /\ inTick /\ pc = "models" =>
    /\ setting.base = "draw" => mem.base = Half(actor)
    /\ drawn.joint # Nothing => viewed /\ drawn.joint = mem.joint
    /\ viewed /\ Continues(model) /\ (model.fromDraw <=> setting.base = "draw") =>
         mem.joint = Half(actor)

IInv ==
  /\ Types /\ Counts /\ Phases /\ Restorable /\ Owned /\ Drawn
  /\ Steady /\ Remembered /\ Between /\ Rigid /\ FadeSeen /\ Whole /\ Stands
-----------------------------------------------------------------------------
(* Places and what is between them.                                         *)

\* Places are natural numbers, and so is all that is between two.
LEMMA ValuesAreNatural ==
  /\ Places \subseteq Values /\ Values \subseteq Nat /\ Start \in Places
  /\ Nothing \notin Values
  <1>1. Places \subseteq 0..32
    <2>1. \A i \in 0..8 : 4 * i \in 0..32
      OBVIOUS
    <2> QED BY <2>1, PlacesAreApart
  <1>2. Places \subseteq Values
    BY <1>1 DEF Values
  <1>3. Values \subseteq Nat
    BY DEF Values
  <1>4. Start \in Places
    BY PlacesAreApart DEF Start
  <1>5. Nothing \notin Values
    BY <1>3 DEF Nothing
  <1> QED BY <1>2, <1>3, <1>4, <1>5

\* The midpoint of two is between them.
LEMMA MidIsBetween ==
  ASSUME NEW a \in Values, NEW b \in Values
  PROVE  Mid(a, b) \in Values /\ Mid(a, a) = a /\ Mid(0, 0) = 0
  <1>1. a \in 0..32 /\ b \in 0..32
    BY DEF Values
  <1>2. PICK p \in Places, q \in Places : p <= a /\ a <= q
    BY DEF Values
  <1>3. PICK r \in Places, s \in Places : r <= b /\ b <= s
    BY DEF Values
  <1>4. p \in Nat /\ q \in Nat /\ r \in Nat /\ s \in Nat
    BY ValuesAreNatural
  <1>5. /\ Mid(a, b) \in 0..32
        /\ a <= b => p <= Mid(a, b) /\ Mid(a, b) <= s
        /\ b <= a => r <= Mid(a, b) /\ Mid(a, b) <= q
        /\ a <= b \/ b <= a
    BY <1>1, <1>2, <1>3, <1>4 DEF Mid
  <1>6. Mid(a, b) \in Values
    BY <1>5 DEF Values
  <1> QED BY <1>1, <1>6 DEF Mid


-----------------------------------------------------------------------------
(* What is put back.                                                        *)

\* A change is of one of the four, to what is a place or between two.
LEMMA ChangeIs ==
  ASSUME Types, NEW i \in 1..Len(restores)
  PROVE  /\ DOMAIN restores[i] \subseteq {"camera", "pos", "angle", "joint"}
         /\ \A t \in DOMAIN restores[i] : restores[i][t] \in Values
  <1>1. restores[i] \in Changes
    BY ElementOfSeq DEF Types
  <1>2. CASE restores[i] \in [{"camera"} -> Values]
    BY <1>2
  <1>3. CASE restores[i] \in [{"pos", "angle"} -> Values]
    BY <1>3
  <1>4. CASE restores[i] \in [{"joint"} -> Values]
    BY <1>4
  <1> QED BY <1>1, <1>2, <1>3, <1>4 DEF Changes

\* Everything put back leaves the title what it wrote itself.
LEMMA PutBackOwn ==
  ASSUME Types, Restorable
  PROVE  /\ PutBack(restores, mem) \in [Things -> Values]
         /\ \A t \in {"camera", "pos", "angle", "joint"} : PutBack(restores, mem)[t] = Own(t)
         /\ \A t \in {"old", "base", "wave", "fade"} : PutBack(restores, mem)[t] = mem[t]
  <1> DEFINE changes(t) == {i \in DOMAIN restores : t \in DOMAIN restores[i]}
             latest(t) == CHOOSE i \in changes(t) : \A j \in changes(t) : j <= i
  <1>1. DOMAIN restores = 1..Len(restores) /\ DOMAIN mem = Things
        /\ Len(restores) \in Nat /\ Len(restores) <= 3
    BY LenProperties DEF Types, Restorable
  <1>2. PutBack(restores, mem) =
          [t \in Things |-> IF changes(t) = {} THEN mem[t] ELSE restores[latest(t)][t]]
    BY <1>1 DEF PutBack
  <1>3. ASSUME NEW t \in Things, changes(t) # {}
        PROVE  latest(t) \in changes(t)
    <2>1. changes(t) \subseteq 1..3
      BY <1>1
    <2>2. CASE 3 \in changes(t)
      BY <2>1, <2>2
    <2>3. CASE 3 \notin changes(t) /\ 2 \in changes(t)
      BY <2>1, <2>3
    <2>4. CASE 3 \notin changes(t) /\ 2 \notin changes(t)
      BY <1>3, <2>1, <2>4
    <2> QED BY <2>2, <2>3, <2>4
  <1>4. ASSUME NEW t \in Things, changes(t) # {}
        PROVE  /\ t \in {"camera", "pos", "angle", "joint"}
               /\ restores[latest(t)][t] = Own(t) /\ restores[latest(t)][t] \in Values
    <2>1. latest(t) \in 1..Len(restores) /\ t \in DOMAIN restores[latest(t)]
      BY <1>1, <1>3, <1>4
    <2> QED BY <2>1, ChangeIs DEF Restorable
  <1>5. \A t \in Things : changes(t) = {} => ~Changed(t)
    BY <1>1 DEF Changed
  <1> HIDE DEF changes, latest
  <1>6. \A t \in Things : mem[t] \in Values
    BY DEF Types
  <1>7. PutBack(restores, mem) \in [Things -> Values]
    BY <1>2, <1>4, <1>6
  <1>8. \A t \in {"camera", "pos", "angle", "joint"} : PutBack(restores, mem)[t] = Own(t)
    <2> SUFFICES ASSUME NEW t \in {"camera", "pos", "angle", "joint"}
                 PROVE  PutBack(restores, mem)[t] = Own(t)
      OBVIOUS
    <2>1. t \in Things
      BY DEF Things
    <2>2. CASE changes(t) = {}
      BY <1>2, <1>5, <2>1, <2>2 DEF Restorable
    <2>3. CASE changes(t) # {}
      BY <1>2, <1>4, <2>1, <2>3
    <2> QED BY <2>2, <2>3
  <1>9. \A t \in {"old", "base", "wave", "fade"} : PutBack(restores, mem)[t] = mem[t]
    <2> SUFFICES ASSUME NEW t \in {"old", "base", "wave", "fade"}
                 PROVE  PutBack(restores, mem)[t] = mem[t]
      OBVIOUS
    <2>1. t \in Things /\ t \notin {"camera", "pos", "angle", "joint"}
      BY DEF Things
    <2> QED BY <1>2, <1>4, <2>1
  <1> QED BY <1>7, <1>8, <1>9

-----------------------------------------------------------------------------
\* What the types say of the numbers compared.
LEMMA Typed ==
  ASSUME Types
  PROVE  /\ camera.tick \in Int /\ shape.tick \in Int /\ tickBase.tick \in Int
         /\ wave.tick \in Int /\ fade.tick \in Int /\ model.tick \in Int
         /\ setting.ticks \in Nat /\ setting.ticks <= MaxTicks /\ setting.switches \subseteq Switches
         /\ setting.base \in {"execute", "draw"}
         /\ setting.outcomes \subseteq {"blended", "left", "unreadable"}
         /\ \A t \in Things : mem[t] \in Values
         /\ world.was \in Values /\ world.now \in Values
         /\ actor.was \in Values /\ actor.now \in Values
  <1>1. Never.tick \in Int /\ NoModel.tick \in Int
    BY DEF Never, NoModel
  <1>2. \A entry \in Entries : entry.tick \in Int
    BY <1>1 DEF Entries
  <1>3. model.tick \in Int
    BY <1>1 DEF Types
  <1>4. /\ setting.ticks \in 0..MaxTicks /\ setting.switches \subseteq Switches
        /\ setting.base \in {"execute", "draw"}
        /\ setting.outcomes \subseteq {"blended", "left", "unreadable"}
    BY SettingsAreKnown DEF Types
  <1>5. /\ world.was \in Values /\ world.now \in Values
        /\ actor.was \in Values /\ actor.now \in Values
    BY ValuesAreNatural DEF Types, Moves
  <1> QED BY <1>2, <1>3, <1>4, <1>5, BoundsAreNatural DEF Types

\* With nothing to put back, memory is the title's own.
LEMMA NothingChanged ==
  ASSUME Restorable, restores = <<>>
  PROVE  /\ mem.camera = world.now /\ mem.pos = actor.now /\ mem.angle = actor.now
         /\ mem.joint = mem.base
  <1>1. Len(restores) = 0
    BY EmptySeq
  <1>2. \A t \in {"camera", "pos", "angle", "joint"} : mem[t] = Own(t)
    BY <1>1 DEF Restorable, Changed
  <1> QED BY <1>2 DEF Own

\* A change kept is of what the title itself wrote, if it was not changed before.
LEMMA KeptToPutBack ==
  ASSUME Types, Restorable, NEW change \in Changes, restores' = Append(restores, change),
         \A t \in DOMAIN change : change[t] = Own(t)',
         \A t \in {"camera", "pos", "angle", "joint"} : Changed(t) => Own(t)' = Own(t),
         \A t \in {"camera", "pos", "angle", "joint"} :
            mem'[t] = Own(t)' \/ Changed(t) \/ t \in DOMAIN change
  PROVE  /\ restores' \in Seq(Changes) /\ Len(restores') = Len(restores) + 1
         /\ \A t \in {"camera", "pos", "angle", "joint"} :
              Changed(t)' <=> Changed(t) \/ t \in DOMAIN change
         /\ \A i \in 1..Len(restores') : \A t \in DOMAIN restores'[i] :
              restores'[i][t] = Own(t)'
         /\ \A t \in {"camera", "pos", "angle", "joint"} : mem'[t] = Own(t)' \/ Changed(t)'
  <1>1. restores \in Seq(Changes) /\ Len(restores) \in Nat
    BY LenProperties DEF Types
  <1>2. /\ restores' \in Seq(Changes) /\ Len(restores') = Len(restores) + 1
        /\ \A i \in 1..Len(restores) : restores'[i] = restores[i]
        /\ restores'[Len(restores) + 1] = change
    BY <1>1, AppendProperties
  <1>4. ASSUME NEW t \in {"camera", "pos", "angle", "joint"}
        PROVE  Changed(t)' <=> Changed(t) \/ t \in DOMAIN change
    <2>1. Changed(t) => Changed(t)'
      BY <1>1, <1>2 DEF Changed
    <2>2. t \in DOMAIN change => Changed(t)'
      <3>1. Len(restores) + 1 \in 1..Len(restores')
        BY <1>1, <1>2
      <3> QED BY <1>2, <3>1 DEF Changed
    <2>3. Changed(t)' => Changed(t) \/ t \in DOMAIN change
      <3>1. \A i \in 1..Len(restores') : i \in 1..Len(restores) \/ i = Len(restores) + 1
        BY <1>1, <1>2
      <3> QED BY <1>2, <3>1 DEF Changed
    <2> QED BY <2>1, <2>2, <2>3
  <1>5. ASSUME NEW i \in 1..Len(restores'), NEW t \in DOMAIN restores'[i]
        PROVE  restores'[i][t] = Own(t)'
    <2>1. CASE i = Len(restores) + 1
      BY <1>2, <2>1
    <2>2. CASE i # Len(restores) + 1
      <3>1. i \in 1..Len(restores)
        BY <1>1, <1>2, <2>2
      <3>2. restores'[i] = restores[i] /\ restores[i][t] = Own(t) /\ Changed(t)
        BY <1>2, <3>1 DEF Restorable, Changed
      <3>3. t \in {"camera", "pos", "angle", "joint"}
        BY <3>1, <3>2, ChangeIs
      <3> QED BY <3>2, <3>3
    <2> QED BY <2>1, <2>2
  <1>6. \A t \in {"camera", "pos", "angle", "joint"} : mem'[t] = Own(t)' \/ Changed(t)'
    BY <1>4
  <1> QED BY <1>2, <1>4, <1>5, <1>6

-----------------------------------------------------------------------------
(* A call begins, and the logic runs.                                       *)

\* A tick to be shown in between is numbered; what was seen at the last is of the tick before.
LEMMA TickCallKeeps ==
  ASSUME IInv, TickCall, setting' = setting
  PROVE  IInv'
  <1>1. /\ pc = "call" /\ pc' = "execute" /\ call' = "tick" /\ ticks < setting.ticks /\ ticks' = ticks + 1
        /\ gate' \in [in : BOOLEAN, odd : BOOLEAN] /\ gate'.in = gate.in /\ (gate.in => gate'.odd)
        /\ inTick' \in BOOLEAN /\ (inTick' <=> gate.in /\ enabled)
        /\ (inTick' => tick' = tick + 1) /\ (~inTick' => tick' = tick)
        /\ (gate.in => ~gate.odd)
        /\ UNCHANGED <<setting, enabled, inDraw, inMidPaint, camera, shape, model, tickBase,
                        viewed, restores, wave, waveBack, fade, fadeBack, mem, executed,
                        switches, world, actor, drawn, shown>>
    BY DEF IInv, Types, TickCall, draw, seen, paint, title
  <1>2. Types'
    BY <1>1 DEF IInv, Types, Pcs, Moves, Entries, Things
  <1>3. Counts'
    <2>1. /\ tick \in Nat /\ ticks \in Nat /\ setting.ticks \in Nat /\ tick <= ticks
          /\ tick' \in Nat /\ (tick' = tick \/ tick' = tick + 1)
      BY <1>1, Typed DEF IInv, Counts
    <2>2. tick' <= ticks' /\ ticks' \in Nat /\ ticks' <= setting'.ticks
      BY <1>1, <2>1
    <2> QED BY <1>1, <2>1, <2>2, Typed DEF IInv, Counts
  <1>4. Phases'
    BY <1>1 DEF IInv, Phases, Types, Drawing
  <1>5. Restorable'
    BY <1>1 DEF IInv, Restorable, Own, Changed, Phases
  <1>6. Owned'
    BY <1>1 DEF IInv, Owned, OwnFade, OwnWave, Unstepped, Drawing, Phases
  <1>7. Drawn'
    BY <1>1 DEF IInv, Drawn, Drawing, InBetween, Phases
  <1>8. Steady'
    BY <1>1, Typed DEF IInv, Steady, Drawing, Phases, Counts, Types
  <1>9. Remembered'
    <2>1. setting.switches = {} /\ gate.in => tick' = tick + 1
      BY <1>1 DEF IInv, Steady
    <2>2. ASSUME NEW when \in Int, NEW at, NEW moved, when <= tick,
                 setting.switches = {}, gate.in, Remembers(when, at, moved)
          PROVE  when # tick' /\ (when + 1 = tick' => at = moved.now)
      BY <1>1, <2>1, <2>2 DEF IInv, Remembers, Counts
    <2> QED BY <1>1, <2>2, Typed DEF IInv, Remembered, Remembers, Counts
  <1>10. Between'
    BY <1>1, Typed DEF IInv, Between, InBetween, Drawing, Phases, Types
  <1>11. Rigid'
    BY <1>1 DEF IInv, Rigid
  <1>12. FadeSeen'
    BY <1>1, Typed
       DEF IInv, FadeSeen, EveryFaderIsSeen, Unstepped, InBetween, Drawing, Phases, Counts,
           Types
  <1>13. Whole'
    BY <1>1, Typed DEF IInv, Whole, NothingInTheWay, Half, Phases, Counts, Types
  <1>14. Stands'
    BY <1>1 DEF IInv, Stands, Continues, Half, Phases
  <1> QED BY <1>2, <1>3, <1>4, <1>5, <1>6, <1>7, <1>8, <1>9, <1>10, <1>11, <1>12, <1>13, <1>14
             DEF IInv

\* The draw phase alone runs.
LEMMA SkipCallKeeps ==
  ASSUME IInv, SkipCall, setting' = setting
  PROVE  IInv'
  <1>1. /\ pc = "call" /\ pc' = "before" /\ call' = "skip"
        /\ gate.in /\ gate' \in [in : BOOLEAN, odd : BOOLEAN] /\ gate'.in = gate.in
        /\ UNCHANGED <<setting, enabled, inTick, inDraw, inMidPaint, tick, camera, shape,
                        model, tickBase, viewed, restores, wave, waveBack, fade, fadeBack, mem,
                        executed, ticks, switches, world, actor, drawn, shown>>
    BY DEF IInv, Types, SkipCall, draw, seen, paint, title
  <1>2. Types'
    BY <1>1 DEF IInv, Types, Pcs, Moves, Entries, Things
  <1>3. Counts'
    BY <1>1, Typed DEF IInv, Counts, Types, Never, NoModel
  <1>4. Phases'
    BY <1>1 DEF IInv, Phases, Types, Drawing
  <1>5. Restorable'
    BY <1>1 DEF IInv, Restorable, Own, Changed, Phases
  <1>6. Owned'
    BY <1>1 DEF IInv, Owned, OwnFade, OwnWave, Unstepped, Drawing, Phases
  <1>7. Drawn'
    BY <1>1 DEF IInv, Drawn, Drawing, InBetween, Phases
  <1>8. Steady'
    BY <1>1, Typed DEF IInv, Steady, Drawing, Phases, Counts, Types
  <1>9. Remembered'
    BY <1>1, Typed DEF IInv, Remembered, Remembers, Steady, Phases, Counts, Types
  <1>10. Between'
    BY <1>1, Typed DEF IInv, Between, InBetween, Drawing, Phases, Types
  <1>11. Rigid'
    BY <1>1 DEF IInv, Rigid
  <1>12. FadeSeen'
    BY <1>1, Typed
       DEF IInv, FadeSeen, EveryFaderIsSeen, Unstepped, InBetween, Drawing, Phases, Counts,
           Types
  <1>13. Whole'
    BY <1>1, Typed DEF IInv, Whole, NothingInTheWay, Half, Phases, Counts, Types
  <1>14. Stands'
    BY <1>1 DEF IInv, Stands, Continues, Half, Phases
  <1> QED BY <1>2, <1>3, <1>4, <1>5, <1>6, <1>7, <1>8, <1>9, <1>10, <1>11, <1>12, <1>13, <1>14
             DEF IInv

\* The logic finds its own values, and moves on from them.
LEMMA ExecuteKeeps ==
  ASSUME IInv, NEW place \in Places, NEW runs \in BOOLEAN, Execute(place, runs), setting' = setting
  PROVE  IInv'
  <1>1. /\ pc = "execute" /\ pc' = "before" /\ executed' = runs
        /\ world' = [was |-> world.now, now |-> place]
        /\ actor' = [was |-> actor.now, now |-> IF runs THEN place ELSE actor.now]
        /\ mem' \in [Things -> Values]
        /\ mem'.camera = place /\ mem'.wave = place /\ mem'.fade = mem.fade
        /\ mem'.old = (IF runs THEN mem.pos ELSE mem.old)
        /\ mem'.pos = (IF runs THEN place ELSE mem.pos)
        /\ mem'.angle = (IF runs THEN place ELSE mem.angle)
        /\ mem'.base = (IF runs /\ setting.base = "execute" THEN place ELSE mem.base)
        /\ mem'.joint = (IF runs /\ setting.base = "execute" THEN place ELSE mem.joint)
        /\ UNCHANGED <<setting, enabled, inTick, inDraw, inMidPaint, tick, camera, shape,
                        model, tickBase, viewed, restores, wave, waveBack, fade, fadeBack,
                        gate, call, ticks, switches, drawn, shown>>
    BY ValuesAreNatural DEF IInv, Types, Execute, Things, draw, seen, paint, title
  <1>2. Types'
    BY <1>1 DEF IInv, Types, Pcs, Moves, Entries, Things
  <1>3. Counts'
    BY <1>1, Typed DEF IInv, Counts, Types, Never, NoModel
  <1>4. Phases'
    BY <1>1 DEF IInv, Phases, Types, Drawing
  <1>5. Restorable'
    BY <1>1 DEF IInv, Restorable, Own, Changed, Phases
  <1>6. Owned'
    <2>1. restores = <<>> /\ call = "tick" /\ ("logic" \notin setting.switches => ~inMidPaint)
      BY <1>1 DEF IInv, Phases, Restorable
    <2>2. mem.pos = actor.now
      BY <2>1, NothingChanged DEF IInv
    <2> QED BY <1>1, <2>1, <2>2 DEF IInv, Owned, OwnFade, OwnWave, Unstepped, Drawing, Phases
  <1>7. Drawn'
    BY <1>1 DEF IInv, Drawn, Drawing, InBetween, Phases
  <1>8. Steady'
    BY <1>1, Typed DEF IInv, Steady, Drawing, Phases, Counts, Types
  <1>9. Remembered'
    BY <1>1, Typed DEF IInv, Remembered, Remembers, Steady, Phases, Counts, Types
  <1>10. Between'
    BY <1>1, Typed DEF IInv, Between, InBetween, Drawing, Phases, Types
  <1>11. Rigid'
    BY <1>1 DEF IInv, Rigid
  <1>12. FadeSeen'
    BY <1>1, Typed
       DEF IInv, FadeSeen, EveryFaderIsSeen, Unstepped, InBetween, Drawing, Phases, Counts,
           Types
  <1>13. Whole'
    BY <1>1, Typed DEF IInv, Whole, NothingInTheWay, Half, Phases, Counts, Types
  <1>14. Stands'
    BY <1>1 DEF IInv, Stands, Continues, Half, Phases
  <1> QED BY <1>2, <1>3, <1>4, <1>5, <1>6, <1>7, <1>8, <1>9, <1>10, <1>11, <1>12, <1>13, <1>14
             DEF IInv

\* The in-between paint closes, what it changed is put back, and a draw phase opens.
LEMMA BeforeDrawKeeps ==
  ASSUME IInv, BeforeDraw, setting' = setting
  PROVE  IInv'
  <1>1. /\ pc = "before" /\ pc' = "camera" /\ inDraw' = TRUE /\ viewed' = FALSE /\ inMidPaint' = FALSE
        /\ mem' \in [Things -> Values] /\ waveBack' = Nothing /\ fadeBack' = Nothing
        /\ mem'.camera = mem.camera /\ mem'.old = mem.old /\ mem'.pos = mem.pos
        /\ mem'.angle = mem.angle /\ mem'.base = mem.base /\ mem'.joint = mem.joint
        /\ mem'.wave = OwnWave /\ mem'.fade = OwnFade
        /\ drawn' \in [{"camera", "pos", "angle", "joint"} -> Values \cup {Nothing}]
        /\ drawn'.camera = Nothing /\ drawn'.pos = Nothing /\ drawn'.angle = Nothing /\ drawn'.joint = Nothing
        /\ UNCHANGED <<setting, enabled, inTick, tick, camera, shape, model, tickBase,
                        restores, wave, fade, gate, call, executed, ticks, switches, world,
                        actor, shown>>
    BY DEF IInv, Types, BeforeDraw, Phases, MidPaintEnded, OwnWave, OwnFade, Things, draw,
       seen, paint, title
  <1>2. Types'
    BY <1>1 DEF IInv, Types, Pcs
  <1>3. Counts'
    BY <1>1, Typed DEF IInv, Counts, Types, Never, NoModel
  <1>4. Phases'
    BY <1>1 DEF IInv, Phases, Types, Drawing
  <1>5. Restorable'
    BY <1>1 DEF IInv, Restorable, Own, Changed, Phases
  <1>6. Owned'
    BY <1>1 DEF IInv, Owned, OwnFade, OwnWave, Unstepped, Drawing, Phases
  <1>7. Drawn'
    BY <1>1 DEF IInv, Drawn, Drawing, InBetween, Phases
  <1>8. Steady'
    BY <1>1, Typed DEF IInv, Steady, Drawing, Phases, Counts, Types
  <1>9. Remembered'
    BY <1>1, Typed DEF IInv, Remembered, Remembers, Steady, Phases, Counts, Types
  <1>10. Between'
    <2>1. restores = <<>>
      BY <1>1 DEF IInv, Restorable
    <2>2. setting.base = "execute" => mem.joint = actor.now
      BY <2>1, NothingChanged DEF IInv, Owned
    <2> QED BY <1>1, <2>2 DEF IInv, Between, InBetween, Drawing, Phases, Types
  <1>11. Rigid'
    BY <1>1 DEF IInv, Rigid
  <1>12. FadeSeen'
    BY <1>1, Typed
       DEF IInv, FadeSeen, EveryFaderIsSeen, Unstepped, InBetween, Drawing, Phases, Counts,
           Types
  <1>13. Whole'
    BY <1>1, Typed DEF IInv, Whole, NothingInTheWay, Half, Phases, Counts, Types
  <1>14. Stands'
    BY <1>1 DEF IInv, Stands, Continues, Half, Phases
  <1> QED BY <1>2, <1>3, <1>4, <1>5, <1>6, <1>7, <1>8, <1>9, <1>10, <1>11, <1>12, <1>13, <1>14
             DEF IInv

-----------------------------------------------------------------------------
(* The draw phase.                                                          *)


\* The camera is drawn between two ticks, and its own view kept to be put back.
LEMMA CameraDrawKeeps ==
  ASSUME IInv, NEW o \in setting.outcomes, CameraDraw(o), setting' = setting
  PROVE  IInv'
  <1>1. /\ pc = "camera" /\ pc' = "actor"
        /\ drawn' \in [{"camera", "pos", "angle", "joint"} -> Values \cup {Nothing}]
        /\ drawn'.camera = mem'.camera /\ drawn'.pos = drawn.pos /\ drawn'.angle = drawn.angle
        /\ drawn'.joint = drawn.joint /\ mem' \in [Things -> Values]
        /\ mem'.old = mem.old /\ mem'.pos = mem.pos /\ mem'.angle = mem.angle
        /\ mem'.base = mem.base /\ mem'.joint = mem.joint /\ mem'.wave = mem.wave /\ mem'.fade = mem.fade
        /\ \/ mem'.camera = mem.camera /\ restores' = restores
           \/ /\ inTick /\ camera.tick + 1 = tick /\ mem'.camera = Mid(camera.at, mem.camera)
              /\ restores' = Append(restores, [t \in {"camera"} |-> mem[t]])
        /\ setting.outcomes = {"blended"} /\ inTick /\ camera.tick + 1 = tick =>
             mem'.camera = Mid(camera.at, mem.camera)
        /\ camera' = (IF inTick /\ o # "unreadable" THEN [tick |-> tick, at |-> mem.camera]
                      ELSE camera)
        /\ UNCHANGED <<setting, enabled, inTick, inDraw, inMidPaint, tick, shape, model,
                        tickBase, viewed, wave, waveBack, fade, fadeBack, gate, call, executed,
                        ticks, switches, world, actor, shown>>
    <2>1. mem \in [Things -> Values] /\ mem.camera \in Values /\ "camera" \in Things
      BY DEF IInv, Types, Things
    <2>2. camera.tick + 1 = tick => camera.at \in Values
      BY DEF IInv, Types, Counts, Entries, Never
    <2>3. CASE inTick /\ o = "blended" /\ Continues(camera)
      <3>1. Mid(camera.at, mem.camera) \in Values
        BY <2>1, <2>2, <2>3, MidIsBetween DEF Continues
      <3>2. mem' = [t \in Things |-> IF t = "camera" THEN Mid(camera.at, mem.camera) ELSE mem[t]]
        <4>1. mem' = [t \in DOMAIN mem |-> IF t \in {"camera"}
                        THEN [x \in {"camera"} |-> Mid(camera.at, mem.camera)][t] ELSE mem[t]]
          BY <2>3 DEF CameraDraw, Blend
        <4>2. DOMAIN mem = Things
          BY <2>1
        <4>3. \A t \in Things :
                (IF t \in {"camera"} THEN [x \in {"camera"} |-> Mid(camera.at, mem.camera)][t]
                                     ELSE mem[t])
                  = IF t = "camera" THEN Mid(camera.at, mem.camera) ELSE mem[t]
          OBVIOUS
        <4> QED BY <4>1, <4>2, <4>3
      <3>3. /\ mem' \in [Things -> Values] /\ mem'.camera = Mid(camera.at, mem.camera)
            /\ mem'.old = mem.old /\ mem'.pos = mem.pos /\ mem'.angle = mem.angle
            /\ mem'.base = mem.base /\ mem'.joint = mem.joint /\ mem'.wave = mem.wave
            /\ mem'.fade = mem.fade
        BY <2>1, <3>1, <3>2 DEF Things
      <3> QED BY <2>1, <2>3, <3>1, <3>3
              DEF IInv, Types, CameraDraw, Blend, Continues, draw, seen, paint, title
    <2>4. CASE ~(inTick /\ o = "blended" /\ Continues(camera))
      BY <2>1, <2>4 DEF IInv, Types, CameraDraw, Leave, Continues, draw, seen, paint, title
    <2> QED BY <2>3, <2>4
  <1>2. /\ restores' \in Seq(Changes) /\ Len(restores') <= 1
        /\ \A t \in {"pos", "angle", "joint"} : ~Changed(t)'
        /\ \A i \in 1..Len(restores') : \A t \in DOMAIN restores'[i] :
             restores'[i][t] = Own(t)'
        /\ \A t \in {"camera", "pos", "angle", "joint"} : mem'[t] = Own(t)' \/ Changed(t)'
    <2>1. restores = <<>> /\ Len(restores) = 0
      BY <1>1 DEF IInv, Restorable
    <2>2. \A t \in {"camera", "pos", "angle", "joint"} : ~Changed(t) /\ mem[t] = Own(t)
      BY <2>1 DEF IInv, Restorable, Changed
    <2>3. \A t \in {"camera", "pos", "angle", "joint"} : Own(t)' = Own(t)
      BY <1>1 DEF Own
    <2>4. \A t \in {"pos", "angle", "joint"} : mem'[t] = mem[t]
      BY <1>1
    <2>5. CASE mem'.camera = mem.camera /\ restores' = restores
      <3>1. \A t \in {"camera", "pos", "angle", "joint"} : ~Changed(t)' /\ mem'[t] = Own(t)'
        BY <2>1, <2>2, <2>3, <2>4, <2>5 DEF Changed
      <3> QED BY <2>1, <2>5, <3>1 DEF IInv, Types
    <2>6. CASE restores' = Append(restores, [t \in {"camera"} |-> mem[t]])
      <3> DEFINE change == [t \in {"camera"} |-> mem[t]]
      <3>1. /\ change \in Changes /\ DOMAIN change = {"camera"}
            /\ change["camera"] = Own("camera")'
        BY <2>2, <2>3, Typed DEF IInv, Changes, Things
      <3>2. \A t \in {"camera", "pos", "angle", "joint"} :
              mem'[t] = Own(t)' \/ Changed(t) \/ t \in {"camera"}
        BY <2>2, <2>3, <2>4
      <3> HIDE DEF change
      <3> QED BY <2>1, <2>2, <2>3, <2>6, <3>1, <3>2, KeptToPutBack DEF IInv, change
    <2> QED BY <1>1, <2>5, <2>6
  <1>3. camera' \in Entries
    <2>1. [tick |-> tick, at |-> mem.camera] \in Entries
      BY Typed DEF IInv, Counts, Entries, Things
    <2> QED BY <1>1, <2>1 DEF IInv, Types
  <1>4. mem.camera = world.now /\ mem.joint = mem.base
    <2>1. restores = <<>>
      BY <1>1 DEF IInv, Restorable
    <2> QED BY <2>1, NothingChanged DEF IInv
  <1>5. setting.switches = {} /\ inTick /\ camera.tick + 1 = tick => camera.at = world.was
    BY <1>1 DEF IInv, Remembered, Remembers, Steady
  <1>6. Types'
    BY <1>1, <1>2, <1>3 DEF IInv, Types, Pcs
  <1>7. Counts'
    BY <1>1, <1>2, <1>3, <1>4, <1>5, Typed DEF IInv, Counts, Types, Never, NoModel
  <1>8. Phases'
    BY <1>1, <1>2, <1>3, <1>4, <1>5 DEF IInv, Phases, Types, Drawing
  <1>9. Restorable'
    BY <1>1, <1>2 DEF IInv, Restorable
  <1>10. Owned'
    BY <1>1, <1>2, <1>3, <1>4, <1>5
       DEF IInv, Owned, OwnFade, OwnWave, Unstepped, Drawing, Phases
  <1>11. Drawn'
    BY <1>1, <1>2, <1>3, <1>4, <1>5 DEF IInv, Drawn, Drawing, InBetween, Phases
  <1>12. Steady'
    BY <1>1, <1>2, <1>3, <1>4, <1>5, Typed DEF IInv, Steady, Drawing, Phases, Counts, Types
  <1>13. Remembered'
    BY <1>1, <1>2, <1>3, <1>4, <1>5, Typed
       DEF IInv, Remembered, Remembers, Steady, Phases, Counts, Types
  <1>14. Between'
    BY <1>1, <1>4, <1>5 DEF IInv, Between, InBetween, Drawing
  <1>15. Rigid'
    BY <1>1, <1>2, <1>3, <1>4, <1>5 DEF IInv, Rigid
  <1>16. FadeSeen'
    BY <1>1, <1>2, <1>3, <1>4, <1>5, Typed
       DEF IInv, FadeSeen, EveryFaderIsSeen, Unstepped, InBetween, Drawing, Phases, Counts,
           Types
  <1>17. Whole'
    <2>1. setting.switches = {} => enabled
      BY DEF IInv, Steady
    <2> QED BY <1>1, <1>4, <1>5, <2>1, Typed
               DEF IInv, Whole, NothingInTheWay, Half, Phases, Counts, Types
  <1>18. Stands'
    BY <1>1, <1>2, <1>3, <1>4, <1>5 DEF IInv, Stands, Continues, Half, Phases
  <1> QED BY <1>6, <1>7, <1>8, <1>9, <1>10, <1>11, <1>12, <1>13, <1>14, <1>15, <1>16, <1>17,
             <1>18 DEF IInv

\* A view that is not drawn shows nothing.
LEMMA NoCameraDrawKeeps ==
  ASSUME IInv, NoCameraDraw, setting' = setting
  PROVE  IInv'
  <1>1. /\ pc = "camera" /\ pc' = "actor" /\ "camera" \in setting.undrawn
        /\ UNCHANGED <<setting, enabled, inTick, inDraw, inMidPaint, tick, camera, shape,
                        model, tickBase, viewed, restores, wave, waveBack, fade, fadeBack,
                        gate, call, mem, executed, ticks, switches, world, actor, drawn, shown>>
    BY DEF IInv, Types, NoCameraDraw, draw, seen, paint, title
  <1>2. Types'
    BY <1>1 DEF IInv, Types, Pcs, Moves, Entries, Things
  <1>3. Counts'
    BY <1>1, Typed DEF IInv, Counts, Types, Never, NoModel
  <1>4. Phases'
    BY <1>1 DEF IInv, Phases, Types, Drawing
  <1>5. Restorable'
    BY <1>1 DEF IInv, Restorable, Own, Changed, Phases
  <1>6. Owned'
    BY <1>1 DEF IInv, Owned, OwnFade, OwnWave, Unstepped, Drawing, Phases
  <1>7. Drawn'
    BY <1>1 DEF IInv, Drawn, Drawing, InBetween, Phases
  <1>8. Steady'
    BY <1>1, Typed DEF IInv, Steady, Drawing, Phases, Counts, Types
  <1>9. Remembered'
    BY <1>1, Typed DEF IInv, Remembered, Remembers, Steady, Phases, Counts, Types
  <1>10. Between'
    BY <1>1, Typed DEF IInv, Between, InBetween, Drawing, Phases, Types
  <1>11. Rigid'
    BY <1>1 DEF IInv, Rigid
  <1>12. FadeSeen'
    BY <1>1, Typed
       DEF IInv, FadeSeen, EveryFaderIsSeen, Unstepped, InBetween, Drawing, Phases, Counts,
           Types
  <1>13. Whole'
    BY <1>1, Typed DEF IInv, Whole, NothingInTheWay, Half, Phases, Counts, Types
  <1>14. Stands'
    BY <1>1 DEF IInv, Stands, Continues, Half, Phases
  <1> QED BY <1>2, <1>3, <1>4, <1>5, <1>6, <1>7, <1>8, <1>9, <1>10, <1>11, <1>12, <1>13, <1>14
             DEF IInv

\* The actor is drawn between where it was and is, and a model of the draw style stands there.
LEMMA ActorDrawKeeps ==
  ASSUME IInv, NEW o \in setting.outcomes, ActorDraw(o), setting' = setting
  PROVE  IInv'
  <1>1. /\ pc = "actor" /\ pc' = "models"
        /\ drawn' \in [{"camera", "pos", "angle", "joint"} -> Values \cup {Nothing}]
        /\ drawn'.camera = drawn.camera /\ drawn'.joint = drawn.joint
        /\ drawn'.pos = mem'.pos /\ drawn'.angle = mem'.angle
        /\ mem' \in [Things -> Values] /\ mem'.camera = mem.camera /\ mem'.old = mem.old
        /\ mem'.wave = mem.wave /\ mem'.fade = mem.fade
        /\ setting.base = "execute" => mem'.base = mem.base /\ mem'.joint = mem.joint
        /\ setting.base = "draw" => mem'.base = mem'.pos /\ mem'.joint = mem'.pos
        /\ \/ /\ mem'.pos = mem.pos /\ mem'.angle = mem.angle /\ restores' = restores
              /\ setting.outcomes = {"blended"} /\ inTick => ~executed
           \/ /\ inTick /\ executed /\ mem'.pos = Mid(mem.old, mem.pos)
              /\ mem'.angle = (IF shape.tick + 1 = tick THEN Mid(shape.at, mem.angle)
                                                        ELSE mem.angle)
              /\ restores' = Append(restores, [t \in {"pos", "angle"} |-> mem[t]])
        /\ shape' = (IF inTick /\ o # "unreadable" THEN [tick |-> tick, at |-> mem.angle]
                     ELSE shape)
        /\ UNCHANGED <<setting, enabled, inTick, inDraw, inMidPaint, tick, camera, model,
                        tickBase, viewed, wave, waveBack, fade, fadeBack, gate, call, executed,
                        ticks, switches, world, actor, shown>>
    <2>1. /\ mem \in [Things -> Values] /\ DOMAIN mem = Things /\ mem.angle \in Values
          /\ mem.old \in Values /\ mem.pos \in Values
      BY DEF IInv, Types, Things
    <2>2. shape.tick + 1 = tick => shape.at \in Values
      BY DEF IInv, Types, Counts, Entries, Never
    <2>3. setting.base \in {"execute", "draw"}
      BY Typed DEF IInv
    <2> DEFINE pos == Placed(o).pos
               angle == Placed(o).angle
    <2>4. /\ pos \in Values /\ angle \in Values
          /\ \/ /\ pos = mem.pos /\ angle = mem.angle
                /\ ~(inTick /\ executed /\ o = "blended")
             \/ /\ inTick /\ executed /\ o = "blended" /\ pos = Mid(mem.old, mem.pos)
                /\ angle = (IF shape.tick + 1 = tick THEN Mid(shape.at, mem.angle)
                                                     ELSE mem.angle)
      BY <2>1, <2>2, MidIsBetween DEF Placed, Continues
    <2>5. /\ mem' = [mem EXCEPT !.pos = pos, !.angle = angle,
                                !.base = IF setting.base = "draw" THEN pos ELSE @,
                                !.joint = IF setting.base = "draw" THEN pos ELSE @]
          /\ drawn' = [drawn EXCEPT !.pos = pos, !.angle = angle]
      BY DEF ActorDraw
    <2> HIDE DEF pos, angle
    <2>6. /\ mem' \in [Things -> Values] /\ mem'.camera = mem.camera /\ mem'.old = mem.old
          /\ mem'.wave = mem.wave /\ mem'.fade = mem.fade
          /\ setting.base = "execute" => mem'.base = mem.base /\ mem'.joint = mem.joint
          /\ setting.base = "draw" => mem'.base = pos /\ mem'.joint = pos
          /\ mem'.pos = pos /\ mem'.angle = angle
      BY <2>1, <2>3, <2>4, <2>5 DEF Things
    <2>7. /\ drawn' \in [{"camera", "pos", "angle", "joint"} -> Values \cup {Nothing}]
          /\ drawn'.camera = drawn.camera /\ drawn'.joint = drawn.joint
          /\ drawn'.pos = pos /\ drawn'.angle = angle
      BY <2>4, <2>5 DEF IInv, Types
    <2> QED BY <2>4, <2>6, <2>7 DEF ActorDraw, draw, seen, paint, title
  <1>2. /\ restores' \in Seq(Changes) /\ Len(restores') <= 2 /\ ~Changed("joint")'
        /\ \A i \in 1..Len(restores') : \A t \in DOMAIN restores'[i] :
             restores'[i][t] = Own(t)'
        /\ \A t \in {"camera", "pos", "angle", "joint"} : mem'[t] = Own(t)' \/ Changed(t)'
        /\ ~inTick => restores' = <<>>
    <2>1. /\ Len(restores) <= 1 /\ ~Changed("pos") /\ ~Changed("angle") /\ ~Changed("joint")
          /\ restores \in Seq(Changes) /\ (~inTick => restores = <<>>)
      BY <1>1 DEF IInv, Restorable, Types
    <2>2. \A t \in {"camera", "pos", "angle"} : Own(t)' = Own(t)
      BY <1>1 DEF Own
    <2>3. mem'.camera = mem.camera /\ mem'.joint = Own("joint")'
      BY <1>1, <2>1, Typed DEF IInv, Restorable, Own
    <2>4. CASE mem'.pos = mem.pos /\ mem'.angle = mem.angle /\ restores' = restores
      <3>1. \A t \in {"camera", "pos", "angle", "joint"} : Changed(t)' <=> Changed(t)
        BY <2>4 DEF Changed
      <3>2. \A t \in {"camera", "pos", "angle", "joint"} : mem'[t] = Own(t)' \/ Changed(t)'
        BY <2>2, <2>3, <2>4, <3>1 DEF IInv, Restorable
      <3>3. ASSUME NEW i \in 1..Len(restores), NEW t \in DOMAIN restores[i]
            PROVE  restores[i][t] = Own(t)'
        <4>1. t \in {"camera", "pos", "angle", "joint"} /\ Changed(t)
              /\ restores[i][t] = Own(t)
          BY ChangeIs DEF IInv, Restorable, Changed
        <4> QED BY <2>1, <2>2, <4>1
      <3> QED BY <2>1, <2>4, <3>1, <3>2, <3>3
    <2>5. CASE inTick /\ restores' = Append(restores, [t \in {"pos", "angle"} |-> mem[t]])
      <3> DEFINE change == [t \in {"pos", "angle"} |-> mem[t]]
      <3>1. change \in Changes /\ DOMAIN change = {"pos", "angle"}
        <4>1. mem["pos"] \in Values /\ mem["angle"] \in Values
          BY Typed DEF IInv, Things
        <4>2. change \in [{"pos", "angle"} -> Values]
          BY <4>1
        <4> QED BY <4>2 DEF Changes
      <3>2. \A t \in DOMAIN change : change[t] = Own(t)'
        BY <2>1, <2>2 DEF IInv, Restorable
      <3>3. restores' = Append(restores, change)
        BY <2>5
      <3> HIDE DEF change
      <3>4. \A t \in {"camera", "pos", "angle", "joint"} :
              mem'[t] = Own(t)' \/ Changed(t) \/ t \in DOMAIN change
        BY <2>2, <2>3, <3>1 DEF IInv, Restorable
      <3>5. \A t \in {"camera", "pos", "angle", "joint"} : Changed(t) => Own(t)' = Own(t)
        BY <2>1, <2>2
      <3>6. /\ restores' \in Seq(Changes) /\ Len(restores') = Len(restores) + 1
            /\ \A t \in {"camera", "pos", "angle", "joint"} :
                 Changed(t)' <=> Changed(t) \/ t \in {"pos", "angle"}
            /\ \A i \in 1..Len(restores') : \A t \in DOMAIN restores'[i] :
                 restores'[i][t] = Own(t)'
            /\ \A t \in {"camera", "pos", "angle", "joint"} : mem'[t] = Own(t)' \/ Changed(t)'
        BY <3>1, <3>2, <3>3, <3>4, <3>5, KeptToPutBack DEF IInv
      <3> QED BY <2>1, <2>5, <3>6
    <2> QED BY <1>1, <2>4, <2>5
  <1>3. shape' \in Entries
    <2>1. [tick |-> tick, at |-> mem.angle] \in Entries
      BY Typed DEF IInv, Counts, Entries, Things
    <2> QED BY <1>1, <2>1 DEF IInv, Types
  <1>4. mem.pos = actor.now /\ mem.angle = actor.now
    BY <1>1 DEF IInv, Restorable, Own
  <1>5. /\ executed => mem.old = actor.was
        /\ ~executed => actor.was = actor.now /\ Half(actor) = actor.now
        /\ setting.switches = {} /\ inTick /\ shape.tick + 1 = tick => shape.at = actor.was
    BY <1>1, Typed, MidIsBetween DEF IInv, Owned, Half, Remembered, Remembers, Steady
  <1>6. Types'
    BY <1>1, <1>2, <1>3 DEF IInv, Types, Pcs
  <1>7. Counts'
    BY <1>1, <1>2, <1>3, <1>4, <1>5, Typed DEF IInv, Counts, Types, Never, NoModel
  <1>8. Phases'
    BY <1>1, <1>2, <1>3, <1>4, <1>5 DEF IInv, Phases, Types, Drawing
  <1>9. Restorable'
    BY <1>1, <1>2 DEF IInv, Restorable
  <1>10. Owned'
    BY <1>1, <1>2, <1>3, <1>4, <1>5
       DEF IInv, Owned, OwnFade, OwnWave, Unstepped, Drawing, Phases
  <1>11. Drawn'
    <2>1. mem'.pos \in Values /\ mem'.pos # Nothing
      BY <1>1, ValuesAreNatural DEF Things
    <2> QED BY <1>1, <1>4, <1>5, <2>1 DEF IInv, Drawn, Drawing, InBetween, Phases
  <1>12. Steady'
    BY <1>1, <1>2, <1>3, <1>4, <1>5, Typed DEF IInv, Steady, Drawing, Phases, Counts, Types
  <1>13. Remembered'
    BY <1>1, <1>2, <1>3, <1>4, <1>5, Typed
       DEF IInv, Remembered, Remembers, Steady, Phases, Counts, Types
  <1>14. Between'
    BY <1>1, <1>4, <1>5 DEF IInv, Between, InBetween, Drawing
  <1>15. Rigid'
    BY <1>1, <1>2, <1>3, <1>4, <1>5 DEF IInv, Rigid
  <1>16. FadeSeen'
    BY <1>1, <1>2, <1>3, <1>4, <1>5, Typed
       DEF IInv, FadeSeen, EveryFaderIsSeen, Unstepped, InBetween, Drawing, Phases, Counts,
           Types
  <1>17. Whole'
    <2>1. setting.switches = {} => enabled
      BY DEF IInv, Steady
    <2> QED BY <1>1, <1>4, <1>5, <2>1, Typed
               DEF IInv, Whole, NothingInTheWay, Half, Phases, Counts, Types
  <1>18. Stands'
    BY <1>1, <1>4, <1>5 DEF IInv, Stands, Half, Drawn, Restorable
  <1> QED BY <1>6, <1>7, <1>8, <1>9, <1>10, <1>11, <1>12, <1>13, <1>14, <1>15, <1>16, <1>17,
             <1>18 DEF IInv

\* An actor that is not drawn shows nothing.
LEMMA NoActorDrawKeeps ==
  ASSUME IInv, NoActorDraw, setting' = setting
  PROVE  IInv'
  <1>1. /\ pc = "actor" /\ pc' = "after" /\ "actor" \in setting.undrawn
        /\ UNCHANGED <<setting, enabled, inTick, inDraw, inMidPaint, tick, camera, shape,
                        model, tickBase, viewed, restores, wave, waveBack, fade, fadeBack,
                        gate, call, mem, executed, ticks, switches, world, actor, drawn, shown>>
    BY DEF IInv, Types, NoActorDraw, draw, seen, paint, title
  <1>2. Types'
    BY <1>1 DEF IInv, Types, Pcs, Moves, Entries, Things
  <1>3. Counts'
    BY <1>1, Typed DEF IInv, Counts, Types, Never, NoModel
  <1>4. Phases'
    BY <1>1 DEF IInv, Phases, Types, Drawing
  <1>5. Restorable'
    BY <1>1 DEF IInv, Restorable, Own, Changed, Phases
  <1>6. Owned'
    BY <1>1 DEF IInv, Owned, OwnFade, OwnWave, Unstepped, Drawing, Phases
  <1>7. Drawn'
    BY <1>1 DEF IInv, Drawn, Drawing, InBetween, Phases
  <1>8. Steady'
    BY <1>1, Typed DEF IInv, Steady, Drawing, Phases, Counts, Types
  <1>9. Remembered'
    BY <1>1, Typed DEF IInv, Remembered, Remembers, Steady, Phases, Counts, Types
  <1>10. Between'
    BY <1>1, Typed DEF IInv, Between, InBetween, Drawing, Phases, Types
  <1>11. Rigid'
    BY <1>1 DEF IInv, Rigid
  <1>12. FadeSeen'
    BY <1>1, Typed
       DEF IInv, FadeSeen, EveryFaderIsSeen, Unstepped, InBetween, Drawing, Phases, Counts,
           Types
  <1>13. Whole'
    BY <1>1, Typed DEF IInv, Whole, NothingInTheWay, Half, Phases, Counts, Types
  <1>14. Stands'
    BY <1>1 DEF IInv, Stands, Continues, Half, Phases
  <1> QED BY <1>2, <1>3, <1>4, <1>5, <1>6, <1>7, <1>8, <1>9, <1>10, <1>11, <1>12, <1>13, <1>14
             DEF IInv

\* A model viewed first in an in-between phase is drawn between its poses; in a plain one its pose is kept.
LEMMA ModelViewKeeps ==
  ASSUME IInv, NEW o \in setting.outcomes, ModelView(o), setting' = setting
  PROVE  IInv'
  <1>1. /\ pc = "models" /\ viewed' \in BOOLEAN /\ (viewed => viewed')
        /\ drawn' \in [{"camera", "pos", "angle", "joint"} -> Values \cup {Nothing}]
        /\ drawn'.camera = drawn.camera /\ drawn'.pos = drawn.pos /\ drawn'.angle = drawn.angle
        /\ drawn'.joint = mem'.joint
        /\ mem' \in [Things -> Values] /\ mem'.camera = mem.camera /\ mem'.old = mem.old
        /\ mem'.pos = mem.pos /\ mem'.angle = mem.angle /\ mem'.base = mem.base
        /\ mem'.wave = mem.wave /\ mem'.fade = mem.fade
        /\ \/ mem'.joint = mem.joint /\ restores' = restores
           \/ /\ inTick /\ ~viewed /\ viewed' /\ model.tick + 1 = tick
              /\ mem'.joint = (IF model.fromDraw THEN mem.base ELSE Mid(model.base, mem.base))
              /\ restores' = Append(restores, [t \in {"joint"} |-> mem[t]])
        /\ tickBase' = tickBase \/ (inTick /\ tickBase' = [tick |-> tick, at |-> mem.base])
        /\ \/ model' = model
           \/ /\ ~inTick /\ ~viewed
              /\ \E follows \in BOOLEAN :
                   /\ model' = [tick |-> tick, base |-> mem.base, joint |-> mem.joint,
                                fromDraw |-> follows]
                   /\ follows => model.fromDraw \/ (tickBase.tick = tick /\ tickBase.at # mem.base)
        /\ setting.outcomes = {"blended"} /\ inTick /\ ~viewed /\ viewed' /\ model.tick + 1 = tick =>
             mem'.joint = (IF model.fromDraw THEN mem.base ELSE Mid(model.base, mem.base))
        /\ inDraw /\ enabled => viewed'
        /\ UNCHANGED <<setting, enabled, inTick, inDraw, inMidPaint, tick, camera, shape, wave,
                        waveBack, fade, fadeBack, gate, call, pc, executed, ticks, switches,
                        world, actor, shown>>
    <2>1. /\ mem \in [Things -> Values] /\ DOMAIN mem = Things /\ mem.joint \in Values
          /\ mem.base \in Values /\ mem.base \in Nat
      BY ValuesAreNatural DEF IInv, Types, Things
    <2>2. /\ model.tick + 1 = tick => model.base \in Values /\ model.base \in Nat
          /\ model.fromDraw \in BOOLEAN
      <3>1. CASE model = NoModel
        BY <3>1 DEF IInv, Counts, NoModel
      <3>2. CASE model \in [tick : Nat, base : Values, joint : Values, fromDraw : BOOLEAN]
        BY <3>2, ValuesAreNatural
      <3> QED BY <3>1, <3>2 DEF IInv, Types
    <2>3. ~viewed => mem.joint = mem.base /\ model.joint = model.base
      BY DEF IInv, Restorable, Own, Rigid
    <2> DEFINE joint == IF model.fromDraw THEN mem.base ELSE Mid(model.base, mem.base)
    <2>4. ~viewed /\ Continues(model) => BlendedJoint = joint /\ joint \in Values
      <3>1. ~viewed /\ Continues(model) =>
              model.joint - model.base = 0 /\ mem.joint - mem.base = 0 /\ Mid(0, 0) = 0
              /\ joint \in Values /\ joint \in Nat
        <4>1. ~viewed /\ Continues(model) =>
                model.joint - model.base = 0 /\ mem.joint - mem.base = 0
          BY <2>1, <2>2, <2>3 DEF Continues
        <4>2. Mid(0, 0) = 0
          BY DEF Mid
        <4>3. ~viewed /\ Continues(model) => joint \in Values
          BY <2>1, <2>2, MidIsBetween DEF Continues
        <4> HIDE DEF joint
        <4> QED BY <4>1, <4>2, <4>3, ValuesAreNatural
      <3> QED BY <3>1 DEF BlendedJoint
    <2>5. viewed \in BOOLEAN
      BY DEF IInv, Types
    <2>6. /\ drawn' = [drawn EXCEPT !.joint = mem'.joint]
          /\ viewed' \in BOOLEAN /\ (viewed => viewed') /\ (inDraw /\ enabled => viewed')
          /\ tickBase' = tickBase \/ (inTick /\ tickBase' = [tick |-> tick, at |-> mem.base])
          /\ model' = model \/ (~inTick /\ ~viewed /\ RecordModel)
      <3>1. CASE FirstView
        BY <2>5, <3>1 DEF ModelView, FirstView, Leave
      <3>2. CASE ~FirstView
        BY <2>5, <3>2 DEF ModelView, FirstView
      <3> QED BY <3>1, <3>2
    <2>7. RecordModel =>
            \E follows \in BOOLEAN :
              /\ model' = [tick |-> tick, base |-> mem.base, joint |-> mem.joint,
                           fromDraw |-> follows]
              /\ follows => model.fromDraw \/ (tickBase.tick = tick /\ tickBase.at # mem.base)
      BY <2>2 DEF RecordModel
    <2>8. CASE inTick /\ FirstView /\ o = "blended" /\ Continues(model)
      <3>1. /\ mem' = [t \in DOMAIN mem |-> IF t \in {"joint"}
                         THEN [x \in {"joint"} |-> BlendedJoint][t] ELSE mem[t]]
            /\ restores' = Append(restores, [t \in {"joint"} |-> mem[t]]) /\ viewed'
        BY <2>8 DEF ModelView, Blend
      <3>2. \A t \in Things :
              (IF t \in {"joint"} THEN [x \in {"joint"} |-> BlendedJoint][t] ELSE mem[t])
                = IF t = "joint" THEN BlendedJoint ELSE mem[t]
        OBVIOUS
      <3>3. mem' = [t \in Things |-> IF t = "joint" THEN BlendedJoint ELSE mem[t]]
        BY <2>1, <3>1, <3>2
      <3>4. BlendedJoint = joint /\ joint \in Values
        BY <2>4, <2>8 DEF FirstView
      <3> HIDE DEF joint
      <3>5. /\ mem' \in [Things -> Values] /\ mem'.joint = joint
            /\ mem'.camera = mem.camera /\ mem'.old = mem.old /\ mem'.pos = mem.pos
            /\ mem'.angle = mem.angle /\ mem'.base = mem.base /\ mem'.wave = mem.wave
            /\ mem'.fade = mem.fade
        BY <2>1, <3>3, <3>4 DEF Things
      <3>6. drawn' \in [{"camera", "pos", "angle", "joint"} -> Values \cup {Nothing}]
            /\ drawn'.camera = drawn.camera /\ drawn'.pos = drawn.pos
            /\ drawn'.angle = drawn.angle /\ drawn'.joint = mem'.joint
        BY <2>6, <3>4, <3>5 DEF IInv, Types
      <3> USE DEF joint
      <3> QED BY <2>6, <2>7, <2>8, <3>1, <3>5, <3>6
              DEF ModelView, FirstView, Continues, draw, seen, paint, title
    <2>9. CASE ~(inTick /\ FirstView /\ o = "blended" /\ Continues(model))
      <3>1. mem' = mem /\ restores' = restores
        BY <2>9 DEF ModelView, Leave
      <3>2. drawn' \in [{"camera", "pos", "angle", "joint"} -> Values \cup {Nothing}]
            /\ drawn'.camera = drawn.camera /\ drawn'.pos = drawn.pos
            /\ drawn'.angle = drawn.angle /\ drawn'.joint = mem'.joint
        BY <2>1, <2>6, <3>1 DEF IInv, Types
      <3>3. ~(setting.outcomes = {"blended"} /\ inTick /\ ~viewed /\ viewed'
              /\ model.tick + 1 = tick)
        BY <2>9 DEF ModelView, FirstView, Continues
      <3> QED BY <2>1, <2>6, <2>7, <3>1, <3>2, <3>3
              DEF IInv, Types, ModelView, draw, seen, paint, title
    <2> QED BY <2>8, <2>9
  <1>2. /\ restores' \in Seq(Changes)
        /\ Len(restores') <= (IF viewed' THEN 3 ELSE 2)
        /\ ~viewed' => ~Changed("joint")'
        /\ \A i \in 1..Len(restores') : \A t \in DOMAIN restores'[i] :
             restores'[i][t] = Own(t)'
        /\ \A t \in {"camera", "pos", "angle", "joint"} : mem'[t] = Own(t)' \/ Changed(t)'
        /\ ~inTick => restores' = <<>>
    <2>1. /\ restores \in Seq(Changes) /\ Len(restores) \in Nat
          /\ Len(restores) <= (IF viewed THEN 3 ELSE 2)
          /\ ~viewed => ~Changed("joint")
          /\ ~inTick => restores = <<>>
      BY <1>1, LenProperties DEF IInv, Restorable, Types
    <2>2. \A t \in {"camera", "pos", "angle", "joint"} : Own(t)' = Own(t)
      BY <1>1 DEF Own
    <2>3. \A t \in {"camera", "pos", "angle"} : mem'[t] = mem[t]
      BY <1>1
    <2>4. CASE mem'.joint = mem.joint /\ restores' = restores
      <3>1. \A t \in {"camera", "pos", "angle", "joint"} : Changed(t)' <=> Changed(t)
        BY <2>4 DEF Changed
      <3>2. \A t \in {"camera", "pos", "angle", "joint"} : mem'[t] = Own(t)' \/ Changed(t)'
        BY <2>2, <2>3, <2>4, <3>1 DEF IInv, Restorable
      <3>3. ASSUME NEW i \in 1..Len(restores), NEW t \in DOMAIN restores[i]
            PROVE  restores[i][t] = Own(t)'
        <4>1. t \in {"camera", "pos", "angle", "joint"} /\ restores[i][t] = Own(t)
          BY ChangeIs DEF IInv, Restorable
        <4> QED BY <2>2, <4>1
      <3> QED BY <1>1, <2>1, <2>4, <3>1, <3>2, <3>3
    <2>5. CASE inTick /\ ~viewed /\ viewed'
               /\ restores' = Append(restores, [t \in {"joint"} |-> mem[t]])
      <3> DEFINE change == [t \in {"joint"} |-> mem[t]]
      <3>1. /\ change \in Changes /\ DOMAIN change = {"joint"}
        <4>1. change \in [{"joint"} -> Values]
          BY Typed DEF IInv, Things
        <4> QED BY <4>1 DEF Changes
      <3>2. \A t \in DOMAIN change : change[t] = Own(t)'
        BY <2>1, <2>2, <2>5 DEF IInv, Restorable
      <3>3. restores' = Append(restores, change)
        BY <2>5
      <3> HIDE DEF change
      <3>4. \A t \in {"camera", "pos", "angle", "joint"} :
              mem'[t] = Own(t)' \/ Changed(t) \/ t \in DOMAIN change
        BY <2>2, <2>3, <3>1 DEF IInv, Restorable
      <3>5. \A t \in {"camera", "pos", "angle", "joint"} : Changed(t) => Own(t)' = Own(t)
        BY <2>2
      <3>6. /\ restores' \in Seq(Changes) /\ Len(restores') = Len(restores) + 1
            /\ \A i \in 1..Len(restores') : \A t \in DOMAIN restores'[i] :
                 restores'[i][t] = Own(t)'
            /\ \A t \in {"camera", "pos", "angle", "joint"} : mem'[t] = Own(t)' \/ Changed(t)'
        BY <3>1, <3>2, <3>3, <3>4, <3>5, KeptToPutBack DEF IInv
      <3> QED BY <2>1, <2>5, <3>6
    <2> QED BY <1>1, <2>4, <2>5
  <1>3. /\ tickBase' \in Entries /\ tickBase'.tick <= tick
        /\ model' \in {NoModel} \cup [tick : Nat, base : Values, joint : Values, fromDraw : BOOLEAN]
        /\ model'.tick <= tick /\ model'.base = model'.joint
    <2>1. [tick |-> tick, at |-> mem.base] \in Entries
      BY Typed DEF IInv, Counts, Entries, Things
    <2>2. ~viewed => mem.joint = mem.base
      BY DEF IInv, Restorable, Own
    <2>3. tick \in Nat /\ mem.base \in Values /\ mem.joint \in Values
      BY Typed DEF IInv, Counts, Things
    <2> QED BY <1>1, <2>1, <2>2, <2>3 DEF IInv, Types, Counts, Rigid
  <1>4. setting.base = "draw" /\ ~inTick => mem.base = actor.now
    BY <1>1 DEF IInv, Owned, Drawn, Drawing
  <1>5. /\ setting.base \in {"execute", "draw"}
        /\ setting.base = "execute" => mem.base = actor.now
        /\ setting.switches = {} =>
             /\ enabled
             /\ model.fromDraw => setting.base = "draw"
             /\ inTick /\ model.tick + 1 = tick => model.base = actor.was
        /\ mem.base \in Values /\ actor.was \in Values
    BY <1>1, Typed DEF IInv, Owned, Remembered, Remembers, Steady, Things
  <1>6. Types'
    BY <1>1, <1>2, <1>3 DEF IInv, Types, Pcs
  <1>7. Counts'
    BY <1>1, <1>3 DEF IInv, Counts
  <1>8. Phases'
    BY <1>1, <1>2, <1>3, <1>4, <1>5 DEF IInv, Phases, Types, Drawing
  <1>9. Restorable'
    BY <1>1, <1>2 DEF IInv, Restorable
  <1>10. Owned'
    BY <1>1, <1>2, <1>3, <1>4, <1>5
       DEF IInv, Owned, OwnFade, OwnWave, Unstepped, Drawing, Phases
  <1>11. Drawn'
    <2>1. ~inTick /\ setting.base = "execute" => mem'.joint = actor.now
      <3>1. ~inTick => restores = <<>>
        BY <1>1 DEF IInv, Restorable
      <3> QED BY <1>1, <1>5, <3>1, NothingChanged DEF IInv
    <2>2. call = "skip" => ~inTick
      BY DEF IInv, Phases
    <2> QED BY <1>1, <2>1, <2>2 DEF IInv, Drawn, Drawing, InBetween
  <1>12. Steady'
    <2>1. tickBase' = Never \/ gate.in \/ setting.switches # {}
      BY <1>1 DEF IInv, Steady
    <2> QED BY <1>1, <2>1 DEF IInv, Steady, Drawing, Phases
  <1>13. Remembered'
    <2>1. CASE ~(setting.switches = {} /\ gate.in)
      BY <1>1, <1>5, <2>1, Typed DEF IInv, Remembered, Steady, Counts, Never
    <2>2. CASE setting.switches = {} /\ gate.in
      BY <1>1, <1>4, <1>5, <2>2, Typed DEF IInv, Remembered, Remembers, Counts
    <2> QED BY <2>1, <2>2
  <1>14. Between'
    BY <1>1, <1>5 DEF IInv, Between, InBetween, Drawing
  <1>15. Rigid'
    BY <1>3 DEF Rigid
  <1>16. FadeSeen'
    BY <1>1, <1>2, <1>3, <1>4, <1>5, Typed
       DEF IInv, FadeSeen, EveryFaderIsSeen, Unstepped, InBetween, Drawing, Phases, Counts,
           Types
  <1>17. Whole'
    BY <1>1, <1>2, <1>3, <1>4, <1>5, Typed
       DEF IInv, Whole, NothingInTheWay, Half, Phases, Counts, Types
  <1>18. Stands'
    <2>1. inDraw
      BY <1>1 DEF IInv, Phases, Drawing
    <2> QED BY <1>1, <1>5, <2>1 DEF IInv, Stands, Half, Continues
  <1> QED BY <1>6, <1>7, <1>8, <1>9, <1>10, <1>11, <1>12, <1>13, <1>14, <1>15, <1>16, <1>17,
             <1>18 DEF IInv

\* A plain draw phase closes: the poses of models it did not see are forgotten.
LEMMA AfterPlainDrawKeeps ==
  ASSUME IInv, AfterPlainDraw, setting' = setting
  PROVE  IInv'
  <1>1. /\ pc \in {"models", "after"} /\ pc' = "post" /\ ~inTick /\ inDraw' = FALSE
        /\ model' = (IF model.tick < tick THEN NoModel ELSE model)
        /\ tickBase' = (IF tickBase.tick < tick THEN Never ELSE tickBase)
        /\ UNCHANGED <<setting, enabled, inTick, inMidPaint, tick, camera, shape, viewed,
                        restores, wave, waveBack, fade, fadeBack, gate, call, mem, executed,
                        ticks, switches, world, actor, drawn, shown>>
    BY DEF IInv, Types, AfterPlainDraw, Kept, draw, seen, paint, title
  <1>2. Types'
    <2>1. model' = NoModel \/ model' = model
      BY <1>1
    <2>2. tickBase' \in Entries
      BY <1>1 DEF IInv, Types, Entries
    <2> QED BY <1>1, <2>1, <2>2 DEF IInv, Types, Pcs
  <1>3. Counts'
    BY <1>1, Typed DEF IInv, Counts, Types, Never, NoModel
  <1>4. Phases'
    BY <1>1 DEF IInv, Phases, Types, Drawing
  <1>5. Restorable'
    BY <1>1 DEF IInv, Restorable, Own, Changed, Phases
  <1>6. Owned'
    BY <1>1 DEF IInv, Owned, OwnFade, OwnWave, Unstepped, Drawing, Phases
  <1>7. Drawn'
    BY <1>1 DEF IInv, Drawn, Drawing, InBetween, Phases
  <1>8. Steady'
    BY <1>1, Typed DEF IInv, Steady, Drawing, Phases, Counts, Types
  <1>9. Remembered'
    <2>1. \/ model'.tick = -2 /\ model'.fromDraw = FALSE
          \/ model' = model
      BY <1>1 DEF NoModel
    <2>2. tickBase' = Never \/ tickBase' = tickBase
      BY <1>1
    <2> QED BY <1>1, <2>1, <2>2, Typed DEF IInv, Remembered, Remembers, Never, Counts
  <1>10. Between'
    BY <1>1, Typed DEF IInv, Between, InBetween, Drawing, Phases, Types
  <1>11. Rigid'
    BY <1>1 DEF IInv, Rigid, NoModel
  <1>12. FadeSeen'
    BY <1>1, Typed
       DEF IInv, FadeSeen, EveryFaderIsSeen, Unstepped, InBetween, Drawing, Phases, Counts,
           Types
  <1>13. Whole'
    <2>1. waveBack = Nothing
      BY <1>1 DEF IInv, Phases, Drawing
    <2>2. setting.switches = {} => mem.wave = world.now
      BY <2>1 DEF IInv, Owned, OwnWave
    <2>3. setting.switches = {} /\ gate.in => call = "skip"
      BY <1>1 DEF IInv, Steady, Types, Drawing
    <2> QED BY <1>1, <2>2, <2>3, Typed
               DEF IInv, Whole, NothingInTheWay, Half, Phases, Counts, Types
  <1>14. Stands'
    BY <1>1 DEF IInv, Stands, Continues, Half, Phases
  <1> QED BY <1>2, <1>3, <1>4, <1>5, <1>6, <1>7, <1>8, <1>9, <1>10, <1>11, <1>12, <1>13, <1>14
             DEF IInv

\* The tick's own values are back when the in-between paint opens.
LEMMA AfterTickDrawKeeps ==
  ASSUME IInv, NEW o \in setting.outcomes, AfterTickDraw(o), setting' = setting
  PROVE  IInv'
  <1>1. /\ pc \in {"models", "after"} /\ pc' = "post" /\ inTick
        /\ inDraw' = FALSE /\ inTick' = FALSE /\ inMidPaint' = TRUE /\ restores' = <<>>
        /\ shape' = (IF shape.tick < tick THEN Never ELSE shape)
        /\ camera' = (IF camera.tick < tick THEN Never ELSE camera)
        /\ mem' \in [Things -> Values] /\ mem'.camera = world.now /\ mem'.pos = actor.now
        /\ mem'.angle = actor.now /\ mem'.joint = mem.base
        /\ mem'.old = mem.old /\ mem'.base = mem.base /\ mem'.fade = mem.fade
        /\ wave' = wave \/ wave' = [tick |-> tick, at |-> mem.wave]
        /\ setting.outcomes = {"blended"} => wave' = [tick |-> tick, at |-> mem.wave]
        /\ waveBack' \in Values \cup {Nothing}
        /\ mem.wave = (IF waveBack' = Nothing THEN mem'.wave ELSE waveBack')
        /\ setting.outcomes = {"blended"} /\ wave.tick + 1 = tick => mem'.wave = Mid(wave.at, mem.wave)
        /\ UNCHANGED <<setting, enabled, tick, model, tickBase, viewed, fade, fadeBack, gate,
                        call, executed, ticks, switches, world, actor, drawn, shown>>
    <2> DEFINE own == PutBack(restores, mem)
               blends == o = "blended" /\ Continues(wave)
               mid == IF blends THEN Mid(wave.at, own.wave) ELSE own.wave
    <2>1. /\ own \in [Things -> Values]
          /\ own["camera"] = world.now /\ own["pos"] = actor.now /\ own["angle"] = actor.now
          /\ own["joint"] = mem.base /\ own["old"] = mem.old /\ own["base"] = mem.base
          /\ own["fade"] = mem.fade /\ own["wave"] = mem.wave
      BY PutBackOwn DEF IInv, Own
    <2>2. wave.tick + 1 = tick => wave.at \in Values
      BY DEF IInv, Types, Counts, Entries, Never
    <2>3. mem.wave \in Values
      BY Typed DEF IInv, Things
    <2>4. waveBack = Nothing
      BY DEF AfterTickDraw, IInv, Phases, Drawing
    <2>5. /\ mid \in Values
          /\ blends => mid = Mid(wave.at, mem.wave)
          /\ ~blends => mid = mem.wave
      BY <2>1, <2>2, <2>3, MidIsBetween DEF Continues
    <2>6. /\ pc \in {"models", "after"} /\ inTick /\ pc' = "post"
          /\ mem' = [own EXCEPT !.wave = mid]
          /\ waveBack' = IF mid = own.wave THEN waveBack ELSE own.wave
          /\ wave' = IF o = "unreadable" THEN wave ELSE [tick |-> tick, at |-> own.wave]
      BY DEF AfterTickDraw
    <2>7. setting.outcomes = {"blended"} => o = "blended"
      OBVIOUS
    <2>8. blends <=> o = "blended" /\ wave.tick + 1 = tick
      BY DEF Continues
    <2> HIDE DEF own, blends, mid
    <2>9. /\ mem' \in [Things -> Values] /\ mem'.wave = mid /\ mem'.camera = world.now
          /\ mem'.pos = actor.now /\ mem'.angle = actor.now /\ mem'.joint = mem.base
          /\ mem'.old = mem.old /\ mem'.base = mem.base /\ mem'.fade = mem.fade
      BY <2>1, <2>5, <2>6 DEF Things
    <2>10. /\ waveBack' \in Values \cup {Nothing}
           /\ mem.wave = (IF waveBack' = Nothing THEN mid ELSE waveBack')
      BY <2>1, <2>3, <2>4, <2>6, ValuesAreNatural
    <2>11. /\ wave' = wave \/ wave' = [tick |-> tick, at |-> mem.wave]
           /\ setting.outcomes = {"blended"} => wave' = [tick |-> tick, at |-> mem.wave]
      BY <2>1, <2>6, <2>7
    <2>12. setting.outcomes = {"blended"} /\ wave.tick + 1 = tick => mid = Mid(wave.at, mem.wave)
      BY <2>5, <2>7, <2>8
    <2> QED BY <2>6, <2>9, <2>10, <2>11, <2>12
               DEF AfterTickDraw, Kept, draw, seen, paint, title
  <1>2. wave' \in Entries /\ wave'.tick <= tick
    <2>1. [tick |-> tick, at |-> mem.wave] \in Entries
      BY Typed DEF IInv, Counts, Entries, Things
    <2>2. tick \in Nat
      BY DEF IInv, Counts
    <2> QED BY <1>1, <2>1, <2>2 DEF IInv, Types, Counts
  <1>3. /\ call = "tick"
        /\ fadeBack = Nothing /\ waveBack = Nothing
        /\ "logic" \notin setting.switches => mem.wave = world.now
    BY <1>1 DEF IInv, Phases, Drawing, Owned, OwnWave, Types
  <1>4. setting.switches = {} /\ gate.in /\ wave.tick + 1 = tick => wave.at = world.was
    BY <1>1 DEF IInv, Remembered, Remembers
  <1>5. Types'
    <2>1. camera' \in Entries /\ shape' \in Entries
      BY <1>1 DEF IInv, Types, Entries
    <2>2. restores' \in Seq(Changes)
      BY <1>1
    <2> QED BY <1>1, <1>2, <2>1, <2>2 DEF IInv, Types, Pcs
  <1>6. Counts'
    BY <1>1, <1>2, Typed DEF IInv, Counts, Never
  <1>7. Phases'
    BY <1>1, <1>2, <1>3, <1>4 DEF IInv, Phases, Types, Drawing
  <1>8. Restorable'
    <2>1. Len(restores') = 0
      BY <1>1, EmptySeq
    <2> QED BY <1>1, <2>1 DEF IInv, Restorable, Own, Changed
  <1>9. Owned'
    BY <1>1, <1>2, <1>3, <1>4 DEF IInv, Owned, OwnFade, OwnWave, Unstepped, Drawing, Phases
  <1>10. Drawn'
    BY <1>1, <1>2, <1>3, <1>4 DEF IInv, Drawn, Drawing, InBetween, Phases
  <1>11. Steady'
    BY <1>1, <1>2, <1>3, <1>4, Typed DEF IInv, Steady, Drawing, Phases, Counts, Types
  <1>12. Remembered'
    <2>1. camera' = Never \/ camera' = camera
      BY <1>1
    <2>2. shape' = Never \/ shape' = shape
      BY <1>1
    <2> QED BY <1>1, <1>3, <2>1, <2>2, Typed DEF IInv, Remembered, Remembers, Never, Counts
  <1>13. Between'
    BY <1>1, <1>2, <1>3, <1>4, Typed DEF IInv, Between, InBetween, Drawing, Phases, Types
  <1>14. Rigid'
    BY <1>1, <1>2, <1>3, <1>4 DEF IInv, Rigid
  <1>15. FadeSeen'
    BY <1>1, <1>2, <1>3, <1>4, Typed
       DEF IInv, FadeSeen, EveryFaderIsSeen, Unstepped, InBetween, Drawing, Phases, Counts,
           Types
  <1>16. Whole'
    <2>1. setting.switches = {} => enabled
      BY DEF IInv, Steady
    <2> QED BY <1>1, <1>3, <1>4, <2>1, Typed
               DEF IInv, Whole, NothingInTheWay, Half, Phases, Counts, Types
  <1>17. Stands'
    BY <1>1, <1>2, <1>3, <1>4 DEF IInv, Stands, Continues, Half, Phases
  <1> QED BY <1>5, <1>6, <1>7, <1>8, <1>9, <1>10, <1>11, <1>12, <1>13, <1>14, <1>15, <1>16,
             <1>17 DEF IInv

-----------------------------------------------------------------------------
(* The rest of the call and the paint, and the requests.                    *)


\* The tick's fade steps before the paint shows it.
LEMMA StepFadeKeeps ==
  ASSUME IInv, StepFade, setting' = setting
  PROVE  IInv'
  <1>1. /\ pc = "post" /\ pc' = "paint" /\ mem' \in [Things -> Values]
        /\ mem'.camera = mem.camera /\ mem'.old = mem.old /\ mem'.pos = mem.pos
        /\ mem'.angle = mem.angle /\ mem'.base = mem.base /\ mem'.joint = mem.joint
        /\ mem'.wave = mem.wave
        /\ mem'.fade = (IF call = "tick" THEN world.now ELSE mem.fade)
        /\ shown' \in [{"wave", "fade"} -> Values \cup {Nothing}]
        /\ shown'.wave = mem.wave /\ shown'.fade = Nothing
        /\ UNCHANGED <<setting, enabled, inTick, inDraw, inMidPaint, tick, camera, shape,
                        model, tickBase, viewed, restores, wave, waveBack, fade, fadeBack,
                        gate, call, executed, ticks, switches, world, actor, drawn>>
    <2>1. world.now \in Values /\ mem.wave \in Values /\ mem \in [Things -> Values]
      BY Typed DEF IInv, Types, Things
    <2>2. /\ mem' = IF call = "tick" THEN [mem EXCEPT !.fade = world.now] ELSE mem
          /\ shown' = [wave |-> mem.wave, fade |-> Nothing]
      BY DEF StepFade
    <2>3. /\ mem' \in [Things -> Values]
          /\ mem'.camera = mem.camera /\ mem'.old = mem.old /\ mem'.pos = mem.pos
          /\ mem'.angle = mem.angle /\ mem'.base = mem.base /\ mem'.joint = mem.joint
          /\ mem'.wave = mem.wave
          /\ mem'.fade = (IF call = "tick" THEN world.now ELSE mem.fade)
      BY <2>1, <2>2 DEF Things
    <2>4. /\ shown' \in [{"wave", "fade"} -> Values \cup {Nothing}]
          /\ shown'.wave = mem.wave /\ shown'.fade = Nothing
      BY <2>1, <2>2
    <2> QED BY <2>3, <2>4 DEF StepFade, draw, seen, paint, title
  <1>2. Types'
    BY <1>1 DEF IInv, Types, Pcs, Moves, Entries, Things
  <1>3. Counts'
    BY <1>1, Typed DEF IInv, Counts, Types, Never, NoModel
  <1>4. Phases'
    BY <1>1 DEF IInv, Phases, Types, Drawing
  <1>5. Restorable'
    BY <1>1 DEF IInv, Restorable, Own, Changed
  <1>6. Owned'
    BY <1>1 DEF IInv, Owned, OwnFade, OwnWave, Unstepped, Drawing, Phases
  <1>7. Drawn'
    BY <1>1 DEF IInv, Drawn, Drawing, InBetween, Phases
  <1>8. Steady'
    BY <1>1, Typed DEF IInv, Steady, Drawing, Phases, Counts, Types
  <1>9. Remembered'
    BY <1>1, Typed DEF IInv, Remembered, Remembers, Steady, Phases, Counts, Types
  <1>10. Between'
    BY <1>1, Typed DEF IInv, Between, InBetween, Drawing, Phases, Types
  <1>11. Rigid'
    BY <1>1 DEF IInv, Rigid
  <1>12. FadeSeen'
    BY <1>1, Typed
       DEF IInv, FadeSeen, EveryFaderIsSeen, Unstepped, InBetween, Drawing, Phases, Counts,
           Types
  <1>13. Whole'
    BY <1>1, Typed DEF IInv, Whole, NothingInTheWay, Half, Phases, Counts, Types
  <1>14. Stands'
    BY <1>1 DEF IInv, Stands, Continues, Half, Phases
  <1> QED BY <1>2, <1>3, <1>4, <1>5, <1>6, <1>7, <1>8, <1>9, <1>10, <1>11, <1>12, <1>13, <1>14
             DEF IInv

\* The in-between paint alone shows the fade halfway, from what the last plain one showed.
LEMMA FaderDrawKeeps ==
  ASSUME IInv, NEW o \in setting.outcomes, FaderDraw(o), setting' = setting
  PROVE  IInv'
  <1>1. /\ pc = "paint" /\ mem' \in [Things -> Values]
        /\ mem'.camera = mem.camera /\ mem'.old = mem.old /\ mem'.pos = mem.pos
        /\ mem'.angle = mem.angle /\ mem'.base = mem.base /\ mem'.joint = mem.joint
        /\ mem'.wave = mem.wave
        /\ shown' \in [{"wave", "fade"} -> Values \cup {Nothing}]
        /\ shown'.wave = shown.wave /\ shown'.fade = mem'.fade
        /\ fadeBack' \in Values \cup {Nothing}
        /\ fade' = fade \/ (~inMidPaint /\ fade' = [tick |-> tick, at |-> mem.fade])
        /\ ~inMidPaint /\ "unreadable" \notin setting.outcomes =>
             fade' = [tick |-> tick, at |-> mem.fade]
        /\ \/ mem'.fade = mem.fade /\ fadeBack' = fadeBack
           \/ /\ inMidPaint /\ fadeBack = Nothing /\ fade.tick + 1 = tick
              /\ mem'.fade = Mid(fade.at, mem.fade) /\ fadeBack' = mem.fade
        /\ UNCHANGED <<setting, enabled, inTick, inDraw, inMidPaint, tick, camera, shape,
                        model, tickBase, viewed, restores, wave, waveBack, gate, call, pc,
                        executed, ticks, switches, world, actor, drawn>>
    <2>1. mem.fade \in Values /\ mem \in [Things -> Values]
      BY Typed DEF IInv, Types, Things
    <2>2. fade.tick + 1 = tick => fade.at \in Values
      BY DEF IInv, Types, Counts, Entries, Never
    <2>3. /\ pc = "paint" /\ shown' = [shown EXCEPT !.fade = mem'.fade]
          /\ fade' = IF ~inMidPaint /\ o # "unreadable" THEN [tick |-> tick, at |-> mem.fade]
                     ELSE fade
      BY DEF FaderDraw
    <2>4. /\ fade' = fade \/ (~inMidPaint /\ fade' = [tick |-> tick, at |-> mem.fade])
          /\ ~inMidPaint /\ "unreadable" \notin setting.outcomes =>
               fade' = [tick |-> tick, at |-> mem.fade]
      BY <2>3
    <2>5. CASE FaderBlends(o)
      <3>1. Mid(fade.at, mem.fade) \in Values
        BY <2>1, <2>2, <2>5, MidIsBetween DEF FaderBlends, Continues
      <3>2. mem' = [mem EXCEPT !.fade = Mid(fade.at, mem.fade)] /\ fadeBack' = mem.fade
        BY <2>5 DEF FaderDraw
      <3>3. /\ mem' \in [Things -> Values]
            /\ mem'.camera = mem.camera /\ mem'.old = mem.old /\ mem'.pos = mem.pos
            /\ mem'.angle = mem.angle /\ mem'.base = mem.base /\ mem'.joint = mem.joint
            /\ mem'.wave = mem.wave /\ mem'.fade = Mid(fade.at, mem.fade)
        BY <2>1, <3>1, <3>2 DEF Things
      <3>4. /\ shown' \in [{"wave", "fade"} -> Values \cup {Nothing}]
            /\ shown'.wave = shown.wave /\ shown'.fade = mem'.fade
        BY <2>3, <3>1, <3>3 DEF IInv, Types
      <3> QED BY <2>1, <2>3, <2>4, <2>5, <3>2, <3>3, <3>4
              DEF FaderDraw, FaderBlends, Continues, draw, seen, title
    <2>6. CASE ~FaderBlends(o)
      <3>1. mem' = mem /\ fadeBack' = fadeBack
        BY <2>6 DEF FaderDraw
      <3>2. /\ shown' \in [{"wave", "fade"} -> Values \cup {Nothing}]
            /\ shown'.wave = shown.wave /\ shown'.fade = mem'.fade
        BY <2>1, <2>3, <3>1 DEF IInv, Types
      <3> QED BY <2>1, <2>3, <2>4, <3>1, <3>2 DEF IInv, Types, FaderDraw, draw, seen, title
    <2> QED BY <2>5, <2>6
  <1>2. fade' \in Entries
    <2>1. [tick |-> tick, at |-> mem.fade] \in Entries
      BY Typed DEF IInv, Counts, Entries, Things
    <2> QED BY <1>1, <2>1 DEF IInv, Types
  <1>3. /\ mem.fade \in Values /\ mem.fade # Nothing
        /\ fadeBack = Nothing => mem.fade = world.now
        /\ ~inMidPaint => fadeBack = Nothing
    BY <1>1, Typed, ValuesAreNatural
       DEF IInv, Owned, OwnFade, Unstepped, Drawing, Phases, Things
  <1>4. Types'
    BY <1>1, <1>2 DEF IInv, Types, Pcs
  <1>5. Counts'
    BY <1>1, <1>2, <1>3, Typed DEF IInv, Counts, Types, Never, NoModel
  <1>6. Phases'
    BY <1>1, <1>2, <1>3 DEF IInv, Phases, Types, Drawing
  <1>7. Restorable'
    BY <1>1 DEF IInv, Restorable, Own, Changed
  <1>8. Owned'
    BY <1>1, <1>2, <1>3 DEF IInv, Owned, OwnFade, OwnWave, Unstepped, Drawing, Phases
  <1>9. Drawn'
    BY <1>1, <1>2, <1>3 DEF IInv, Drawn, Drawing, InBetween, Phases
  <1>10. Steady'
    BY <1>1, <1>2, <1>3, Typed DEF IInv, Steady, Drawing, Phases, Counts, Types
  <1>11. Remembered'
    BY <1>1, <1>2, <1>3, Typed DEF IInv, Remembered, Remembers, Steady, Phases, Counts, Types
  <1>12. Between'
    BY <1>1, <1>2, <1>3, Typed DEF IInv, Between, InBetween, Drawing, Phases, Types
  <1>13. Rigid'
    BY <1>1, <1>2, <1>3 DEF IInv, Rigid
  <1>14. FadeSeen'
    <2>1. mem'.fade # Nothing
      BY <1>1, ValuesAreNatural DEF Things
    <2>2. setting.switches = {} => /\ inMidPaint => gate.in
                                   /\ gate.in /\ ~inMidPaint => call = "skip"
      BY <1>1 DEF IInv, Steady, Types
    <2>3. CASE inMidPaint
      BY <1>1, <1>3, <2>1, <2>2, <2>3, Typed DEF IInv, FadeSeen, InBetween, EveryFaderIsSeen
    <2>4. CASE ~inMidPaint /\ fade' = fade
      BY <1>1, <1>3, <2>1, <2>2, <2>4, Typed
         DEF IInv, FadeSeen, EveryFaderIsSeen, Unstepped, Drawing
    <2>5. CASE ~inMidPaint /\ fade' = [tick |-> tick, at |-> mem.fade]
      BY <1>1, <1>3, <2>1, <2>5, Typed DEF IInv, FadeSeen, Unstepped, Drawing, Phases, Counts
    <2> QED BY <1>1, <2>3, <2>4, <2>5
  <1>15. Whole'
    BY <1>1, <1>2, <1>3, Typed DEF IInv, Whole, NothingInTheWay, Half, Phases, Counts, Types
  <1>16. Stands'
    BY <1>1, <1>2, <1>3 DEF IInv, Stands, Continues, Half, Phases
  <1> QED BY <1>4, <1>5, <1>6, <1>7, <1>8, <1>9, <1>10, <1>11, <1>12, <1>13, <1>14, <1>15,
             <1>16 DEF IInv

\* A paint that drew the fader ends the call.
LEMMA EndPaintKeeps ==
  ASSUME IInv, EndPaint, setting' = setting
  PROVE  IInv'
  <1>1. /\ pc = "paint" /\ pc' = "call" /\ shown.fade # Nothing
        /\ UNCHANGED <<setting, enabled, inTick, inDraw, inMidPaint, tick, camera, shape,
                        model, tickBase, viewed, restores, wave, waveBack, fade, fadeBack,
                        gate, call, mem, executed, ticks, switches, world, actor, drawn, shown>>
    BY DEF IInv, Types, EndPaint, draw, seen, paint, title
  <1>2. Types'
    BY <1>1 DEF IInv, Types, Pcs, Moves, Entries, Things
  <1>3. Counts'
    BY <1>1, Typed DEF IInv, Counts, Types, Never, NoModel
  <1>4. Phases'
    BY <1>1 DEF IInv, Phases, Types, Drawing
  <1>5. Restorable'
    BY <1>1 DEF IInv, Restorable, Own, Changed, Phases
  <1>6. Owned'
    BY <1>1 DEF IInv, Owned, OwnFade, OwnWave, Unstepped, Drawing, Phases
  <1>7. Drawn'
    BY <1>1 DEF IInv, Drawn, Drawing, InBetween, Phases
  <1>8. Steady'
    BY <1>1, Typed DEF IInv, Steady, Drawing, Phases, Counts, Types
  <1>9. Remembered'
    BY <1>1, Typed DEF IInv, Remembered, Remembers, Steady, Phases, Counts, Types
  <1>10. Between'
    BY <1>1, Typed DEF IInv, Between, InBetween, Drawing, Phases, Types
  <1>11. Rigid'
    BY <1>1 DEF IInv, Rigid
  <1>12. FadeSeen'
    BY <1>1, Typed
       DEF IInv, FadeSeen, EveryFaderIsSeen, Unstepped, InBetween, Drawing, Phases, Counts,
           Types
  <1>13. Whole'
    BY <1>1, Typed DEF IInv, Whole, NothingInTheWay, Half, Phases, Counts, Types
  <1>14. Stands'
    BY <1>1 DEF IInv, Stands, Continues, Half, Phases
  <1> QED BY <1>2, <1>3, <1>4, <1>5, <1>6, <1>7, <1>8, <1>9, <1>10, <1>11, <1>12, <1>13, <1>14
             DEF IInv

\* The in-between picture may be switched at any moment.
LEMMA SwitchInterpolationKeeps ==
  ASSUME IInv, SwitchInterpolation, setting' = setting
  PROVE  IInv'
  <1>1. /\ setting.switches # {} /\ enabled' \in BOOLEAN /\ switches' \in 0..MaxSwitches
        /\ UNCHANGED <<setting, inTick, inDraw, inMidPaint, tick, camera, shape, model,
                        tickBase, viewed, restores, wave, waveBack, fade, fadeBack, gate, call,
                        pc, mem, executed, ticks, world, actor, drawn, shown>>
    <2>1. switches' \in 0..MaxSwitches
      BY BoundsAreNatural DEF SwitchInterpolation, IInv, Counts
    <2> QED BY <2>1 DEF IInv, Types, SwitchInterpolation, draw, seen, paint, title
  <1>2. Types'
    BY <1>1 DEF IInv, Types, Pcs, Moves, Entries, Things
  <1>3. Counts'
    BY <1>1, Typed DEF IInv, Counts, Types, Never, NoModel
  <1>4. Phases'
    BY <1>1 DEF IInv, Phases, Types, Drawing
  <1>5. Restorable'
    BY <1>1 DEF IInv, Restorable, Own, Changed, Phases
  <1>6. Owned'
    BY <1>1 DEF IInv, Owned, OwnFade, OwnWave, Unstepped, Drawing, Phases
  <1>7. Drawn'
    BY <1>1 DEF IInv, Drawn, Drawing, InBetween, Phases
  <1>8. Steady'
    BY <1>1, Typed DEF IInv, Steady, Drawing, Phases, Counts, Types
  <1>9. Remembered'
    BY <1>1, Typed DEF IInv, Remembered, Remembers, Steady, Phases, Counts, Types
  <1>10. Between'
    BY <1>1, Typed DEF IInv, Between, InBetween, Drawing, Phases, Types
  <1>11. Rigid'
    BY <1>1 DEF IInv, Rigid
  <1>12. FadeSeen'
    BY <1>1, Typed
       DEF IInv, FadeSeen, EveryFaderIsSeen, Unstepped, InBetween, Drawing, Phases, Counts,
           Types
  <1>13. Whole'
    BY <1>1, Typed DEF IInv, Whole, NothingInTheWay, Half, Phases, Counts, Types
  <1>14. Stands'
    BY <1>1 DEF IInv, Stands, Continues, Half, Phases
  <1> QED BY <1>2, <1>3, <1>4, <1>5, <1>6, <1>7, <1>8, <1>9, <1>10, <1>11, <1>12, <1>13, <1>14
             DEF IInv

\* So may the gate.
LEMMA SwitchLogicKeeps ==
  ASSUME IInv, SwitchLogic, setting' = setting
  PROVE  IInv'
  <1>1. /\ "logic" \in setting.switches /\ setting.switches # {}
        /\ gate' \in [in : BOOLEAN, odd : BOOLEAN] /\ switches' \in 0..MaxSwitches
        /\ UNCHANGED <<setting, enabled, inTick, inDraw, inMidPaint, tick, camera, shape,
                        model, tickBase, viewed, restores, wave, waveBack, fade, fadeBack,
                        call, pc, mem, executed, ticks, world, actor, drawn, shown>>
    <2>1. switches' \in 0..MaxSwitches
      BY BoundsAreNatural DEF SwitchLogic, IInv, Counts
    <2> QED BY <2>1 DEF IInv, Types, SwitchLogic, draw, seen, paint, title
  <1>2. Types'
    BY <1>1 DEF IInv, Types, Pcs, Moves, Entries, Things
  <1>3. Counts'
    BY <1>1, Typed DEF IInv, Counts, Types, Never, NoModel
  <1>4. Phases'
    BY <1>1 DEF IInv, Phases, Types, Drawing
  <1>5. Restorable'
    BY <1>1 DEF IInv, Restorable, Own, Changed, Phases
  <1>6. Owned'
    BY <1>1 DEF IInv, Owned, OwnFade, OwnWave, Unstepped, Drawing, Phases
  <1>7. Drawn'
    BY <1>1 DEF IInv, Drawn, Drawing, InBetween, Phases
  <1>8. Steady'
    BY <1>1, Typed DEF IInv, Steady, Drawing, Phases, Counts, Types
  <1>9. Remembered'
    BY <1>1, Typed DEF IInv, Remembered, Remembers, Steady, Phases, Counts, Types
  <1>10. Between'
    BY <1>1, Typed DEF IInv, Between, InBetween, Drawing, Phases, Types
  <1>11. Rigid'
    BY <1>1 DEF IInv, Rigid
  <1>12. FadeSeen'
    BY <1>1, Typed
       DEF IInv, FadeSeen, EveryFaderIsSeen, Unstepped, InBetween, Drawing, Phases, Counts,
           Types
  <1>13. Whole'
    BY <1>1, Typed DEF IInv, Whole, NothingInTheWay, Half, Phases, Counts, Types
  <1>14. Stands'
    BY <1>1 DEF IInv, Stands, Continues, Half, Phases
  <1> QED BY <1>2, <1>3, <1>4, <1>5, <1>6, <1>7, <1>8, <1>9, <1>10, <1>11, <1>12, <1>13, <1>14
             DEF IInv
-----------------------------------------------------------------------------
(* The invariant, over every behaviour.                                     *)

\* It holds before the first call.
LEMMA InitHolds == Init => IInv
  <1> SUFFICES ASSUME Init PROVE IInv
    OBVIOUS
  <1>1. /\ setting \in Settings /\ gate \in [in : BOOLEAN, odd : {FALSE}]
        /\ enabled = TRUE /\ inTick = FALSE /\ inDraw = FALSE /\ inMidPaint = FALSE
        /\ tick = 0 /\ camera = Never /\ shape = Never /\ model = NoModel /\ tickBase = Never
        /\ viewed = FALSE /\ restores = <<>> /\ wave = Never /\ waveBack = Nothing
        /\ fade = Never /\ fadeBack = Nothing /\ call = "skip" /\ pc = "call"
        /\ executed = FALSE /\ ticks = 0 /\ switches = 0
        /\ mem = [t \in Things |-> Start]
        /\ world = [was |-> Start, now |-> Start] /\ actor = world
        /\ drawn = [t \in {"camera", "pos", "angle", "joint"} |-> Nothing]
        /\ shown = [t \in {"wave", "fade"} |-> Nothing]
    BY DEF Init, Things
  <1>2. Start \in Places /\ Start \in Values
    BY ValuesAreNatural
  <1>3. Types
    <2>1. mem \in [Things -> Values]
      BY <1>1, <1>2
    <2>2. world \in Moves /\ actor \in Moves
      BY <1>1, <1>2 DEF Moves
    <2>3. /\ drawn \in [{"camera", "pos", "angle", "joint"} -> Values \cup {Nothing}]
          /\ shown \in [{"wave", "fade"} -> Values \cup {Nothing}]
      BY <1>1
    <2>4. restores \in Seq(Changes)
      BY <1>1
    <2>5. /\ camera \in Entries /\ shape \in Entries /\ tickBase \in Entries
          /\ wave \in Entries /\ fade \in Entries
      BY <1>1 DEF Entries
    <2>6. gate \in [in : BOOLEAN, odd : BOOLEAN]
      BY <1>1
    <2> QED BY <1>1, <2>1, <2>2, <2>3, <2>4, <2>5, <2>6 DEF Types, Pcs
  <1>4. Counts
    BY <1>1, <1>3, Typed, BoundsAreNatural DEF Counts, Never, NoModel
  <1>5. Phases
    BY <1>1 DEF Phases, Drawing
  <1>6. mem.camera = Start /\ mem.pos = Start /\ mem.angle = Start /\ mem.joint = Start
        /\ mem.base = Start /\ mem.old = Start /\ mem.wave = Start /\ mem.fade = Start
        /\ world.was = Start /\ world.now = Start /\ actor.was = Start /\ actor.now = Start
    BY <1>1 DEF Things
  <1>7. Restorable
    <2>1. Len(restores) = 0
      BY <1>1, EmptySeq
    <2> QED BY <1>1, <1>6, <2>1 DEF Restorable, Own, Changed
  <1>8. Owned
    BY <1>1, <1>6 DEF Owned, OwnFade, OwnWave, Unstepped
  <1>9. Drawn
    BY <1>1 DEF Drawn, Drawing
  <1>10. Steady /\ Between /\ Rigid
    BY <1>1 DEF Steady, Between, Rigid, Drawing, NoModel
  <1>11. Remembered
    BY <1>1 DEF Remembered, Remembers, Never, NoModel
  <1>12. FadeSeen
    BY <1>1 DEF FadeSeen, Never
  <1>13. Whole /\ Stands
    BY <1>1 DEF Whole, Stands
  <1> QED BY <1>3, <1>4, <1>5, <1>7, <1>8, <1>9, <1>10, <1>11, <1>12, <1>13 DEF IInv

\* Every step keeps it.
LEMMA StepKeeps == IInv /\ [Next]_vars => IInv'
  <1>1. ASSUME IInv, UNCHANGED vars PROVE IInv'
    BY <1>1
       DEF vars, draw, seen, paint, title, IInv, Types, Counts, Phases, Restorable, Changed, Own,
           Owned, OwnFade, OwnWave, Unstepped, Drawn, Drawing, Steady, Remembered, Remembers,
           Between, InBetween, Rigid, FadeSeen, EveryFaderIsSeen, Whole, NothingInTheWay, Half,
           Stands, Continues
  <1>2. ASSUME IInv, NEW o \in setting.outcomes, Probed(o), setting' = setting PROVE IInv'
    BY <1>2, CameraDrawKeeps, ActorDrawKeeps, ModelViewKeeps, AfterTickDrawKeeps,
       FaderDrawKeeps
       DEF Probed
  <1>3. ASSUME IInv, NEW place \in Places, NEW runs \in BOOLEAN, Execute(place, runs),
               setting' = setting
        PROVE  IInv'
    BY <1>3, ExecuteKeeps
  <1>4. ASSUME IInv, setting' = setting,
               \/ TickCall \/ SkipCall \/ BeforeDraw \/ NoCameraDraw \/ NoActorDraw
               \/ AfterPlainDraw \/ StepFade \/ EndPaint \/ SwitchInterpolation \/ SwitchLogic
        PROVE  IInv'
    BY <1>4, TickCallKeeps, SkipCallKeeps, BeforeDrawKeeps, NoCameraDrawKeeps,
       NoActorDrawKeeps,
       AfterPlainDrawKeeps, StepFadeKeeps, EndPaintKeeps, SwitchInterpolationKeeps, SwitchLogicKeeps
  <1> QED BY <1>1, <1>2, <1>3, <1>4 DEF Next

\* What the title wrote of each thing is in memory or to be put back, its fade and waves the
\* listeners' to put back, and what was seen, and when, is what the picture is taken from.
THEOREM InductiveInvariant == Spec => []IInv
  <1> QED BY InitHolds, StepKeeps, PTL DEF Spec

-----------------------------------------------------------------------------
(* What follows.                                                            *)

\* Whatever is written into the title's memory is a place or between two, and no more
\* than three changes are kept to be put back.
THEOREM TypeCorrect == Spec => []TypeOK
  <1>1. IInv => TypeOK
    <2> SUFFICES ASSUME IInv PROVE TypeOK
      OBVIOUS
    <2>1. tick \in 0..MaxTicks
      BY Typed, BoundsAreNatural DEF IInv, Counts
    <2>2. draw \in BOOLEAN \X BOOLEAN \X BOOLEAN \X BOOLEAN \X (0..MaxTicks)
      BY <2>1 DEF IInv, Types, draw
    <2>3. ASSUME NEW entry \in Entries, entry.tick <= tick
          PROVE  entry = Never \/ entry \in [tick : 0..MaxTicks, at : Values]
      BY <2>1, <2>3, BoundsAreNatural DEF Entries
    <2>4. \A entry \in {camera, shape, tickBase, wave, fade} :
            entry = Never \/ entry \in [tick : 0..MaxTicks, at : Values]
      BY <2>3 DEF IInv, Types, Counts
    <2>5. Len(restores) <= 3
      BY LenProperties DEF IInv, Types, Restorable
    <2> QED BY <2>2, <2>4, <2>5 DEF IInv, Types, TypeOK, Things
  <1> QED BY <1>1, InductiveInvariant, PTL

\* However the gate and the interpolation are switched, the logic runs from what it wrote
\* itself: no midpoint of the draw phase or of the paint is ever read by it.
THEOREM LogicReadsItsOwn == Spec => []TitleReadsItsOwn
  <1>1. IInv => TitleReadsItsOwn
    <2> SUFFICES ASSUME IInv PROVE TitleReadsItsOwn
      OBVIOUS
    <2>1. pc = "execute" => /\ mem.camera = world.now /\ mem.pos = actor.now
                            /\ mem.angle = actor.now /\ mem.joint = mem.base
      BY NothingChanged DEF IInv, Restorable
    <2>2. setting.base = "execute" => mem.base = actor.now
      BY DEF IInv, Owned
    <2>3. pc = "post" /\ call = "tick" => mem.fade = world.was
      BY DEF IInv, Owned, OwnFade, Unstepped, Phases
    <2>4. "logic" \notin setting.switches /\ pc = "execute" => mem.wave = world.now
      BY DEF IInv, Owned, OwnWave, Phases
    <2> QED BY <2>1, <2>2, <2>3, <2>4 DEF TitleReadsItsOwn, WeatherReadsItsOwn
  <1> QED BY <1>1, InductiveInvariant, PTL

\* The picture of a skipped call is the tick's own, whatever is switched around it.
THEOREM SkipsShowTheTick == Spec => []SkippedShowsTheTick
  <1>1. IInv => SkippedShowsTheTick
    <2> SUFFICES ASSUME IInv, call = "skip", pc \in {"after", "models", "post", "paint"}
                 PROVE  /\ drawn.camera \in {Nothing, world.now}
                        /\ drawn.pos \in {Nothing, actor.now}
                        /\ drawn.angle \in {Nothing, actor.now}
                        /\ setting.base = "execute" => drawn.joint \in {Nothing, actor.now}
                        /\ shown.fade \in {Nothing, world.now} \/ pc # "paint"
      BY DEF SkippedShowsTheTick
    <2>1. ~inTick /\ ~inMidPaint
      BY DEF IInv, Phases
    <2>2. shown.fade \in {Nothing, world.now} \/ pc # "paint"
      BY <2>1 DEF IInv, FadeSeen
    <2> QED BY <2>1, <2>2 DEF IInv, Drawn, Drawing
  <1> QED BY <1>1, InductiveInvariant, PTL

\* What the in-between draw phase and paint show is of this tick or halfway from the last:
\* never an older one's, whatever could not be read, written or drawn.
THEOREM PicturesAreInBetween == Spec => []PictureIsInBetween
  <1>1. IInv => PictureIsInBetween
    <2> SUFFICES ASSUME IInv PROVE PictureIsInBetween
      OBVIOUS
    <2>1. inTick /\ pc \in {"models", "after"} /\ setting.switches = {} =>
            /\ drawn.camera \in InBetween(world) \cup {Nothing}
            /\ drawn.angle \in InBetween(actor) \cup {Nothing}
            /\ setting.base = "execute" => drawn.joint \in InBetween(actor) \cup {Nothing}
      BY DEF IInv, Between, Drawing
    <2>2. drawn.pos # Nothing /\ pc \in {"models", "post", "paint"} =>
            drawn.pos \in InBetween(actor)
      BY DEF IInv, Drawn, Drawing
    <2>3. pc = "paint" /\ shown.fade # Nothing =>
            IF inMidPaint THEN EveryFaderIsSeen => shown.fade \in InBetween(world)
                          ELSE shown.fade = world.now
      BY DEF IInv, FadeSeen
    <2> QED BY <2>1, <2>2, <2>3 DEF PictureIsInBetween
  <1> QED BY <1>1, InductiveInvariant, PTL

\* Only a model whose base is set in the draw phase is taken for one, and known for what it
\* is it stands on its actor's in-between place, rigidly.
THEOREM ModelsStandOnActors == Spec => []ModelStandsOnActor
  <1>1. IInv => ModelStandsOnActor
    BY DEF IInv, Remembered, Stands, Half, ModelStandsOnActor
  <1> QED BY <1>1, InductiveInvariant, PTL

\* Undisturbed, every tick from the second on is shown halfway from the last and then as it
\* is, for any number of ticks.
THEOREM TicksAreShownTwice == Spec => []EveryTickTwice
  <1>1. IInv => EveryTickTwice
    BY DEF IInv, Whole, Half, EveryTickTwice
  <1> QED BY <1>1, InductiveInvariant, PTL

\* Each step is one of the schedule TitlePaints gives the listeners, or none of theirs.
LEMMA StepFollows ==
  IInv /\ [Next]_vars =>
    [Schedule!Unheard \/ Schedule!Execute \/ Schedule!BeginDraw \/ Schedule!EndDraw]_(Schedule!schedule)
  <1> SUFFICES ASSUME IInv, [Next]_vars
               PROVE  [Schedule!Unheard \/ Schedule!Execute \/ Schedule!BeginDraw
                         \/ Schedule!EndDraw]_(Schedule!schedule)
    OBVIOUS
  <1>0. /\ setting.ticks <= MaxTicks /\ setting.ticks \in Nat /\ setting.switches \subseteq Switches
        /\ ticks \in Nat /\ gate \in [in : BOOLEAN, odd : BOOLEAN]
        /\ inTick \in BOOLEAN /\ inMidPaint \in BOOLEAN /\ pc \in Pcs
        /\ MaxTicks \in Nat
    BY Typed, BoundsAreNatural DEF IInv, Types, Counts
  <1>1. CASE UNCHANGED vars
    BY <1>1 DEF vars, draw, title, Schedule!schedule
  <1>2. CASE TickCall
    <2>1. gate.in \in BOOLEAN /\ gate.odd \in BOOLEAN
      BY <1>0
    <2>2. (IF gate.in THEN TRUE ELSE gate.odd) = (gate.odd \/ gate.in)
      BY <2>1
    <2>3. gate' = [gate EXCEPT !.odd = @ \/ gate.in]
      BY <1>2, <2>2 DEF TickCall
    <2>4. ticks < MaxTicks
      BY <1>0, <1>2 DEF TickCall
    <2>5. PhaseOf[pc] = "call" /\ PhaseOf[pc'] = "logic"
      BY <1>2 DEF TickCall, PhaseOf
    <2> QED BY <1>2, <2>3, <2>4, <2>5 DEF TickCall, Schedule!Unheard, Schedule!TickCall
  <1>3. CASE SkipCall
    BY <1>0, <1>3 DEF SkipCall, draw, Schedule!Unheard, Schedule!SkipCall, PhaseOf
  <1>4. ASSUME NEW place \in Places, NEW runs \in BOOLEAN, Execute(place, runs)
        PROVE  Schedule!Execute
    BY <1>4 DEF Execute, draw, Schedule!Execute, PhaseOf
  <1>5. CASE BeforeDraw
    BY <1>5 DEF BeforeDraw, Schedule!BeginDraw, PhaseOf
  <1>6. CASE NoCameraDraw \/ NoActorDraw \/ StepFade
    BY <1>6 DEF NoCameraDraw, NoActorDraw, StepFade, draw, title, Schedule!schedule, PhaseOf
  <1>7. ASSUME NEW o \in setting.outcomes, CameraDraw(o) \/ ActorDraw(o)
        PROVE  UNCHANGED Schedule!schedule
    BY <1>7 DEF CameraDraw, ActorDraw, draw, Schedule!schedule, PhaseOf
  <1>8. ASSUME NEW o \in setting.outcomes, ModelView(o) \/ FaderDraw(o)
        PROVE  UNCHANGED Schedule!schedule
    BY <1>8 DEF ModelView, FaderDraw, draw, Schedule!schedule, PhaseOf
  <1>9. CASE AfterPlainDraw
    <2>1. ~inMidPaint
      BY <1>9 DEF AfterPlainDraw, IInv, Phases, Drawing
    <2> QED BY <1>0, <1>9, <2>1 DEF AfterPlainDraw, title, Schedule!EndDraw, PhaseOf
  <1>10. ASSUME NEW o \in setting.outcomes, AfterTickDraw(o)
         PROVE  Schedule!EndDraw
    BY <1>0, <1>10 DEF AfterTickDraw, Schedule!EndDraw, PhaseOf
  <1>11. CASE EndPaint
    BY <1>11 DEF EndPaint, draw, title, Schedule!Unheard, Schedule!EndPaint, PhaseOf
  <1>12. CASE SwitchInterpolation
    BY <1>0, <1>12
       DEF SwitchInterpolation, title, Schedule!Unheard, Schedule!SwitchInterpolation
  <1>13. CASE SwitchLogic
    BY <1>0, <1>13 DEF SwitchLogic, draw, title, Schedule!Unheard, Schedule!SwitchLogic
  <1> QED BY <1>1, <1>2, <1>3, <1>4, <1>5, <1>6, <1>7, <1>8, <1>9, <1>10, <1>11, <1>12, <1>13
          DEF Next, Probed

\* The schedule the listeners are modelled over is one the probes keep: every behaviour of
\* the in-between picture is a behaviour of TitlePaints.
THEOREM KeepsTheSchedule == Spec => IsTitlePaints
  <1>1. Init => Schedule!ScheduleInit
    <2> SUFFICES ASSUME Init PROVE Schedule!ScheduleInit
      OBVIOUS
    <2>1. pc = "call" /\ PhaseOf[pc] = "call"
      BY DEF Init, PhaseOf
    <2>2. /\ enabled = TRUE /\ inTick = FALSE /\ inMidPaint = FALSE /\ tick = 0
          /\ gate \in [in : BOOLEAN, odd : {FALSE}] /\ call = "skip" /\ ticks = 0 /\ switches = 0
      BY DEF Init
    <2> QED BY <2>1, <2>2 DEF Schedule!ScheduleInit
  <1> QED BY <1>1, StepFollows, InductiveInvariant, PTL
          DEF Spec, IsTitlePaints, Schedule!ScheduleSpec
=============================================================================
