-------------------------- MODULE DrawInterpolation --------------------------
(***************************************************************************)
(* title::DrawInterpolation with its listeners EnvironmentInterpolation and *)
(* FadeInterpolation.  With the logic gate in, the title makes two calls a  *)
(* tick: the tick's own, whose draw phase and paint are shown at the        *)
(* midpoint of the last two ticks, and a skipped one, shown as the tick is. *)
(* Probes in the title's own calls write the midpoints into guest memory    *)
(* and put the tick's values back; the title's logic lives in that memory.  *)
(*                                                                          *)
(* One camera, one actor with one model, one wave of the sea and the screen *)
(* fade stand for all of theirs.  A place is a number: a position, an angle,*)
(* an alpha.  Ticks move things between Places, and the midpoint of two is  *)
(* between them.                                                            *)
(***************************************************************************)
EXTENDS Integers, Sequences

CONSTANTS
  Places,      \* where a tick may put a thing: multiples of 4
  Settings,    \* what may happen around the draw phases, see SettingsAreKnown
  Switches,    \* what requests may change in some setting
  MaxTicks,    \* bound: calls that run the frame logic
  MaxSwitches  \* bound: requests

ASSUME PlacesAreApart == Places \subseteq {4 * i : i \in 0..8} /\ Places # {}
\* base: when the model's base is set; outcomes: of a probe's read and write;
\* undrawn: the things a draw phase may leave out; switches: the requests made;
\* ticks: the bound on the calls that run the frame logic.
ASSUME SettingsAreKnown ==
  Settings \subseteq [base : {"execute", "draw"},
                     outcomes : SUBSET {"blended", "left", "unreadable"},
                     undrawn : SUBSET {"camera", "actor"},
                     switches : SUBSET Switches,
                     ticks : 0..MaxTicks]
ASSUME BoundsAreNatural == MaxTicks \in Nat /\ MaxSwitches \in Nat

VARIABLE setting  \* the one a behaviour is under
VARIABLES
  enabled, inTick, inDraw, inMidPaint, tick,  \* DrawInterpolation's m_ flags
  camera, shape,   \* m_cameras, m_shapes: the last tick seen, and where
  model,           \* m_models: the pose of the last skipped draw
  tickBase,        \* m_tickBases
  viewed,          \* m_viewedInDraw
  restores,        \* m_restores: things and what to put back, in order
  wave, waveBack,  \* EnvironmentInterpolation's m_waves and m_restores
  fade, fadeBack   \* FadeInterpolation's m_seen and m_restore
VARIABLES
  gate,     \* LogicGate::enabled(), and whether the guest's count is odd
  call,     \* the call the title is in: "tick" or "skip"
  pc,       \* where in it
  mem,      \* the guest memory the probes read and write
  executed, \* whether the tick ran the actor (its condition bit)
  ticks, switches
\* History: where the logic put the world and the actor at the last tick and at
\* this one, and what the draw phase and the paint showed.
VARIABLES world, actor, drawn, shown

draw == <<enabled, inTick, inDraw, inMidPaint, tick>>
seen == <<camera, shape, model, tickBase, viewed>>
paint == <<wave, waveBack, fade, fadeBack>>
title == <<call, mem, executed, ticks, world, actor>>
vars == <<setting, draw, seen, restores, paint, gate, pc, switches, title, drawn, shown>>

\* Mutant: the two are added and not halved.
Twice(a, b) == a + b

Mid(a, b) == (a + b) \div 2
Never == [tick |-> -2, at |-> 0]
NoModel == [tick |-> -2, base |-> 0, joint |-> 0, fromDraw |-> FALSE]
Nothing == -1

\* The entry was made at the tick before this one.
Continues(entry) == entry.tick + 1 = tick
\* Mutant: what this tick saw goes with the rest.
KeptNone(entry, none) == IF entry.tick <= tick THEN none ELSE entry

\* std::erase_if(..., entry.tick < m_tick)
Kept(entry, none) == IF entry.tick < tick THEN none ELSE entry

Start == CHOOSE p \in Places : TRUE

Init ==
  /\ setting \in Settings
  /\ enabled = TRUE /\ inTick = FALSE /\ inDraw = FALSE /\ inMidPaint = FALSE
  /\ tick = 0
  /\ camera = Never /\ shape = Never /\ model = NoModel /\ tickBase = Never
  /\ viewed = FALSE /\ restores = <<>>
  /\ wave = Never /\ waveBack = Nothing /\ fade = Never /\ fadeBack = Nothing
  /\ gate \in [in : BOOLEAN, odd : {FALSE}]
  /\ call = "skip" /\ pc = "call" /\ executed = FALSE
  /\ mem = [t \in {"camera", "old", "pos", "angle", "base", "joint", "wave", "fade"}
              |-> Start]
  /\ ticks = 0 /\ switches = 0
  /\ world = [was |-> Start, now |-> Start] /\ actor = world
  /\ drawn = [t \in {"camera", "pos", "angle", "joint"} |-> Nothing]
  /\ shown = [t \in {"wave", "fade"} |-> Nothing]

-----------------------------------------------------------------------------
(* A call of the frame logic.  The gate's guest block counts it: odd calls  *)
(* run whole, even ones only the draw phase.                                *)

\* Mutant: the in-between paint is taken for every gated tick, wanted or not.
TickCallUngated ==
  /\ pc = "call" /\ ticks < setting.ticks
  /\ gate.in => ~gate.odd
  /\ gate' = [gate EXCEPT !.odd = IF gate.in THEN TRUE ELSE @]
  /\ call' = "tick" /\ ticks' = ticks + 1 /\ pc' = "execute"
  /\ inTick' = gate.in
  /\ tick' = IF inTick' THEN tick + 1 ELSE tick
  /\ UNCHANGED <<enabled, inDraw, inMidPaint, seen, restores, paint, switches,
                 mem, executed, world, actor, drawn, shown>>

\* onManagement: the tick's in-between picture is wanted while the gate is in.
TickCall ==
  /\ pc = "call" /\ ticks < setting.ticks
  /\ gate.in => ~gate.odd
  /\ gate' = [gate EXCEPT !.odd = IF gate.in THEN TRUE ELSE @]
  /\ call' = "tick" /\ ticks' = ticks + 1 /\ pc' = "execute"
  /\ inTick' = (gate.in /\ enabled)
  /\ tick' = IF inTick' THEN tick + 1 ELSE tick
  /\ UNCHANGED <<enabled, inDraw, inMidPaint, seen, restores, paint, switches,
                 mem, executed, world, actor, drawn, shown>>

SkipCall ==
  /\ pc = "call"
  /\ gate.in /\ gate.odd
  /\ gate' = [gate EXCEPT !.odd = FALSE]
  /\ call' = "skip" /\ pc' = "before"
  /\ UNCHANGED <<draw, seen, restores, paint, switches, mem, executed, ticks,
                 world, actor, drawn, shown>>

\* The logic moves the world, and the actor if it runs it: old becomes current,
\* and a model of the execute style is posed there.
Execute(place, runs) ==
  /\ pc = "execute"
  /\ executed' = runs
  /\ world' = [was |-> world.now, now |-> place]
  /\ actor' = [was |-> actor.now, now |-> IF runs THEN place ELSE actor.now]
  /\ LET poses == runs /\ setting.base = "execute"
     IN mem' = [mem EXCEPT !.camera = place, !.wave = place,
                           !.old = IF runs THEN mem.pos ELSE @,
                           !.pos = IF runs THEN place ELSE @,
                           !.angle = IF runs THEN place ELSE @,
                           !.base = IF poses THEN place ELSE @,
                           !.joint = IF poses THEN place ELSE @]
  /\ pc' = "before"
  /\ UNCHANGED <<draw, seen, restores, paint, gate, switches, call, ticks,
                 drawn, shown>>

-----------------------------------------------------------------------------
(* The draw phase, between BeforeOfDraw and AfterOfDraw.                    *)

\* Mutant: the in-between paint's fade is never put back.
MidPaintKeepsFade == [mem EXCEPT !.wave = IF waveBack = Nothing THEN @ ELSE waveBack]

\* What both listeners' onMidPaintEnd leave in memory.
MidPaintEnded == [mem EXCEPT !.wave = IF waveBack = Nothing THEN @ ELSE waveBack,
                             !.fade = IF fadeBack = Nothing THEN @ ELSE fadeBack]

BeforeDraw ==
  /\ pc = "before"
  /\ inDraw' = TRUE /\ viewed' = FALSE /\ inMidPaint' = FALSE
  /\ mem' = IF inMidPaint THEN MidPaintEnded ELSE mem
  /\ waveBack' = IF inMidPaint THEN Nothing ELSE waveBack
  /\ fadeBack' = IF inMidPaint THEN Nothing ELSE fadeBack
  /\ drawn' = [t \in DOMAIN drawn |-> Nothing]
  /\ pc' = "camera"
  /\ UNCHANGED <<enabled, inTick, tick, camera, shape, model, tickBase, restores,
                 wave, fade, gate, switches, call, executed, ticks, world, actor, shown>>

\* write(): the midpoint goes in, what it replaced is to be put back.
Blend(things, at) ==
  /\ mem' = [t \in DOMAIN mem |-> IF t \in things THEN at[t] ELSE mem[t]]
  /\ restores' = Append(restores, [t \in things |-> mem[t]])
Leave == UNCHANGED <<mem, restores>>

\* onCameraDraw, blendCamera: "left" is a view that starts a shot, is no number
\* or could not be written.
CameraDraw(outcome) ==
  /\ pc = "camera" /\ pc' = "actor"
  /\ camera' = IF inTick /\ outcome # "unreadable" THEN [tick |-> tick, at |-> mem.camera]
               ELSE camera
  /\ IF inTick /\ outcome = "blended" /\ Continues(camera)
       THEN Blend({"camera"}, [t \in {"camera"} |-> Mid(camera.at, mem.camera)])
       ELSE Leave
  /\ drawn' = [drawn EXCEPT !.camera = mem'.camera]
  /\ UNCHANGED <<draw, shape, model, tickBase, viewed, paint, gate, switches,
                 call, executed, ticks, world, actor, shown>>

NoCameraDraw ==
  /\ pc = "camera" /\ "camera" \in setting.undrawn
  /\ pc' = "actor"
  /\ UNCHANGED <<draw, seen, restores, paint, gate, switches, title, drawn, shown>>

\* What onActorDraw leaves of the actor's placement.
Placed(outcome) ==
  IF inTick /\ executed /\ outcome = "blended"
    THEN [pos |-> Mid(mem.old, mem.pos),
          angle |-> IF Continues(shape) THEN Mid(shape.at, mem.angle) ELSE mem.angle]
    ELSE [pos |-> mem.pos, angle |-> mem.angle]

\* onActorDraw, blendActor; then the actor's own draw, which poses a model of
\* the draw style where it finds the actor.
ActorDraw(outcome) ==
  /\ pc = "actor" /\ pc' = "models"
  /\ shape' = IF inTick /\ outcome # "unreadable" THEN [tick |-> tick, at |-> mem.angle]
              ELSE shape
  /\ LET placed == Placed(outcome) IN
       /\ mem' = [mem EXCEPT !.pos = placed.pos, !.angle = placed.angle,
                             !.base = IF setting.base = "draw" THEN placed.pos ELSE @,
                             !.joint = IF setting.base = "draw" THEN placed.pos ELSE @]
       /\ restores' = IF inTick /\ executed /\ outcome = "blended"
                        THEN Append(restores, [t \in {"pos", "angle"} |-> mem[t]])
                        ELSE restores
       /\ drawn' = [drawn EXCEPT !.pos = placed.pos, !.angle = placed.angle]
  /\ UNCHANGED <<draw, camera, model, tickBase, viewed, paint, gate, switches,
                 call, executed, ticks, world, actor, shown>>

NoActorDraw ==
  /\ pc = "actor" /\ "actor" \in setting.undrawn
  /\ pc' = "after"
  /\ UNCHANGED <<draw, seen, restores, paint, gate, switches, title, drawn, shown>>

\* recordModel: the tick's own pose, and whether its base follows the draw.
RecordModel ==
  LET follows ==
        IF tickBase.tick = tick
          THEN \/ tickBase.at # mem.base
               \/ model.fromDraw /\ ~(Continues(model) /\ model.base # mem.base)
          ELSE model.fromDraw
  IN model' = [tick |-> tick, base |-> mem.base, joint |-> mem.joint,
               fromDraw |-> follows]

\* Mutant: the base is taken halfway though the draw has done so.
JointHalfwayAgain ==
  Mid(model.base, mem.base) + Mid(model.joint - model.base, mem.joint - mem.base)

\* blendModel: the joint's midpoint in model space, placed at the base's.
BlendedJoint ==
  LET placed == IF model.fromDraw THEN mem.base ELSE Mid(model.base, mem.base)
  IN placed + Mid(model.joint - model.base, mem.joint - mem.base)

\* onModelView: a draw phase may view a model again, and only its first counts.
FirstView == inDraw /\ enabled /\ ~viewed

ModelView(outcome) ==
  /\ pc = "models"
  /\ \/ /\ FirstView
        /\ viewed' = TRUE
        /\ \/ /\ outcome = "unreadable"
              /\ Leave /\ UNCHANGED <<model, tickBase>>
           \/ /\ outcome # "unreadable" /\ ~inTick
              /\ RecordModel /\ Leave /\ UNCHANGED tickBase
           \/ /\ outcome # "unreadable" /\ inTick
              /\ tickBase' = [tick |-> tick, at |-> mem.base]
              /\ IF outcome = "blended" /\ Continues(model)
                   THEN Blend({"joint"}, [t \in {"joint"} |-> BlendedJoint])
                   ELSE Leave
              /\ UNCHANGED model
     \/ /\ ~FirstView
        /\ Leave /\ UNCHANGED <<model, tickBase, viewed>>
  /\ drawn' = [drawn EXCEPT !.joint = mem'.joint]
  /\ UNCHANGED <<draw, camera, shape, paint, gate, pc, switches, call, executed,
                 ticks, world, actor, shown>>

\* Mutant: the changes are forgotten and not put back.
PutNothingBack(back, m) == m

\* What memory holds once every change is put back, in the order they were made: of
\* two changes of one thing the later stays.
PutBack(back, m) ==
  [t \in DOMAIN m |->
     LET changes == {i \in DOMAIN back : t \in DOMAIN back[i]}
         latest == CHOOSE i \in changes : \A j \in changes : j <= i
     IN IF changes = {} THEN m[t] ELSE back[latest][t]]

\* onAfterDraw of a skipped call, or of a tick with nothing in between.
AfterPlainDraw ==
  /\ pc \in {"models", "after"} /\ ~inTick
  /\ inDraw' = FALSE
  /\ model' = Kept(model, NoModel)
  /\ tickBase' = Kept(tickBase, Never)
  /\ pc' = "post"
  /\ UNCHANGED <<enabled, inTick, inMidPaint, tick, camera, shape, viewed, restores,
                 paint, gate, switches, title, drawn, shown>>

\* onAfterDraw of the in-between draw phase: the tick's own values are back, and
\* the paint is the in-between one (onMidPaintBegin, blendWaves).  "left" is a
\* wave that respawned, is no number or could not be written.
AfterTickDraw(outcome) ==
  /\ pc \in {"models", "after"} /\ inTick
  /\ inDraw' = FALSE /\ inTick' = FALSE /\ inMidPaint' = TRUE
  /\ restores' = <<>>
  /\ shape' = Kept(shape, Never)
  /\ camera' = Kept(camera, Never)
  /\ LET own == PutBack(restores, mem)
         blends == outcome = "blended" /\ Continues(wave)
         mid == IF blends THEN Mid(wave.at, own.wave) ELSE own.wave
     IN /\ wave' = IF outcome = "unreadable" THEN wave ELSE [tick |-> tick, at |-> own.wave]
        /\ waveBack' = IF mid = own.wave THEN waveBack ELSE own.wave
        /\ mem' = [own EXCEPT !.wave = mid]
  /\ pc' = "post"
  /\ UNCHANGED <<enabled, tick, model, tickBase, viewed, fade, fadeBack, gate, switches,
                 call, executed, ticks, world, actor, drawn, shown>>

-----------------------------------------------------------------------------
(* The rest of the call, and the paint.                                     *)

\* A whole frame logic steps the fade after its draw phase; a skipped one does not.
StepFade ==
  /\ pc = "post" /\ pc' = "paint"
  /\ mem' = IF call = "tick" THEN [mem EXCEPT !.fade = world.now] ELSE mem
  /\ shown' = [wave |-> mem.wave, fade |-> Nothing]
  /\ UNCHANGED <<draw, seen, restores, paint, gate, switches, call, executed, ticks,
                 world, actor, drawn>>

\* Mutant: a fader drawn again is blended again.
FaderBlendsAgain(outcome) == inMidPaint /\ outcome = "blended" /\ Continues(fade)

\* Once in the in-between paint, from what the paint before it showed.
FaderBlends(outcome) ==
  inMidPaint /\ outcome = "blended" /\ fadeBack = Nothing /\ Continues(fade)

\* onFaderDraw: a plain paint records the alpha it shows, the in-between one
\* shows the midpoint of that and its own, however often the fader is drawn.
FaderDraw(outcome) ==
  /\ pc = "paint"
  /\ fade' = IF ~inMidPaint /\ outcome # "unreadable" THEN [tick |-> tick, at |-> mem.fade]
             ELSE fade
  /\ IF FaderBlends(outcome)
       THEN /\ mem' = [mem EXCEPT !.fade = Mid(fade.at, mem.fade)]
            /\ fadeBack' = mem.fade
       ELSE UNCHANGED <<mem, fadeBack>>
  /\ shown' = [shown EXCEPT !.fade = mem'.fade]
  /\ UNCHANGED <<draw, seen, restores, wave, waveBack, gate, pc, switches, call, executed,
                 ticks, world, actor, drawn>>

\* The render pass draws the fader in every paint, as it is registered to.
EndPaint ==
  /\ pc = "paint" /\ shown.fade # Nothing
  /\ pc' = "call"
  /\ UNCHANGED <<draw, seen, restores, paint, gate, switches, title, drawn, shown>>

-----------------------------------------------------------------------------
(* Requests of the control channel, at any moment.                          *)

\* POST /interpolation: setEnabled.
SwitchInterpolation ==
  /\ "interpolation" \in setting.switches /\ switches < MaxSwitches
  /\ switches' = switches + 1
  /\ enabled' = ~enabled
  /\ UNCHANGED <<inTick, inDraw, inMidPaint, tick, seen, restores, paint, gate, pc,
                 title, drawn, shown>>

\* POST /logic: the gate goes in or out.
SwitchLogic ==
  /\ "logic" \in setting.switches /\ switches < MaxSwitches
  /\ switches' = switches + 1
  /\ gate' = [gate EXCEPT !.in = ~@]
  /\ UNCHANGED <<draw, seen, restores, paint, pc, title, drawn, shown>>

Probed(outcome) ==
  \/ CameraDraw(outcome) \/ ActorDraw(outcome) \/ ModelView(outcome)
  \/ AfterTickDraw(outcome) \/ FaderDraw(outcome)

Next ==
  /\ \/ TickCall \/ SkipCall \/ BeforeDraw \/ NoCameraDraw \/ NoActorDraw
     \/ AfterPlainDraw \/ StepFade \/ EndPaint
     \/ SwitchInterpolation \/ SwitchLogic
     \/ \E outcome \in setting.outcomes : Probed(outcome)
     \/ \E place \in Places, runs \in BOOLEAN : Execute(place, runs)
  /\ UNCHANGED setting

Spec == Init /\ [][Next]_vars

-----------------------------------------------------------------------------
\* What is between two places is one; Nothing is none.
Values == {v \in 0..32 : \E p, q \in Places : p <= v /\ v <= q}

TypeOK ==
  /\ draw \in BOOLEAN \X BOOLEAN \X BOOLEAN \X BOOLEAN \X (0..MaxTicks)
  /\ \A entry \in {camera, shape, tickBase, wave, fade} :
       entry = Never \/ entry \in [tick : 0..MaxTicks, at : Values]
  /\ mem \in [{"camera", "old", "pos", "angle", "base", "joint", "wave", "fade"}
                -> Values]
  /\ {waveBack, fadeBack} \subseteq Values \cup {Nothing} /\ Len(restores) <= 3

\* The same for what the weather effects move in execute: "the tick's own values
\* are back when" the in-between paint closes.
WeatherReadsItsOwn == pc = "execute" => mem.wave = world.now

\* The in-between values are the picture's alone: whatever is switched and
\* whenever, the logic never runs from a camera, placement or execute-style
\* pose that is not what it wrote itself, the fade steps from the alpha it left,
\* and, with the gate left alone, so does the weather.
TitleReadsItsOwn ==
  /\ pc = "execute" =>
       /\ mem.camera = world.now
       /\ mem.pos = actor.now /\ mem.angle = actor.now
       /\ setting.base = "execute" => mem.base = actor.now /\ mem.joint = actor.now
  /\ pc = "post" /\ call = "tick" => mem.fade = world.was
  /\ "logic" \notin setting.switches => WeatherReadsItsOwn

\* A skipped call's picture is the tick's own: camera, placement, pose and fade,
\* even when the gate or the interpolation is switched around it.
SkippedShowsTheTick ==
  call = "skip" /\ pc \in {"after", "models", "post", "paint"} =>
    /\ drawn.camera \in {Nothing, world.now}
    /\ drawn.pos \in {Nothing, actor.now} /\ drawn.angle \in {Nothing, actor.now}
    /\ setting.base = "execute" => drawn.joint \in {Nothing, actor.now}
    /\ shown.fade \in {Nothing, world.now} \/ pc # "paint"

EveryFaderIsSeen == "unreadable" \notin setting.outcomes \/ setting.switches = {}
InBetween(moved) == {moved.now, Mid(moved.was, moved.now)}

\* The in-between draw phase shows "the midpoint of the previous tick's and this
\* tick's", whatever could not be read, written or drawn: never an older tick's.
\* Across switches, too, nothing of a placement is older than one tick, for the
\* title keeps the previous position itself, and the in-between paint alone shows a
\* fade between the last paint's alpha and now, unless a plain paint's fader could not
\* be read before a switch.
PictureIsInBetween ==
  /\ inTick /\ pc \in {"models", "after"} /\ setting.switches = {} =>
       /\ drawn.camera \in InBetween(world) \cup {Nothing}
       /\ drawn.angle \in InBetween(actor) \cup {Nothing}
       /\ pc = "models" /\ setting.base = "execute" =>
            drawn.joint \in InBetween(actor) \cup {Nothing}
  /\ drawn.pos # Nothing /\ pc \in {"models", "post", "paint"} => drawn.pos \in InBetween(actor)
  /\ pc = "paint" /\ shown.fade # Nothing =>
       IF inMidPaint THEN EveryFaderIsSeen => shown.fade \in InBetween(world)
                     ELSE shown.fade = world.now

\* "Its base is set in the draw phase from an actor's placement": nothing else
\* is taken for such a model; and once the base is known to follow the draw, or
\* not to, the model stands on its actor, if the probes are not in the way.
ModelStandsOnActor ==
  /\ setting.switches = {} /\ model.fromDraw => setting.base = "draw"
  /\ setting.outcomes = {"blended"} /\ setting.switches = {} =>
       (inTick /\ pc = "models" /\ drawn.joint # Nothing /\ Continues(model)
          /\ (model.fromDraw <=> setting.base = "draw") =>
            drawn.joint = Mid(actor.was, actor.now))

\* With nothing switched, left out or in the way, every tick after the first is
\* shown exactly halfway, then as it is: mid(n-1, n), n.
NothingInTheWay ==
  setting.outcomes = {"blended"} /\ setting.switches = {} /\ setting.undrawn = {}
EveryTickTwice ==
  NothingInTheWay /\ gate.in /\ tick > 1 =>
    /\ inTick /\ pc = "models" => /\ drawn.camera = Mid(world.was, world.now)
                                  /\ drawn.angle = Mid(actor.was, actor.now)
    /\ pc = "paint" =>
         shown.wave = IF call = "tick" THEN Mid(world.was, world.now) ELSE world.now

\* The draw phase and the in-between paint open and close for their listeners in
\* the order TitlePaints promises, over which the listeners are modelled.
PhaseOf == [call |-> "call", execute |-> "logic", before |-> "draw", camera |-> "drawing",
            actor |-> "drawing", models |-> "drawing", after |-> "drawing",
            post |-> "painting", paint |-> "painting"]
Schedule == INSTANCE TitlePaints WITH phase <- PhaseOf[pc]
IsTitlePaints == Schedule!ScheduleSpec
=============================================================================
