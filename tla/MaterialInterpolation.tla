------------------------- MODULE MaterialInterpolation -------------------------
(***************************************************************************)
(* title::MaterialInterpolation, a listener of the in-between draw phase.   *)
(* An actor plays a material animation's frame controller in its execute or *)
(* in its draw, and its draw enters the animation at the controller's       *)
(* frame.  An animation played in execute is entered at the midpoint of its *)
(* last two frames; one played in the draw is set half a step back first;   *)
(* both end as they were, so each steps once a tick.                        *)
(***************************************************************************)
EXTENDS TitlePaints

CONSTANTS
  Rates,     \* frames a tick, played forward or back: even
  Loop, Ends \* the loop frame, and the ends animations have: a loop may have no length

ASSUME FramesAreWhole ==
  /\ Loop \in Int
  /\ \A end \in Ends : end \in Int /\ Loop <= end /\ 2 * ((end - Loop) \div 2) = end - Loop
  /\ \A rate \in Rates : rate \in Nat /\ 2 * (rate \div 2) = rate

VARIABLES
  anim,      \* guest memory: frame, end, rate, whether it loops, the J3D animation,
             \* and where the actor plays it
  animSeen,  \* m_seen
  owned,     \* m_owned: the J3D animation the actor's draw entered, and when
  entered,   \* m_entered
  played,    \* m_playedInDraw
  animBack,  \* m_restores
  animDrawn, \* whether this draw phase has drawn the actor
  \* History: the frame with nothing blended or set back, the one at the last draw
  \* phase of a tick, whether the two are one motion, what was entered, and whether
  \* a step was not held.
  animOwn, animWas, animMoved, animShown, animMissed

animVars == <<anim, animSeen, owned, entered, played, animBack, animDrawn,
              animOwn, animWas, animMoved, animShown, animMissed>>

NoAnim == [tick |-> Never, frame |-> 0]
NotOwned == [tick |-> Never, j3d |-> 0]
Span == anim.end - Loop

AnimInit ==
  /\ anim \in [frame : {Loop}, end : Ends, rate : Rates \cup {-r : r \in Rates}, loops : BOOLEAN,
              j3d : {1}, in : {"execute", "draw"}]
  /\ animSeen = NoAnim /\ owned = NotOwned /\ entered = NoAnim /\ played = NoAnim
  /\ animBack = <<>> /\ animDrawn = FALSE
  /\ animOwn = Loop /\ animWas = Loop /\ animMoved = FALSE /\ animShown = {}
  /\ animMissed = FALSE

-----------------------------------------------------------------------------
\* J3DFrameCtrl::update: a looping animation goes round, as often as its loop is short;
\* another stays at its ends.
Updated(frame, by) ==
  LET next == frame + by IN
  CASE ~anim.loops -> IF next >= anim.end THEN anim.end ELSE IF next < Loop THEN Loop ELSE next
    [] anim.loops /\ Span > 0 -> Loop + ((next - Loop) % Span)
    [] OTHER -> next

\* The tick plays it, leaves it, or puts another animation in its place.
AnimExecute(how) ==
  /\ Execute
  /\ how = "plays" => anim.in = "execute"
  /\ LET moved(frame) == CASE how = "plays" -> Updated(frame, anim.rate)
                           [] how = "stays" -> frame
                           [] how = "replaced" -> Loop
     IN /\ anim' = [anim EXCEPT !.frame = moved(@),
                                !.j3d = IF how = "replaced" THEN 1 - @ ELSE @]
        /\ animOwn' = moved(animOwn)
  /\ animMoved' = (animMoved /\ how # "replaced")
  /\ UNCHANGED <<animSeen, owned, entered, played, animBack, animDrawn, animWas, animShown,
                 animMissed>>

AnimDrawBegins ==
  /\ BeginDraw /\ animDrawn' = FALSE /\ animShown' = {}
  /\ UNCHANGED <<anim, animSeen, owned, entered, played, animBack,
                 animOwn, animWas, animMoved, animMissed>>

-----------------------------------------------------------------------------
\* A step no longer than the rate.
WithinStep(delta) == (IF delta < 0 THEN -delta ELSE delta)
                       <= (IF anim.rate < 0 THEN -anim.rate ELSE anim.rate)

\* HalfTheStep along the step from the last frame, round the end of the loop if that
\* is the step's way.
MidFrame(from) ==
  LET delta == anim.frame - from
      wrapped == delta + (IF anim.rate > 0 THEN Span ELSE -Span)
      mid == from + wrapped \div 2
  IN IF WithinStep(delta) THEN from + delta \div 2
     ELSE CASE mid >= anim.end -> mid - Span
            [] mid < Loop -> mid + Span
            [] OTHER -> mid

IsAStep(from) ==
  LET delta == anim.frame - from IN
  \/ WithinStep(delta)
  \/ anim.loops /\ Span > 0 /\ WithinStep(delta + (IF anim.rate > 0 THEN Span ELSE -Span))

\* onActorDraw, blend: an owned animation no draw has played, still the one that
\* was entered, whose last frame is the last tick's.
Considers == owned # NotOwned /\ played = NoAnim

BlendedAnim(outcome) ==
  IF /\ Considers /\ outcome = "blended" /\ owned.j3d = anim.j3d
     /\ Continues(animSeen) /\ IsAStep(animSeen.frame)
    THEN MidFrame(animSeen.frame) ELSE anim.frame

\* onPlay of an animation a draw has entered: half a step back.
SetBack(frame, plays, outcome) ==
  IF plays /\ entered # NoAnim /\ outcome = "blended" THEN frame - anim.rate \div 2 ELSE frame

\* The actor's draw: blend, perhaps the draw's own play, and the entry
\* (onEntry).  What it reads may not read, its writes may be refused.
TickActorDraw(plays, outcome) ==
  /\ plays => anim.in = "draw"
  /\ InTickDraw /\ ~animDrawn /\ animDrawn' = TRUE
  /\ LET blended == BlendedAnim(outcome)
         set == SetBack(blended, plays, outcome)
         final == IF plays THEN Updated(set, anim.rate) ELSE set IN
     /\ anim' = [anim EXCEPT !.frame = final]
     /\ animBack' = (IF blended # anim.frame THEN <<[frame |-> anim.frame]>> ELSE <<>>)
                    \o (IF set # blended THEN <<[frame |-> blended]>> ELSE <<>>)
     /\ animShown' = {final}
     /\ animSeen' = IF Considers /\ outcome # "unreadable" /\ owned.j3d = anim.j3d
                      THEN [tick |-> tick, frame |-> anim.frame] ELSE animSeen
     /\ played' = IF plays /\ entered # NoAnim /\ outcome # "unreadable"
                    THEN [tick |-> tick, frame |-> 0] ELSE played
     /\ animMissed' = (animMissed \/ (plays /\ (entered = NoAnim \/ outcome # "blended")))
  /\ owned' = IF outcome # "unreadable" THEN [tick |-> tick, j3d |-> anim.j3d]
              ELSE IF owned = NotOwned THEN NotOwned ELSE [tick |-> tick, j3d |-> -1]
  /\ entered' = IF outcome # "unreadable" THEN [tick |-> tick, frame |-> 0] ELSE entered
  /\ UNCHANGED <<schedule, animOwn, animWas, animMoved>>

\* A draw outside the in-between phase: no probe looks, and a play is the step.
PlainActorDraw(plays) ==
  /\ plays => anim.in = "draw"
  /\ InDraw /\ ~inTick /\ ~animDrawn /\ animDrawn' = TRUE
  /\ anim' = [anim EXCEPT !.frame = IF plays THEN Updated(@, anim.rate) ELSE @]
  /\ animOwn' = IF plays THEN Updated(animOwn, anim.rate) ELSE animOwn
  /\ animShown' = {anim'.frame}
  /\ UNCHANGED <<schedule, animSeen, owned, entered, played, animBack, animWas, animMoved,
                 animMissed>>

\* "Last first: a play after a blend holds the blended frame."
PutBackReversed == PutBack(Reverse(animBack), anim)

KeptSince(entry, none) == IF entry.tick < tick THEN none ELSE entry

AnimDrawEnds ==
  /\ EndDraw
  /\ IF inTick
       THEN /\ anim' = PutBackReversed /\ animBack' = <<>>
            /\ owned' = KeptSince(owned, NotOwned) /\ animSeen' = KeptSince(animSeen, NoAnim)
            /\ entered' = KeptSince(entered, NoAnim) /\ played' = KeptSince(played, NoAnim)
       ELSE UNCHANGED <<anim, animBack, owned, animSeen, entered, played>>
  /\ animWas' = (IF inTick THEN animOwn ELSE animWas) /\ animMoved' = (inTick \/ animMoved)
  /\ UNCHANGED <<animDrawn, animOwn, animShown, animMissed>>

AnimNext ==
  \/ Unheard /\ UNCHANGED animVars
  \/ \E how \in {"plays", "stays", "replaced"} : AnimExecute(how)
  \/ AnimDrawBegins \/ AnimDrawEnds
  \/ \E plays \in BOOLEAN : PlainActorDraw(plays)
  \/ \E plays \in BOOLEAN, outcome \in {"blended", "refused", "unreadable"} :
       TickActorDraw(plays, outcome)

-----------------------------------------------------------------------------
\* "So it steps once a tick": the in-between draw phase takes no step of the
\* animation, wherever it is played and whatever is switched, once a play in the
\* draw is known.
AnimStepsOnce == ~InTickDraw /\ ~animMissed => anim.frame = animOwn

\* HalfTheStep along the step to an animation's frame, round the end of a loop and up to the
\* end of another.  In a loop of two steps or fewer the way round is within the rate, and is
\* taken for travel the other way.
HalfTheStep ==
  LET travelled == {Mid(animWas, animOwn)}
      short == Span <= 2 * anim.rate \/ Span <= -(2 * anim.rate)
  IN (IF anim.loops THEN {Updated(animWas, anim.rate \div 2)} ELSE travelled)
       \cup (IF short THEN travelled ELSE {})

\* An animation played in execute is entered at its frame or halfway along the step to
\* it; played in the draw too, half a step further.
AnimIsBetween ==
  InTickDraw /\ switches = 0 /\ ~animMissed =>
    LET from == {animOwn} \cup (IF animMoved THEN HalfTheStep ELSE {})
    IN animShown \subseteq from \cup {Updated(f, anim.rate \div 2) : f \in from}
=============================================================================
