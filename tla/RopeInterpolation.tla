-------------------------- MODULE RopeInterpolation --------------------------
(***************************************************************************)
(* title::RopeInterpolation, a listener of the in-between draw phase.  The  *)
(* grappling rope's draw lays a line from its hook over the segments paid   *)
(* out, and eases the sway from where its last draw left it.                *)
(***************************************************************************)
EXTENDS TitlePaints

VARIABLES
  rope,      \* guest memory: the hook, a segment, the first one live, the sway
  ropeSeen,  \* m_seen
  ropeBack,  \* m_restores
  ropeDrawn, \* whether this draw phase has drawn it
  \* History: as in the sea's.
  ropeOwn, ropeWas, ropeMissed

ropeVars == <<rope, ropeSeen, ropeBack, ropeDrawn, ropeOwn, ropeWas, ropeMissed>>

\* The segment the model keeps is number 0: live while the first live one is.
Live(r) == r.first = 0
NoRope == [tick |-> Never, hook |-> 0, segment |-> 0, first |-> 0]

RopeInit ==
  /\ rope = [hook |-> Somewhere, segment |-> Somewhere,
             first |-> 1, sway |-> 0]
  /\ ropeSeen = NoRope /\ ropeBack = <<>> /\ ropeDrawn = FALSE
  /\ ropeOwn = rope /\ ropeWas = rope /\ ropeMissed = FALSE

RopeExecute(hook, segment, first) ==
  LET placed(r) == [r EXCEPT !.hook = hook, !.segment = segment, !.first = first] IN
  /\ Execute
  /\ rope' = placed(rope) /\ ropeOwn' = placed(ropeOwn) /\ ropeWas' = ropeOwn
  /\ UNCHANGED <<ropeSeen, ropeBack, ropeDrawn, ropeMissed>>

RopeDrawBegins ==
  /\ BeginDraw /\ ropeDrawn' = FALSE
  /\ UNCHANGED <<rope, ropeSeen, ropeBack, ropeOwn, ropeWas, ropeMissed>>

\* Mutant: a segment this tick paid out comes from where the last one kept it.
BlendsWhatIsLiveNow ==
  [hook |-> Mid(ropeSeen.hook, rope.hook),
   segment |-> IF Live(rope) THEN Mid(ropeSeen.segment, rope.segment) ELSE rope.segment]

\* "A segment either tick had not paid out has nowhere to come from."
BlendedRope ==
  [hook |-> Mid(ropeSeen.hook, rope.hook),
   segment |-> IF Live(rope) /\ Live(ropeSeen) THEN Mid(ropeSeen.segment, rope.segment)
               ELSE rope.segment]

\* onActorDraw of a gated tick, then the rope's own draw.  Its name may not read,
\* its segments may not, a write may be refused.
RopeDraw(outcome) ==
  /\ InDraw /\ ~ropeDrawn /\ ropeDrawn' = TRUE
  /\ IF ~inTick \/ outcome = "nameless"
       THEN /\ UNCHANGED <<ropeSeen, ropeBack>>
            /\ rope' = [rope EXCEPT !.sway = @ + 1]
       ELSE LET blends == outcome = "blended" /\ Continues(ropeSeen)
                own == [hook |-> rope.hook, segment |-> rope.segment] IN
            /\ ropeSeen' = IF outcome = "unreadable" THEN NoRope
                           ELSE [tick |-> tick, hook |-> rope.hook, segment |-> rope.segment,
                                 first |-> rope.first]
            /\ ropeBack' = <<[sway |-> rope.sway]>> \o (IF blends THEN <<own>> ELSE <<>>)
            /\ rope' = LET line == IF blends THEN BlendedRope ELSE own
                       IN [hook |-> line.hook, segment |-> line.segment, first |-> rope.first,
                           sway |-> rope.sway + 1]
  /\ ropeOwn' = [ropeOwn EXCEPT !.sway = IF inTick THEN @ ELSE @ + 1]
  /\ ropeMissed' = (ropeMissed \/ (inTick /\ outcome = "nameless"))
  /\ UNCHANGED <<schedule, ropeWas>>

\* std::erase_if(m_seen, ...)
KeptRope == IF ropeSeen.tick < tick THEN NoRope ELSE ropeSeen

\* onDrawPhaseEnd: an actor need not have been drawn.
RopeDrawEnds ==
  /\ EndDraw
  /\ rope' = IF inTick THEN PutBack(ropeBack, rope) ELSE rope
  /\ ropeBack' = IF inTick THEN <<>> ELSE ropeBack
  /\ ropeSeen' = IF inTick THEN KeptRope ELSE ropeSeen
  /\ UNCHANGED <<ropeDrawn, ropeOwn, ropeWas, ropeMissed>>

RopeNext ==
  \/ Unheard /\ UNCHANGED ropeVars
  \/ \E hook \in Places : \E segment \in {hook, Somewhere}, first \in {0, 1} :
       RopeExecute(hook, segment, first)
  \/ RopeDrawBegins
  \/ \E outcome \in {"blended", "refused", "unreadable", "nameless"} : RopeDraw(outcome)
  \/ RopeDrawEnds

\* The in-between draw phase leaves nothing in the rope: the sway eases once a
\* tick, and the logic finds the hook and the segments where it put them.
RopeKeepsItsOwn == ~InTickDraw /\ ~ropeMissed => rope = ropeOwn

\* In it, the hook and each segment are the tick's or halfway from the last
\* tick's, a segment only if both had paid it out.
RopeIsBetween ==
  InTickDraw /\ switches = 0 =>
    /\ rope.hook \in {ropeOwn.hook, Mid(ropeWas.hook, ropeOwn.hook)}
    /\ \/ rope.segment = ropeOwn.segment
       \/ Live(ropeWas) /\ Live(ropeOwn) /\ rope.segment = Mid(ropeWas.segment, ropeOwn.segment)
=============================================================================
