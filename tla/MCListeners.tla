----------------------------- MODULE MCListeners -----------------------------
(***************************************************************************)
(* The listeners of the draw phase and of the in-between paint, over one    *)
(* schedule.  Each has its own members and guest memory and none reads      *)
(* another's, so a behaviour is about one of them: subject says which.      *)
(***************************************************************************)
EXTENDS SeaInterpolation, RopeInterpolation, ClothInterpolation, MaterialInterpolation,
        CameraCuts, MidPaintListeners

CONSTANT Subjects
VARIABLE subject

\* A packet is told from another by its entry alone.
PacketsAlike == Permutations(Packets)

others == [sea |-> seaVars, rope |-> ropeVars, cloth |-> clothVars, material |-> animVars,
           camera |-> viewVars, paint |-> midPaint]

vars == <<subject, schedule, others>>

Init ==
  /\ subject \in Subjects
  /\ ScheduleInit
  /\ SeaInit /\ RopeInit /\ ClothInit /\ AnimInit /\ ViewInit /\ MidInit
  /\ \/ subject = "material"
     \/ anim.loops /\ anim.rate \in Rates /\ anim.in = "draw" /\ anim.end = CHOOSE end \in Ends : TRUE
  /\ subject = "paint" \/ kind = "wave"

Moves(of, next) == subject = of /\ next /\ UNCHANGED subject

Next ==
  \/ Moves("sea", SeaNext) /\ UNCHANGED <<ropeVars, clothVars, animVars, viewVars, midPaint>>
  \/ Moves("rope", RopeNext) /\ UNCHANGED <<seaVars, clothVars, animVars, viewVars, midPaint>>
  \/ Moves("cloth", ClothNext) /\ UNCHANGED <<seaVars, ropeVars, animVars, viewVars, midPaint>>
  \/ Moves("material", AnimNext) /\ UNCHANGED <<seaVars, ropeVars, clothVars, viewVars, midPaint>>
  \/ Moves("camera", ViewNext) /\ UNCHANGED <<seaVars, ropeVars, clothVars, animVars, midPaint>>
  \/ Moves("paint", MidNext) /\ UNCHANGED <<seaVars, ropeVars, clothVars, animVars, viewVars>>

Spec == Init /\ [][Next]_vars

\* A switch is read by the next call alone, so wherever it comes before one it does the same;
\* of those the run takes the last, the moment the call is made, where the properties that
\* speak of nothing switched have held the longest.
SwitchesBeforeCalls == switches' # switches => phase = "call"
-----------------------------------------------------------------------------
\* "Put back once the draw phase is over": after the draw phase or the paint that a
\* listener wrote midpoints in, its guest memory is what the title itself made of it,
\* with whatever refused, left out or switched meanwhile, but for the cloth buffers a packet
\* blends after another's first kind was refused (clothAgain); a step taken by a draw is
\* taken once a tick.
LeavesNothing ==
  SeaKeepsItsOwn /\ RopeKeepsItsOwn /\ ClothKeepsItsOwn /\ AnimStepsOnce /\ ClosesClean

\* What the in-between draw phase or paint shows of the sea, a rope, a cloth, a
\* material, a packet or a particle is this tick's value, or halfway from the last
\* tick's of the same thing: never from an older tick, across a warp, a cut or a
\* replacement, or halfway twice, but for the same cloth buffers.
ShowsInBetween ==
  SeaIsBetween /\ RopeIsBetween /\ ClothIsBetween /\ AnimIsBetween /\ NeverAcrossABreak
=============================================================================
