--------------------------- MODULE SeaInterpolation ---------------------------
(***************************************************************************)
(* title::SeaInterpolation, a listener of the in-between draw phase.  The   *)
(* sea's draw reads a height grid and steps a scroll counter; the title now *)
(* draws it twice a tick.                                                   *)
(***************************************************************************)
EXTENDS TitlePaints

CONSTANT MaxStep  \* kMaxStep: a longer move is a warp

VARIABLES
  sea,      \* guest memory: the grid, its height table (0: culled), the counter
  seaSeen,  \* m_seen
  seaBack,  \* m_restores
  seaDrawn, \* whether this draw phase has drawn it
  \* History: the same memory with nothing blended or held, as the last tick left
  \* it, and whether the counter could not be held.
  seaOwn, seaWas, seaMissed

seaVars == <<sea, seaSeen, seaBack, seaDrawn, seaOwn, seaWas, seaMissed>>

NoSea == [tick |-> Never, at |-> 0, table |-> 0]
Near(a, b) == a - b < MaxStep /\ b - a < MaxStep

SeaInit ==
  /\ sea = [at |-> Somewhere, table |-> 0, counter |-> 0]
  /\ seaSeen = NoSea /\ seaBack = <<>> /\ seaDrawn = FALSE
  /\ seaOwn = sea /\ seaWas = sea /\ seaMissed = FALSE

\* The tick fills the grid, in a table of this stage or of another.
SeaExecute(place, table) ==
  /\ Execute
  /\ sea' = [sea EXCEPT !.at = place, !.table = table]
  /\ seaOwn' = [seaOwn EXCEPT !.at = place, !.table = table]
  /\ seaWas' = seaOwn
  /\ UNCHANGED <<seaSeen, seaBack, seaDrawn, seaMissed>>

SeaBlends == Continues(seaSeen) /\ seaSeen.table = sea.table /\ Near(seaSeen.at, sea.at)

\* What onDrawPhaseBegin keeps to put back.
SeaHolds(blends) ==
  <<[counter |-> sea.counter]>> \o (IF blends THEN <<[at |-> sea.at]>> ELSE <<>>)

\* onDrawPhaseBegin, of a gated tick: hold the counter, record the grid, blend it.
\* The packet may not read, the grid may not, or the write is refused.
SeaDrawBegins(outcome) ==
  /\ BeginDraw
  /\ seaDrawn' = FALSE
  /\ seaMissed' = (seaMissed \/ (inTick /\ outcome = "unreadable"))
  /\ IF ~inTick \/ outcome = "unreadable"
       THEN UNCHANGED <<sea, seaSeen, seaBack>>
       ELSE LET blends == outcome = "blended" /\ sea.table # 0 /\ SeaBlends IN
            /\ seaSeen' = IF sea.table = 0 THEN NoSea
                          ELSE IF outcome = "gridless" THEN seaSeen
                          ELSE [tick |-> tick, at |-> sea.at, table |-> sea.table]
            /\ seaBack' = SeaHolds(blends)
            /\ sea' = IF blends THEN [sea EXCEPT !.at = Mid(seaSeen.at, @)] ELSE sea
  /\ UNCHANGED <<seaOwn, seaWas>>

\* daSea_Draw steps the counter, "culled or not".
SeaDraw ==
  /\ InDraw /\ ~seaDrawn /\ seaDrawn' = TRUE
  /\ sea' = [sea EXCEPT !.counter = @ + 1]
  /\ seaOwn' = [seaOwn EXCEPT !.counter = IF inTick THEN @ ELSE @ + 1]
  /\ UNCHANGED <<schedule, seaSeen, seaBack, seaWas, seaMissed>>

\* onDrawPhaseEnd.
SeaDrawEnds ==
  /\ EndDraw /\ seaDrawn
  /\ sea' = IF inTick THEN PutBack(seaBack, sea) ELSE sea
  /\ seaBack' = IF inTick THEN <<>> ELSE seaBack
  /\ UNCHANGED <<seaSeen, seaDrawn, seaOwn, seaWas, seaMissed>>

SeaNext ==
  \/ Unheard /\ UNCHANGED seaVars
  \/ \E place \in Places, table \in 0..2 : SeaExecute(place, table)
  \/ \E outcome \in {"blended", "refused", "gridless", "unreadable"} : SeaDrawBegins(outcome)
  \/ SeaDraw \/ SeaDrawEnds

\* The in-between draw phase leaves nothing in the sea: neither its midpoint nor
\* a second step of the counter, whatever is switched around it.
SeaKeepsItsOwn == ~InTickDraw /\ ~seaMissed => sea = seaOwn

\* In it, the grid is the tick's or halfway from the last tick's, and halfway
\* only over travel in the same water.
SeaIsBetween ==
  InTickDraw /\ switches = 0 =>
    \/ sea.at = seaOwn.at
    \/ /\ seaWas.table = seaOwn.table /\ Near(seaWas.at, seaOwn.at)
       /\ sea.at = Mid(seaWas.at, seaOwn.at)
=============================================================================
