----------------------------- MODULE TitlePaints -----------------------------
(***************************************************************************)
(* The order in which title::DrawInterpolation calls its listeners: a draw  *)
(* phase opens and closes in each call of the title's frame logic, and what *)
(* is painted after the draw phase of a gated tick is the in-between paint, *)
(* open until the next draw phase.  DrawInterpolation implements this, and  *)
(* the listeners are modelled over it.                                      *)
(***************************************************************************)
EXTENDS Integers, Sequences, SequencesExt, TLC

CONSTANTS
  Places,      \* what a blend halves: places, frames, views
  Switches,    \* what requests change: "interpolation", "logic"
  MaxTicks,    \* bound: calls that run the frame logic
  MaxSwitches  \* bound: requests

ASSUME PlacesAreEven == Places \subseteq {2 * n : n \in 0..100} /\ Places # {}
ASSUME SwitchesAreKnown == Switches \subseteq {"interpolation", "logic"}
ASSUME BoundsAreNatural == MaxTicks \in Nat /\ MaxSwitches \in Nat

VARIABLES
  enabled,             \* m_enabled
  gate,                \* LogicGate::enabled(), and whether the guest's count is odd
  call,                \* the call the title is in: "tick" or "skip"
  phase,               \* "call", "logic", "draw", "drawing", "painting"
  inTick, inMidPaint,  \* m_inTick, m_inMidPaint
  tick,                \* m_tick
  ticks, switches      \* the bounds' counters

schedule == <<enabled, gate, call, phase, inTick, inMidPaint, tick, ticks, switches>>

ScheduleInit ==
  /\ enabled = TRUE /\ inTick = FALSE /\ inMidPaint = FALSE /\ tick = 0
  /\ gate \in [in : BOOLEAN, odd : {FALSE}]
  /\ call = "skip" /\ phase = "call" /\ ticks = 0 /\ switches = 0

\* onManagement, in a call the gate lets through or does not count.
TickCall ==
  /\ phase = "call" /\ ticks < MaxTicks
  /\ gate.in => ~gate.odd
  /\ gate' = [gate EXCEPT !.odd = @ \/ gate.in]
  /\ call' = "tick" /\ ticks' = ticks + 1 /\ phase' = "logic"
  /\ inTick' = (gate.in /\ enabled)
  /\ tick' = IF inTick' THEN tick + 1 ELSE tick
  /\ UNCHANGED <<enabled, inMidPaint, switches>>

\* A call the gate sends to its draw phase alone.
SkipCall ==
  /\ phase = "call" /\ gate.in /\ gate.odd
  /\ gate' = [gate EXCEPT !.odd = FALSE]
  /\ call' = "skip" /\ phase' = "draw"
  /\ UNCHANGED <<enabled, inTick, inMidPaint, tick, ticks, switches>>

Execute ==
  /\ phase = "logic" /\ phase' = "draw"
  /\ UNCHANGED <<enabled, gate, call, inTick, inMidPaint, tick, ticks, switches>>

\* onBeforeDraw: the in-between paint closes, and a gated tick's draw phase opens.
BeginDraw ==
  /\ phase = "draw" /\ phase' = "drawing"
  /\ inMidPaint' = FALSE
  /\ UNCHANGED <<enabled, gate, call, inTick, tick, ticks, switches>>

\* onAfterDraw: the gated tick's draw phase closes, and its paint opens.
EndDraw ==
  /\ phase = "drawing" /\ phase' = "painting"
  /\ inMidPaint' = inTick /\ inTick' = FALSE
  /\ UNCHANGED <<enabled, gate, call, tick, ticks, switches>>

EndPaint ==
  /\ phase = "painting" /\ phase' = "call"
  /\ UNCHANGED <<enabled, gate, call, inTick, inMidPaint, tick, ticks, switches>>

SwitchInterpolation ==
  /\ "interpolation" \in Switches /\ switches < MaxSwitches
  /\ enabled' = ~enabled /\ switches' = switches + 1
  /\ UNCHANGED <<gate, call, phase, inTick, inMidPaint, tick, ticks>>

SwitchLogic ==
  /\ "logic" \in Switches /\ switches < MaxSwitches
  /\ gate' = [gate EXCEPT !.in = ~@] /\ switches' = switches + 1
  /\ UNCHANGED <<enabled, call, phase, inTick, inMidPaint, tick, ticks>>

\* Steps no listener hears of.
Unheard == TickCall \/ SkipCall \/ EndPaint \/ SwitchInterpolation \/ SwitchLogic

ScheduleSpec == ScheduleInit /\ [][Unheard \/ Execute \/ BeginDraw \/ EndDraw]_schedule

-----------------------------------------------------------------------------
(* What the listeners have in common.                                       *)

Somewhere == CHOOSE p \in Places : TRUE

Mid(a, b) == (a + b) \div 2
Never == -2  \* the tick of an entry not made: no tick follows it

\* The entry was made at the tick before this one.
Continues(seen) == seen.tick + 1 = tick

\* Memory with changes put back in their order, records of fields and values: the last
\* change of a field is what it ends with.
LastOf(changes, field) ==
  LET of == {i \in DOMAIN changes : field \in DOMAIN changes[i]}
  IN CHOOSE i \in of : \A j \in of : j <= i
PutBack(changes, m) ==
  [field \in DOMAIN m |->
     IF \E i \in DOMAIN changes : field \in DOMAIN changes[i]
       THEN changes[LastOf(changes, field)][field] ELSE m[field]]

InDraw == phase = "drawing"
InTickDraw == InDraw /\ inTick
=============================================================================
