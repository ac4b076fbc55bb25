-------------------------- MODULE MidPaintListeners --------------------------
(***************************************************************************)
(* title::EnvironmentInterpolation (waves, clouds, snow) and                *)
(* title::ParticleInterpolation as listeners of the in-between paint.  What *)
(* the title keeps in a packet or a pool it uses again for other waves or   *)
(* particles: a blend must not join two of them, and what is blended is in  *)
(* memory only while the in-between paint is open.                          *)
(*                                                                          *)
(* kind says which of them a behaviour is about: they have memory, state    *)
(* and mutexes of their own and never meet.                                 *)
(***************************************************************************)
EXTENDS TitlePaints, FiniteSets

CONSTANTS
  Kinds,   \* of "wave", "cloud", "snow", "particle"
  Slots,   \* of a packet or an emitter's lists
  Radius   \* the spawn or wrap radius: a move is shorter

ASSUME KindsAreKnown == Kinds \subseteq {"wave", "cloud", "snow", "particle"} /\ Radius \in Nat

VARIABLES
  kind,
  slot,        \* guest memory: each slot's status, place, base and age
  seen,        \* m_waves, m_clouds, m_snow or m_seen: a slot and its tick
  blended,     \* ParticleInterpolation's m_blended
  back,        \* m_restores: what to put back, by slot
  calculated   \* whether this tick's draw has calculated the particles
\* History: what the title itself made of each slot at the last tick and at this
\* one, whether it is the same thing in both, and what the paint drew.
VARIABLES own, shown

midPaint == <<kind, slot, seen, blended, back, calculated, own, shown>>

Slot == [on : BOOLEAN, at : Places, base : {0, 1}, age : 0..MaxTicks]
NotSeen == [tick |-> Never, was |-> [on |-> FALSE, at |-> 0, base |-> 0, age |-> 0]]
Apart(a, b) == a.at - b.at >= Radius \/ b.at - a.at >= Radius

MidInit ==
  /\ kind \in Kinds
  /\ slot \in [Slots -> [on : {FALSE}, at : {Somewhere}, base : {0}, age : {0}]]
  /\ seen = [s \in Slots |-> NotSeen] /\ blended = {} /\ back = <<>>
  /\ calculated = FALSE
  /\ own = [s \in Slots |-> [was |-> slot[s], now |-> slot[s], same |-> FALSE]]
  /\ shown = [s \in Slots |-> {}]

-----------------------------------------------------------------------------
(* The title's own moves, from what is in memory.                           *)

Moved(from) ==
  {to \in Slot : /\ from.on /\ to.on /\ to.base = from.base /\ to.age = from.age + 1
                 /\ ~Apart(from, to)}

\* Another wave, cloud, flake or particle in the slot, or the same one put down
\* elsewhere: each leaves the trace the title's own code leaves.
Renewed(from) ==
  {to \in Slot :
     /\ to.on /\ to.age = 0
     /\ from.on => CASE kind = "wave" -> to.base # from.base \/ Apart(from, to)
                     [] kind = "cloud" -> to.base = from.base /\ Apart(from, to)
                     [] kind = "snow" -> to.base # from.base \/ from.age > 0
                     [] OTHER -> to.base = from.base}

Gone(from) == {[from EXCEPT !.on = FALSE]}

TitleMoves ==
  \E to \in [Slots -> Slot] :
    /\ \A s \in Slots : to[s] \in Moved(slot[s]) \cup Renewed(slot[s]) \cup Gone(slot[s])
    /\ slot' = to
    /\ own' = [s \in Slots |-> [was |-> own[s].now, now |-> to[s],
                                same |-> to[s] \in Moved(own[s].now)]]

\* The weather effects move in execute; particles are calculated in the draw.
WeatherExecute ==
  /\ Execute
  /\ IF kind = "particle" THEN UNCHANGED <<slot, own>> ELSE TitleMoves
  /\ calculated' = FALSE
  /\ UNCHANGED <<kind, seen, blended, back, shown>>

Calculate ==
  /\ kind = "particle" /\ phase = "drawing" /\ call = "tick" /\ ~calculated
  /\ TitleMoves /\ calculated' = TRUE
  /\ UNCHANGED <<schedule, kind, seen, blended, back, shown>>

-----------------------------------------------------------------------------
\* What the blends take for one thing.
SameThing(from, to) ==
  CASE kind = "wave" -> from.on /\ to.on /\ from.base = to.base /\ ~Apart(from, to)
    [] kind = "cloud" -> from.on = to.on /\ ~Apart(from, to)
    [] kind = "snow" -> from.on /\ to.on /\ from.base = to.base /\ from.age <= to.age
    [] OTHER -> to.age > from.age

Halfway(s) == [slot[s] EXCEPT !.at = Mid(seen[s].was.at, @)]
Joins(s) == Continues(seen[s]) /\ SameThing(seen[s].was, slot[s])

\* The midpoints of some slots go in; of those kept, what was there is to be put
\* back, in order, so the last change of a slot is what it ends with.
Write(slots, kept) ==
  /\ slot' = [s \in Slots |-> IF s \in slots THEN Halfway(s) ELSE slot[s]]
  /\ back' = [s \in kept \cup DOMAIN back |-> IF s \in kept THEN slot[s] ELSE back[s]]

\* EnvironmentInterpolation::write: a packet that changes is put back whole.
WriteWeather(slots) ==
  Write(slots, IF \E s \in slots : Halfway(s) # slot[s] THEN Slots ELSE {})

\* onMidPaintEnd of an open in-between paint.
PutBackAll == slot' = [s \in Slots |-> IF s \in DOMAIN back THEN back[s] ELSE slot[s]]

\* std::erase_if(m_seen, ...), the particles' alone.
Kept(entry) == IF kind = "particle" /\ entry.tick + 1 < tick THEN NotSeen ELSE entry

MidPaintEnds ==
  /\ BeginDraw
  /\ IF inMidPaint
       THEN /\ PutBackAll /\ back' = <<>>
            /\ seen' = [s \in Slots |-> Kept(seen[s])]
       ELSE UNCHANGED <<slot, back, seen>>
  /\ shown' = [s \in Slots |-> {}]
  /\ UNCHANGED <<kind, blended, calculated, own>>

\* onMidPaintBegin: blendWaves, blendClouds and blendSnow record the packet and
\* blend it; particles wait for their emitters.
MidPaintBegins(outcome) ==
  /\ EndDraw
  /\ kind = "particle" /\ call = "tick" => calculated
  /\ blended' = IF inTick THEN {} ELSE blended
  /\ IF inTick /\ kind # "particle" /\ outcome # "unreadable"
       THEN /\ seen' = [s \in Slots |-> [tick |-> tick, was |-> slot[s]]]
            /\ IF outcome = "blended" THEN WriteWeather({s \in Slots : Joins(s)})
                                      ELSE UNCHANGED <<slot, back>>
       ELSE UNCHANGED <<seen, slot, back>>
  /\ UNCHANGED <<kind, calculated, own, shown>>

\* A second draw of the emitter in one paint finds its particles at their midpoints.
ToBlend(drawn) == drawn \ blended

\* onEmitterDraw: a plain paint records the particles it draws, the in-between
\* one blends them.  read: those that read; a write refused is undone.
EmitterDraw(read, refused) ==
  /\ kind = "particle" /\ phase = "painting"
  /\ LET drawn == {s \in Slots : slot[s].on} IN
       IF inMidPaint
         THEN /\ LET joined == {s \in ToBlend(drawn) \cap read : Joins(s)} \ refused
                 IN Write(joined, joined)
              /\ blended' = blended \cup drawn
              /\ UNCHANGED seen
         ELSE /\ seen' = [s \in Slots |-> IF s \in drawn \cap read
                                            THEN [tick |-> tick, was |-> slot[s]]
                                            ELSE seen[s]]
              /\ UNCHANGED <<slot, blended, back>>
  /\ shown' = [s \in Slots |-> shown[s] \cup {slot'[s].at}]
  /\ UNCHANGED <<schedule, kind, calculated, own>>

WeatherDraw ==
  /\ kind # "particle" /\ phase = "painting" /\ shown = [s \in Slots |-> {}]
  /\ shown' = [s \in Slots |-> {slot[s].at}]
  /\ UNCHANGED <<schedule, kind, slot, seen, blended, back, calculated, own>>

MidNext ==
  \/ Unheard /\ UNCHANGED midPaint
  \/ WeatherExecute \/ Calculate \/ MidPaintEnds \/ WeatherDraw
  \/ \E outcome \in {"blended", "refused", "unreadable"} : MidPaintBegins(outcome)
  \/ \E read, refused \in SUBSET Slots : EmitterDraw(read, refused)

-----------------------------------------------------------------------------
\* Once the in-between paint has closed, the packet or pool is as the title left
\* it, whatever was refused, renewed or drawn twice, and for particles whatever
\* is switched meanwhile: the title's next move starts from its own values.
ClosesClean ==
  ~inMidPaint /\ (kind = "particle" \/ switches = 0) => \A s \in Slots : slot[s] = own[s].now

\* While nothing is switched, a paint shows each wave, cloud, flake or particle
\* where a tick put it, and the in-between one maybe halfway: never halfway
\* between two different ones, and never from further back than a tick.
NeverAcrossABreak ==
  switches = 0 /\ phase = "painting" =>
    \A s \in Slots : slot[s].on =>
      shown[s] \subseteq {own[s].now.at}
        \cup (IF inMidPaint /\ own[s].same THEN {Mid(own[s].was.at, own[s].now.at)} ELSE {})
=============================================================================
