---------------------------- MODULE PresentPacing ----------------------------
(***************************************************************************)
(* The intervals between frames handed to the display, or between frames    *)
(* that reached the screen, the title's and the runtime's alike             *)
(* (PresentPacing).  Fed on the rendering thread, restarted and read from   *)
(* the control channel's.                                                   *)
(***************************************************************************)
EXTENDS Integers, Sequences, FiniteSets, Places

CONSTANTS
  Clocks,        \* the clocks scan-out times are of; 0 is the renderer's own
  Lengths,       \* how far apart two frames are
  MaxShown,      \* bound: frames of a behaviour
  MaxRestarts,   \* bound: restarts of a behaviour
  MaxIntervals   \* kMaxIntervals

ASSUME TimesAreMeasured == Lengths \subseteq Nat /\ MaxIntervals \in Nat

VARIABLES
  pacing,   \* PresentPacing's members
  shown     \* what feeds it, the time, the frame whose stage is set, and the frames since a restart

pacingVars == <<pacing, shown>>

NoFrame == [at |-> 0, clock |-> 0, fromRuntime |-> FALSE]

PacingInit ==
  /\ pacing = [seenOne |-> FALSE, last |-> NoFrame, guest |-> 0, runtime |-> 0,
               intervals |-> 0, kept |-> <<>>]
  /\ \E fed \in {"displayed", "scanned"} : shown =
              [fed |-> fed, now |-> 0, scanned |-> <<>>, since |-> <<>>, all |-> 0,
               restarts |-> 0]

Interval(from, to) == [length |-> to.at - from.at, fromRuntime |-> from.fromRuntime,
                       toRuntime |-> to.fromRuntime]

\* record, under the lock.
Recorded(frame) ==
  /\ pacing' =
       LET follows == pacing.seenOne /\ frame.clock = pacing.last.clock
           keeps == follows /\ Len(pacing.kept) < MaxIntervals
       IN [seenOne |-> TRUE, last |-> frame,
           guest |-> pacing.guest + (IF frame.fromRuntime THEN 0 ELSE 1),
           runtime |-> pacing.runtime + (IF frame.fromRuntime THEN 1 ELSE 0),
           intervals |-> pacing.intervals + (IF follows THEN 1 ELSE 0),
           kept |-> IF keeps THEN Append(pacing.kept, Interval(pacing.last, frame)) ELSE pacing.kept]

\* The next frame is handed over, or reaches the screen, some time after the last.
NextFrame(length, clock, fromRuntime) ==
  [at |-> shown.now + length, clock |-> clock, fromRuntime |-> fromRuntime]

Follows(frame) == [shown EXCEPT !.now = frame.at, !.all = @ + 1, !.since = Append(@, frame)]

OnDisplayed(length, fromRuntime) ==
  LET frame == NextFrame(length, 0, fromRuntime)
  IN /\ shown.fed = "displayed" /\ shown.all < MaxShown
     /\ Recorded(frame) /\ shown' = Follows(frame)

\* onScannedOut takes the lock for the stage, and again to record.
OnScannedOut(length, clock, fromRuntime) ==
  /\ shown.fed = "scanned" /\ shown.all < MaxShown /\ shown.scanned = <<>>
  /\ shown' = [shown EXCEPT !.scanned = <<NextFrame(length, clock, fromRuntime)>>]
  /\ UNCHANGED pacing

RecordsScannedOut ==
  /\ shown.scanned # <<>>
  /\ Recorded(shown.scanned[1])
  /\ shown' = [Follows(shown.scanned[1]) EXCEPT !.scanned = <<>>]

Restart ==
  /\ pacing' = [pacing EXCEPT !.seenOne = FALSE, !.guest = 0, !.runtime = 0, !.intervals = 0,
                              !.kept = <<>>]
  /\ shown' = [shown EXCEPT !.since = <<>>, !.restarts = @ + 1]

PostPacing == shown.restarts < MaxRestarts /\ Restart

PacingNext ==
  \/ \E length \in Lengths, fromRuntime \in BOOLEAN :
       OnDisplayed(length, fromRuntime)
  \/ \E length \in Lengths, clock \in Clocks, fromRuntime \in BOOLEAN :
       OnScannedOut(length, clock, fromRuntime)
  \/ RecordsScannedOut
  \/ PostPacing
-----------------------------------------------------------------------------
AtMost(lengths, bound) == Cardinality({i \in DOMAIN lengths : lengths[i] <= bound})

\* percentile: what nth_element leaves at rank floor(percent * (n - 1)); of none, zero.
Percentile(lengths, percent) ==
  LET rank == (percent * (Cardinality(DOMAIN lengths) - 1)) \div 100
  IN IF DOMAIN lengths = {} THEN 0
     ELSE CHOOSE one \in {lengths[i] : i \in DOMAIN lengths} :
            AtMost(lengths, one - 1) <= rank /\ rank < AtMost(lengths, one)

\* The lengths of the intervals kept that are from and to such frames.
LengthsOf(froms, tos) ==
  [i \in {n \in DOMAIN pacing.kept : /\ pacing.kept[n].fromRuntime \in froms
                                    /\ pacing.kept[n].toRuntime \in tos} |-> pacing.kept[i].length]

Summary ==
  [p50 |-> Percentile(LengthsOf(BOOLEAN, BOOLEAN), 50),
   p95 |-> Percentile(LengthsOf(BOOLEAN, BOOLEAN), 95),
   longest |-> Percentile(LengthsOf(BOOLEAN, BOOLEAN), 100),
   guestToRuntime |-> Percentile(LengthsOf({FALSE}, {TRUE}), 50),
   runtimeToGuest |-> Percentile(LengthsOf({TRUE}, {FALSE}), 50)]

\* "A measurement covers only what follows": of the frames since the last restart, each
\* interval is between two that follow one another on one clock, and no other is measured.
MeasuresSinceRestart ==
  LET follow == {i \in 2..Len(shown.since) : shown.since[i - 1].clock = shown.since[i].clock}
      count == Cardinality(follow)
  IN /\ pacing.intervals = count
     /\ Len(pacing.kept) = (IF count > MaxIntervals THEN MaxIntervals ELSE count)
     /\ \A i \in follow : PlaceIn(i, follow) <= Len(pacing.kept) =>
          pacing.kept[PlaceIn(i, follow)] = Interval(shown.since[i - 1], shown.since[i])
     /\ pacing.guest + pacing.runtime = Len(shown.since)

\* What the summary calls the longest is no shorter than any kept, and at least half of
\* the intervals are no longer than its median, as many no shorter.
SummaryIsOfKept ==
  LET all == LengthsOf(BOOLEAN, BOOLEAN)
      count == Len(pacing.kept)
  IN pacing.kept # <<>> =>
       /\ AtMost(all, Summary.longest) = count /\ 2 * AtMost(all, Summary.p50) >= count
       /\ 2 * AtMost(all, Summary.p50 - 1) <= count
       /\ Summary.p50 <= Summary.p95 /\ Summary.p95 <= Summary.longest
=============================================================================
