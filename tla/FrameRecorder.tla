---------------------------- MODULE FrameRecorder ----------------------------
(***************************************************************************)
(* The recorder behind the fork's hooks (RecordingObserver), the recording  *)
(* of one frame it fills (FrameRecording), and its two frame-end listeners: *)
(* the snapshot a tool arms (RecordingSnapshot) and the log of the last     *)
(* frames' shapes (FrameShapeLog).  The rendering thread draws; the control *)
(* channel's arms a snapshot and reads it at any moment.                    *)
(***************************************************************************)
EXTENDS Integers, Sequences, FiniteSets, SequencesExt, Places

CONSTANTS
  Draws,        \* what the guest may issue: <<"list" or "assembly", bytes>>
  Budget,       \* a recording's byte budget (kDefaultByteBudget)
  MaxDraws,     \* bound: draws of a behaviour
  MaxFrames,    \* bound: frames of a behaviour
  MaxSnapshot,  \* kMaxFrames of a snapshot
  LogDepth      \* the shapes kept

Held == {"list", "assembly"}

ASSUME DrawsAreOfBytes == Draws \subseteq Held \X Nat /\ Budget \in Nat /\ LogDepth \in Nat

VARIABLES
  recorder,   \* m_inFlight, m_completed, m_previous: one rotation of storage
  snapshot,   \* RecordingSnapshot's members; since and of are the frames before it was armed
  shapes,     \* FrameShapeLog's members
  frames      \* what the guest drew: one sequence a frame, the last not complete yet

recorderVars == <<recorder, snapshot, shapes, frames>>

\* A recording: storage kept from earlier frames, of which the first count are this frame's.
NoRecording == [slots |-> [k \in Held |-> <<>>], count |-> [k \in Held |-> 0],
                bytes |-> 0, refused |-> 0]

RecorderInit ==
  /\ recorder = [inFlight |-> NoRecording, completed |-> NoRecording, previous |-> NoRecording]
  /\ snapshot = [wanted |-> 0, filling |-> <<>>, ready |-> <<>>, since |-> 0, of |-> 0]
  /\ shapes = [kept |-> <<>>, logged |-> 0]
  /\ frames = <<<<>>>>

HeldOf(r, k) == SubSeq(r.slots[k], 1, r.count[k])
IsComplete(r) == r.refused = 0

Reserves(r, bytes) == r.bytes + bytes <= Budget

\* addDisplayList and addUniformAssembly: a slot used before is written over.
Added(r, k, drawn) ==
  IF Reserves(r, drawn.bytes)
  THEN [r EXCEPT !.bytes = @ + drawn.bytes,
                 !.count[k] = @ + 1,
                 !.slots[k] = IF r.count[k] = Len(@) THEN Append(@, drawn)
                              ELSE [@ EXCEPT ![r.count[k] + 1] = drawn]]
  ELSE [r EXCEPT !.refused = @ + 1]

\* Mutant: the count of what was refused survives into the next frame.
ClearedButRefused(r) == [r EXCEPT !.count = [k \in Held |-> 0], !.bytes = 0]

Cleared(r) == [r EXCEPT !.count = [k \in Held |-> 0], !.bytes = 0, !.refused = 0]

Frame == Len(frames)
DrawnBy(draw) == [of |-> Frame, bytes |-> draw[2]]
Drawing == Len(FlattenSeq(frames)) < MaxDraws

\* The guest issues a draw of its own: no buffer's nested part and no replay.
GuestDraws(k, draw) ==
  /\ Drawing /\ draw[1] = k
  /\ frames' = [frames EXCEPT ![Frame] = Append(@, draw)]

Records(k, draw) == recorder' = [recorder EXCEPT !.inFlight = Added(@, k, DrawnBy(draw))]

OnDisplayList(draw, fromRuntime, topLevel) ==
  /\ IF ~fromRuntime /\ topLevel
     THEN GuestDraws("list", draw) /\ Records("list", draw)
     ELSE draw[1] = "list" /\ UNCHANGED <<recorder, frames>>
  /\ UNCHANGED <<snapshot, shapes>>

OnUniformAssembly(draw, fromRuntime) ==
  /\ IF fromRuntime
     THEN draw[1] = "assembly" /\ UNCHANGED <<recorder, frames>>
     ELSE GuestDraws("assembly", draw) /\ Records("assembly", draw)
  /\ UNCHANGED <<snapshot, shapes>>

ShapeOf(r) == [lists |-> r.count["list"], assemblies |-> r.count["assembly"], bytes |-> r.bytes,
               complete |-> IsComplete(r), index |-> shapes.logged]

LogsShape(r) ==
  LET all == Append(shapes.kept, ShapeOf(r))
  IN shapes' = [kept |-> SubSeq(all, 1 + Len(all) - (IF Len(all) > LogDepth THEN LogDepth ELSE Len(all)),
                                Len(all)),
                logged |-> shapes.logged + 1]

\* RecordingSnapshot::onFrameRecorded.
FillsSnapshot(r) ==
  LET filled == Append(snapshot.filling, [complete |-> IsComplete(r), held |-> HeldOf(r, "assembly")])
  IN CASE snapshot.wanted = 0 -> UNCHANGED snapshot
     [] Len(filled) < snapshot.wanted -> snapshot' = [snapshot EXCEPT !.filling = filled]
     [] OTHER -> snapshot' = [snapshot EXCEPT !.ready = filled, !.filling = <<>>, !.wanted = 0,
                                              !.of = snapshot.since]

Rotated == [previous |-> recorder.completed, completed |-> recorder.inFlight,
            inFlight |-> Cleared(recorder.previous)]

OnFrameComplete ==
  /\ Frame < MaxFrames
  /\ recorder' = Rotated
  /\ LogsShape(recorder'.completed) /\ FillsSnapshot(recorder'.completed)
  /\ frames' = Append(frames, <<>>)

Arms(count) == count \in 1..MaxSnapshot /\ snapshot.wanted = 0

\* POST /recordings: arm, or refuse.
PostRecordings(count) ==
  /\ IF Arms(count)
     THEN snapshot' = [snapshot EXCEPT !.wanted = count, !.filling = <<>>, !.since = Frame - 1]
     ELSE UNCHANGED snapshot
  /\ UNCHANGED <<recorder, shapes, frames>>

RecorderNext ==
  \/ \E draw \in Draws, fromRuntime, topLevel \in BOOLEAN : OnDisplayList(draw, fromRuntime, topLevel)
  \/ \E draw \in Draws, fromRuntime \in BOOLEAN : OnUniformAssembly(draw, fromRuntime)
  \/ OnFrameComplete
  \/ \E count \in 0..MaxSnapshot + 1 : PostRecordings(count)
-----------------------------------------------------------------------------
\* The snapshot framed for the wire, a value a token; an assembly's data are of its frame.
Magic == -1
FramedAssembly(held) == <<held.of, held.bytes>> \o [i \in 1..held.bytes |-> held.of]
FramedFrame(frame) ==
  <<IF frame.complete THEN 1 ELSE 0, Len(frame.held)>>
    \o FlattenSeq([i \in DOMAIN frame.held |-> FramedAssembly(frame.held[i])])
Framed(ready) ==
  IF ready = <<>> THEN <<>>
  ELSE <<Magic, Len(ready)>> \o FlattenSeq([i \in DOMAIN ready |-> FramedFrame(ready[i])])

\* Reader: takes off the front what is there; past the end (at 0) it has refused.
Ended(reader, tokens, size) == reader.at = 0 \/ reader.at + size - 1 > Len(tokens)
Past == [at |-> 0, took |-> <<>>]

TakesAssemblies(tokens, from, count) ==
  LET took[i \in 0..count] ==
        IF i = 0 THEN [at |-> from, took |-> <<>>]
        ELSE IF Ended(took[i - 1], tokens, 2) THEN Past
        ELSE LET at == took[i - 1].at
                 size == tokens[at + 1]
             IN IF Ended([at |-> at + 2], tokens, size) THEN Past
                ELSE [at |-> at + 2 + size,
                      took |-> Append(took[i - 1].took, [of |-> tokens[at], bytes |-> size])]
  IN took[count]

TakesFrames(tokens, from, count) ==
  LET took[i \in 0..count] ==
        IF i = 0 THEN [at |-> from, took |-> <<>>]
        ELSE IF Ended(took[i - 1], tokens, 2) THEN Past
        ELSE LET at == took[i - 1].at
                 inside == TakesAssemblies(tokens, at + 2, tokens[at + 1])
             IN IF inside.at = 0 THEN Past
                ELSE [at |-> inside.at,
                      took |-> Append(took[i - 1].took, [complete |-> tokens[at] # 0, held |-> inside.took])]
  IN took[count]

\* parse: the frames, or none where it does not start, end or go on as framed.
Refused == "refused"
Parse(tokens) ==
  IF Len(tokens) < 2 \/ tokens[1] # Magic THEN Refused
  ELSE LET reader == TakesFrames(tokens, 3, tokens[2])
       IN IF reader.at = Len(tokens) + 1 THEN reader.took ELSE Refused
-----------------------------------------------------------------------------
\* All the guest drew in a frame, and which of it is of a kind.
BytesOf(frame) == LET sum[i \in 0..Len(frame)] == IF i = 0 THEN 0 ELSE sum[i - 1] + frame[i][2]
                  IN sum[Len(frame)]
DrawnIn(frame, k) == {i \in DOMAIN frame : frame[i][1] = k}

\* What is held is those draws of frame n, in the order drawn.
HasDraws(held, n, frame, some) ==
  /\ Len(held) = Cardinality(some)
  /\ \A i \in some : held[PlaceIn(i, some)] = [of |-> n, bytes |-> frame[i][2]]

\* What says it is complete is the whole frame, in order; what is not says so.
Tells(complete, held, n, k) ==
  LET drawn == DrawnIn(frames[n], k)
  IN /\ complete <=> BytesOf(frames[n]) <= Budget
     /\ IF complete THEN HasDraws(held, n, frames[n], drawn)
        ELSE \E some \in SUBSET drawn : HasDraws(held, n, frames[n], some)

\* The frame published last and the one before it are the guest's last two, drawn whole or
\* said to be incomplete, with nothing of a replay, a nested buffer or an older frame in
\* the storage they reuse.
RecordingsAreFrames ==
  \A k \in Held :
    /\ Frame > 1 => Tells(IsComplete(recorder.completed), HeldOf(recorder.completed, k), Frame - 1, k)
    /\ Frame > 2 => Tells(IsComplete(recorder.previous), HeldOf(recorder.previous, k), Frame - 2, k)

\* A snapshot is the frames that ended after it was armed, consecutive, the first of them
\* the one being drawn then.
SnapshotIsConsecutive ==
  \A i \in DOMAIN snapshot.ready :
    Tells(snapshot.ready[i].complete, snapshot.ready[i].held, snapshot.of + i, "assembly")

\* What was framed reads back as it was, and a body cut short or gone on with is refused.
FramingIsWhole ==
  LET tokens == Framed(snapshot.ready)
  IN tokens # <<>> =>
       /\ Parse(tokens) = snapshot.ready
       /\ \A n \in 0..Len(tokens) - 1 : Parse(SubSeq(tokens, 1, n)) = Refused
       /\ Parse(Append(tokens, 1)) = Refused

\* The log is the last frames' shapes, each counted once.
ShapesAreLast ==
  \A i \in DOMAIN shapes.kept :
    LET n == Frame - 1 - Len(shapes.kept) + i
    IN /\ shapes.kept[i].index = n - 1
       /\ shapes.kept[i].complete <=> BytesOf(frames[n]) <= Budget
       /\ shapes.kept[i].complete => shapes.kept[i].lists = Cardinality(DrawnIn(frames[n], "list"))
=============================================================================
