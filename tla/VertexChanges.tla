---------------------------- MODULE VertexChanges ----------------------------
(***************************************************************************)
(* Whether the title's draws read vertex bytes it rewrote since the frame   *)
(* before, by vertex shader (VertexChanges): always for the shaders that    *)
(* read no uniforms, over a census asked for from the control channel for   *)
(* the others, whole and by attribute.  A hash of bytes is the bytes.       *)
(***************************************************************************)
EXTENDS Integers, Sequences, FiniteSets

CONSTANTS
  Plain, Lit,   \* the vertex shaders without and with uniforms
  Attributes,   \* what a Lit draw reads per vertex
  Hashes,       \* an attribute's bytes
  MaxDrawn,     \* bound: draws of a behaviour
  MaxDrawFrames,\* bound: frames of a behaviour
  MaxCensus     \* kMaxCensusFrames

\* Whether a draw has uniforms is its vertex shader's.
ASSUME ShadersAreKnown == Plain \cap Lit = {}

VARIABLES
  changes,   \* VertexChanges' members: three tallies and the census
  drawn      \* what the title drew, this frame and the one before, and what that counts to

changeVars == <<changes, drawn>>

Bytes == [Attributes -> Hashes]
NoCounts == [draws |-> 0, compared |-> 0, changed |-> 0]

\* A Tally by whatever read the bytes; a key never seen reads as an empty frame.
NoTally(keys) == [counts |-> [k \in keys |-> NoCounts], frame |-> [k \in keys |-> <<>>],
                  previous |-> [k \in keys |-> <<>>]]

Tallied(tally, key, hash) ==
  [tally EXCEPT !.counts[key].draws = @ + 1, !.frame[key] = Append(@, hash)]

ReadBefore(tally, key, hash) == \E i \in DOMAIN tally.previous[key] : tally.previous[key][i] = hash

\* compareFrame: a key with no draw the frame before is not compared.
Compared(tally) ==
  [counts |-> [k \in DOMAIN tally.counts |->
     IF tally.previous[k] = <<>> THEN tally.counts[k]
     ELSE [tally.counts[k] EXCEPT
             !.compared = @ + Len(tally.frame[k]),
             !.changed = @ + Cardinality({i \in DOMAIN tally.frame[k] :
                                            ~ReadBefore(tally, k, tally.frame[k][i])})]],
   previous |-> tally.frame,
   frame |-> [k \in DOMAIN tally.frame |-> <<>>]]

Pairs == Lit \X Attributes

ChangesInit ==
  /\ changes = [plain |-> NoTally(Plain), lit |-> NoTally(Lit), attributes |-> NoTally(Pairs),
                asked |-> 0, taken |-> 0]
  /\ drawn = [now |-> <<>>, before |-> <<>>, frame |-> 1, first |-> 0, whole |-> TRUE, all |-> 0,
              counts |-> [s \in Plain \cup Lit |-> NoCounts]]

InCensus == changes.taken < changes.asked

AttributesAdded(shader, bytes) ==
  LET tally == changes.attributes
  IN [tally EXCEPT
       !.counts = [p \in Pairs |-> IF p[1] = shader THEN [tally.counts[p] EXCEPT !.draws = @ + 1]
                                   ELSE tally.counts[p]],
       !.frame = [p \in Pairs |-> IF p[1] = shader THEN Append(tally.frame[p], bytes[p[2]])
                                  ELSE tally.frame[p]]]

OnDraw(shader, bytes) ==
  /\ drawn.all < MaxDrawn
  /\ drawn' = [drawn EXCEPT !.now = Append(@, <<shader, bytes>>), !.all = @ + 1,
                            !.counts[shader].draws = @ + 1]
  /\ changes' = CASE shader \in Plain ->
                       [changes EXCEPT !.plain = Tallied(@, shader, bytes)]
                [] shader \in Lit /\ InCensus ->
                       [changes EXCEPT !.lit = Tallied(@, shader, bytes),
                                       !.attributes = AttributesAdded(shader, bytes)]
                [] OTHER -> changes

\* What a frame counts to, of all that the title drew in it and the frame before.
Of(drew, shader) == {i \in DOMAIN drew : drew[i][1] = shader}
CountedTo(shader) ==
  LET now == Of(drawn.now, shader)
      before == Of(drawn.before, shader)
      first == shader \in Lit /\ drawn.first = drawn.frame
  IN IF before = {} \/ first \/ (shader \in Lit /\ ~InCensus) THEN drawn.counts[shader]
     ELSE [drawn.counts[shader] EXCEPT
             !.compared = @ + Cardinality(now),
             !.changed = @ + Cardinality({i \in now : \A j \in before : drawn.now[i] # drawn.before[j]})]

DrawFrameComplete ==
  /\ drawn.frame < MaxDrawFrames
  /\ changes' = IF InCensus
                THEN [changes EXCEPT !.plain = Compared(@), !.lit = Compared(@),
                                     !.attributes = Compared(@), !.taken = @ + 1]
                ELSE [changes EXCEPT !.plain = Compared(@)]
  /\ drawn' = [drawn EXCEPT !.now = <<>>, !.before = drawn.now, !.frame = @ + 1,
                            !.counts = [s \in Plain \cup Lit |-> CountedTo(s)]]

\* Mutant: a new census zeroes its counts and keeps the frame it compared last.
RequestKeepsFrame(count) ==
  /\ changes' = [changes EXCEPT !.lit.counts = [s \in Lit |-> NoCounts],
                                !.attributes.counts = [p \in Pairs |-> NoCounts],
                                !.asked = count, !.taken = 0]
  /\ drawn' = [drawn EXCEPT !.first = drawn.frame, !.whole = (drawn.now = <<>>),
                            !.counts = [s \in Plain \cup Lit |-> IF s \in Lit THEN NoCounts ELSE @[s]]]

RequestCensus(count) ==
  /\ changes' = [changes EXCEPT !.lit = NoTally(Lit), !.attributes = NoTally(Pairs),
                                !.asked = count, !.taken = 0]
  /\ drawn' = [drawn EXCEPT !.first = drawn.frame, !.whole = (drawn.now = <<>>),
                            !.counts = [s \in Plain \cup Lit |-> IF s \in Lit THEN NoCounts ELSE @[s]]]

\* POST /draws, which refuses a count that is none or above the cap.
PostDraws(count) == IF count \in 1..MaxCensus THEN RequestCensus(count) ELSE UNCHANGED changeVars

ChangesNext ==
  \/ \E shader \in Plain \cup Lit, bytes \in Bytes : OnDraw(shader, bytes)
  \/ DrawFrameComplete
  \/ \E count \in 0..MaxCensus + 1 : PostDraws(count)

ChangesSpec == ChangesInit /\ [][ChangesNext]_changeVars
-----------------------------------------------------------------------------
\* The shaders without uniforms are counted since the start, however the census runs.
PlainIsExact == \A s \in Plain : changes.plain.counts[s] = drawn.counts[s]

\* What a census compares, it compares with the whole of the frame before.
CensusComparesFrames ==
  \A s \in Lit : /\ changes.lit.counts[s].compared = drawn.counts[s].compared
                 /\ changes.lit.counts[s].changed = drawn.counts[s].changed

\* By attribute a draw is the same draw, and no attribute of it changes that its bytes do not.
AttributesAgree ==
  \A s \in Lit, a \in Attributes :
    LET all == changes.lit.counts[s] one == changes.attributes.counts[<<s, a>>]
    IN one.draws = all.draws /\ one.compared = all.compared /\ one.changed <= all.changed

\* A census asked for between two frames counts what the title drew from it on.
ChangesAreCounted == PlainIsExact /\ AttributesAgree /\ (drawn.whole => CensusComparesFrames)

\* VertexChanges.h: "a draw has changed when no draw of its vertex shader read the same
\* bytes the frame before", whenever the census is asked for.
OnlyRewrittenIsChanged == \A s \in Lit : changes.lit.counts[s].changed <= drawn.counts[s].changed
=============================================================================
