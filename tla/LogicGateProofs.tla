--------------------------- MODULE LogicGateProofs ---------------------------
(***************************************************************************)
(* The skipped call of the logic gate, for every setting: any refused      *)
(* write, any probe left out, any number of requests, and blocks rewritten *)
(* between any two words the guest runs.                                   *)
(***************************************************************************)
EXTENDS LogicGate, SequenceTheorems, TLAPS

FrameWords == {"count", "test", "tick", "body", "mark", "draw", "unmark", "flip",
               "return", "load", "jump", "zero"}
CallWords == {"compare", "see", "calc", "return", "zero"}

\* Whatever is written, or half written, each place holds a word of one of the payloads
\* or, past the first, the zero it was allocated with; so a word of the skipped call
\* stands in its own place or nowhere.
Fits(region, i, word) ==
  \/ /\ region = "frame" /\ i \in 1..9 /\ word \in FrameWords
     /\ i = 1 => word \in {"body", "count", "load"}
     /\ i = 2 => word \in {"test", "jump", "zero"}
     /\ i = 3 => word \in {"tick", "zero"}
     /\ i = 4 => word \in {"body", "zero"}
     /\ i = 5 => word \in {"mark", "zero"}
     /\ i = 6 => word \in {"draw", "zero"}
     /\ i = 7 => word \in {"unmark", "zero"}
     /\ i = 8 => word \in {"flip", "zero"}
     /\ i = 9 => word \in {"return", "zero"}
  \/ /\ region = "controller" /\ i \in 1..4 /\ word \in CallWords
     /\ i = 1 => word \in {"calc", "compare"}
     /\ i = 2 => word \in {"see", "zero"}
     /\ i = 3 => word \in {"calc", "zero"}
     /\ i = 4 => word \in {"return", "zero"}

Writes == {w \in [region : Calls, i : 1..9, word : FrameWords \cup CallWords] :
             Fits(w.region, w.i, w.word)}

BlocksFit ==
  /\ block \in [frame : [1..9 -> FrameWords], controller : [1..4 -> CallWords]]
  /\ \A i \in 1..9 : Fits("frame", i, block.frame[i])
  /\ \A i \in 1..4 : Fits("controller", i, block.controller[i])

KindsOK ==
  /\ setting \in Settings
  /\ in \in setting.kinds \cup {"out"} /\ wants \in setting.kinds \cup {"out"}
  /\ requests \in 0..MaxRequests

TodoFits == todo \in Seq(Writes) /\ Len(todo) <= 13

Places == {Title} \cup ({"frame"} \X (1..9)) \cup ({"controller"} \X (1..4))

GuestOK ==
  /\ pc \in Places
  /\ counters \in [odd : BOOLEAN, ticked : BOOLEAN, skipping : BOOLEAN]
  /\ reg \in {"none", "odd", "even", "loaded"} /\ turn \in {1, 2}
  /\ fate \in {"ok", "illegal", "wild"}
  /\ order \in {<<"frame", "controller">>, <<"controller", "frame">>}

\* The call is marked just before its draw, and the mark outlives it by one word.
Marked ==
  /\ counters.skipping => pc = <<"frame", 6>> \/ pc = <<"frame", 7>>
  /\ pc = <<"frame", 6>> => counters.skipping

SlipMeansUnwired == sceneSlip => "scene" \notin wired

\* What a request for a kind leaves in the two blocks.
FrameTarget(kind) ==
  CASE kind = "gate" -> GateWords [] kind = "counter" -> ThroughWords.counter [] OTHER -> <<"body">>
CallTarget(kind) == IF kind = "gate" THEN ControllerWords ELSE <<"calc">>
Targets(kind) ==
  {Write("frame", i, FrameTarget(kind)[i]) : i \in 1..Len(FrameTarget(kind))}
    \cup {Write("controller", i, CallTarget(kind)[i]) : i \in 1..Len(CallTarget(kind))}
Stands(w) == block[w.region][w.i] = w.word
Left(w) == \E j \in 1..Len(todo) : todo[j] = w

\* Each word a request asks for stands or is still to be written, and no other is.
InHand ==
  /\ \A w \in Targets(wants) : Stands(w) \/ Left(w)
  /\ \A j \in 1..Len(todo) : todo[j] \in Targets(wants)
  /\ todo = <<>> => in = wants

\* A gate is never over the counter's words, and without one the blocks stay unfilled.
OneOrTheOther ==
  /\ "gate" \in setting.kinds => block.frame[1] # "load" /\ block.frame[2] # "jump"
  /\ "gate" \notin setting.kinds => block.frame[9] = "zero"

\* Before the blocks are filled a call meets a pass-through that is all there.
Counted == block.frame[1] = "load" /\ block.frame[2] = "jump"
Through == block.controller[1] = "calc" /\ (block.frame[1] = "body" \/ Counted)
InThrough == \/ pc = <<"frame", 1>> \/ pc = <<"controller", 1>>
             \/ pc = <<"frame", 2>> /\ Counted /\ reg = "loaded"
MeetsThrough == ~Filled /\ pc # Title => Through /\ InThrough

\* A call is skipped on an even count only, and a count is odd from the tick before.
Skips ==
  /\ pc = <<"frame", 2>> =>
       \/ reg = "loaded" /\ "gate" \notin setting.kinds
       \/ reg = "odd" /\ counters.odd
       \/ reg = "even" /\ ~counters.odd /\ last # "skip"
  /\ pc = <<"frame", 5>> \/ pc = <<"frame", 6>> => ~counters.odd /\ last # "skip"
  /\ counters.odd /\ last = "skip" => pc \in {<<"frame", 2>>, <<"frame", 3>>, <<"frame", 4>>}

\* While the blocks are left alone from a tick on, they are one kind's, and the calc runs
\* between that tick and the next: at once, or as soon as it sees the tick counted.
Gated == block.frame = GateWords /\ block.controller = ControllerWords
Due(call) == order[turn] = call
OneUpdate ==
  /\ Due("frame") => calcs = 1
  /\ Due("controller") => calcs \in {0, 1}
  /\ \/ /\ Gated
        /\ Due("controller") /\ calcs = 0 => counters.ticked \/ pc = <<"controller", 3>>
        /\ Due("controller") /\ calcs = 1 =>
             ~counters.ticked /\ pc # <<"controller", 2>> /\ pc # <<"controller", 3>>
        /\ pc = <<"controller", 3>> => ~counters.ticked
        /\ Due("frame") /\ pc # <<"frame", 4>> => ~counters.ticked
     \/ /\ Through
        /\ Due("controller") => calcs = 0
        /\ pc = Title \/ InThrough
Alternate ==
  /\ pc # Title => Due(pc[1]) /\ pc # <<"controller", 4>>
  /\ pc = <<"frame", 4>> => counters.ticked
  /\ settled /\ AllWired => OneUpdate

Meant == AsMeant => fate = "ok" /\ InHand /\ OneOrTheOther /\ MeetsThrough /\ Skips /\ Alternate

IInv == BlocksFit /\ KindsOK /\ TodoFits /\ GuestOK /\ Marked /\ SlipMeansUnwired
-----------------------------------------------------------------------------
(* What a request writes.                                                   *)

\* A run of words laid from a block's first, each in its place, is a sequence of writes.
LEMMA WritesOfFit ==
  ASSUME NEW region \in Calls, NEW n \in 1..9, NEW words \in Seq(FrameWords \cup CallWords),
         Len(words) = n, \A i \in 1..n : Fits(region, i, words[i])
  PROVE  WritesOf(region, words) \in Seq(Writes) /\ Len(WritesOf(region, words)) = n
  <1>1. DOMAIN words = 1..n /\ n \in Nat
    BY LenProperties
  <1>2. \A i \in 1..n : Write(region, i, words[i]) \in Writes
    BY <1>1, ElementOfSeq DEF Write, Writes
  <1>3. WritesOf(region, words) \in [1..n -> Writes]
    BY <1>1, <1>2 DEF WritesOf
  <1>4. WritesOf(region, words) \in Seq(Writes)
    BY <1>1, <1>3, SeqDef
  <1> QED BY <1>1, <1>3, <1>4, LenProperties

\* Every payload the class has fits its block.
LEMMA PayloadsFit ==
  /\ GateWords \in Seq(FrameWords \cup CallWords) /\ Len(GateWords) = 9
  /\ \A i \in 1..9 : Fits("frame", i, GateWords[i])
  /\ ControllerWords \in Seq(FrameWords \cup CallWords) /\ Len(ControllerWords) = 4
  /\ \A i \in 1..4 : Fits("controller", i, ControllerWords[i])
  <1>1. GateWords \in Seq(FrameWords \cup CallWords) /\ Len(GateWords) = 9
    BY DEF GateWords, FrameWords
  <1>2. \A i \in 1..9 : Fits("frame", i, GateWords[i])
    <2> SUFFICES ASSUME NEW i \in 1..9 PROVE Fits("frame", i, GateWords[i])
      OBVIOUS
    <2>1. i = 1 \/ i = 2 \/ i = 3 \/ i = 4 \/ i = 5 \/ i = 6 \/ i = 7 \/ i = 8 \/ i = 9
      OBVIOUS
    <2> QED BY <2>1 DEF GateWords, Fits, FrameWords
  <1>3. ControllerWords \in Seq(FrameWords \cup CallWords) /\ Len(ControllerWords) = 4
    BY DEF ControllerWords, CallWords
  <1>4. \A i \in 1..4 : Fits("controller", i, ControllerWords[i])
    <2> SUFFICES ASSUME NEW i \in 1..4 PROVE Fits("controller", i, ControllerWords[i])
      OBVIOUS
    <2>1. i = 1 \/ i = 2 \/ i = 3 \/ i = 4
      OBVIOUS
    <2> QED BY <2>1 DEF ControllerWords, Fits, CallWords
  <1> QED BY <1>1, <1>2, <1>3, <1>4

\* Every request's writes fit their blocks, and are thirteen at most.
LEMMA RequestFits ==
  ASSUME KindsOK, NEW kind \in setting.kinds \cup {"out"}
  PROVE  WritesFor(kind) \in Seq(Writes) /\ Len(WritesFor(kind)) <= 13
  <1>1. kind \in {"gate", "direct", "counter", "out"}
    BY SettingsAreKnown DEF KindsOK
  <1>2. /\ Write("frame", 1, "body") \in Writes /\ Write("controller", 1, "calc") \in Writes
    BY DEF Write, Writes, Fits, FrameWords, CallWords, Calls
  <1>3. /\ PassThrough \in Seq(Writes) /\ Len(PassThrough) = 1
        /\ ControllerPassThrough \in Seq(Writes) /\ Len(ControllerPassThrough) = 1
    BY <1>2 DEF PassThrough, ControllerPassThrough
  <1>4. CASE kind = "out"
    <2>1. WritesFor(kind) = PassThrough \o ControllerPassThrough
      BY <1>4 DEF WritesFor
    <2> QED BY <1>3, <2>1, ConcatProperties
  <1>5. CASE kind = "gate"
    <2>1. WritesFor(kind) = WritesOf("frame", GateWords) \o WritesOf("controller", ControllerWords)
      BY <1>5 DEF WritesFor
    <2>2. WritesOf("frame", GateWords) \in Seq(Writes) /\ Len(WritesOf("frame", GateWords)) = 9
      <3>1. "frame" \in Calls /\ 9 \in 1..9
        BY DEF Calls
      <3> QED BY <3>1, PayloadsFit, WritesOfFit
    <2>3. /\ WritesOf("controller", ControllerWords) \in Seq(Writes)
          /\ Len(WritesOf("controller", ControllerWords)) = 4
      <3>1. "controller" \in Calls /\ 4 \in 1..9
        BY DEF Calls
      <3> QED BY <3>1, PayloadsFit, WritesOfFit
    <2>4. /\ WritesFor(kind) \in Seq(Writes)
          /\ Len(WritesFor(kind)) = Len(WritesOf("frame", GateWords)) + Len(WritesOf("controller", ControllerWords))
      BY <2>1, <2>2, <2>3, ConcatProperties
    <2>5. Len(WritesFor(kind)) = 9 + 4
      BY <2>2, <2>3, <2>4
    <2>6. \A n : n = 9 + 4 => n <= 13
      OBVIOUS
    <2> QED BY <2>4, <2>5, <2>6
  <1>6. ASSUME NEW n \in 1..2, kind \in {"direct", "counter"}, Len(ThroughWords[kind]) = n,
               ThroughWords[kind] \in Seq(FrameWords \cup CallWords),
               \A i \in 1..n : Fits("frame", i, ThroughWords[kind][i])
        PROVE  WritesFor(kind) \in Seq(Writes) /\ Len(WritesFor(kind)) <= 13
    <2>1. WritesFor(kind) = WritesOf("frame", ThroughWords[kind]) \o ControllerPassThrough
      BY <1>6 DEF WritesFor
    <2>2. /\ WritesOf("frame", ThroughWords[kind]) \in Seq(Writes)
          /\ Len(WritesOf("frame", ThroughWords[kind])) = n
      <3>1. "frame" \in Calls /\ n \in 1..9
        BY DEF Calls
      <3> QED BY <1>6, <3>1, WritesOfFit
    <2>3. /\ WritesFor(kind) \in Seq(Writes)
          /\ Len(WritesFor(kind)) = Len(WritesOf("frame", ThroughWords[kind])) + Len(ControllerPassThrough)
      BY <1>3, <2>1, <2>2, ConcatProperties
    <2> QED BY <1>3, <2>2, <2>3
  <1>7. CASE kind = "direct"
    <2>1. /\ ThroughWords[kind] = <<"body">>
          /\ Len(<<"body">>) = 1 /\ <<"body">> \in Seq(FrameWords \cup CallWords)
      BY <1>7 DEF ThroughWords, FrameWords
    <2>2. \A i \in 1..1 : Fits("frame", i, <<"body">>[i])
      BY DEF FrameWords, Fits
    <2> QED BY <1>6, <1>7, <2>1, <2>2
  <1>8. CASE kind = "counter"
    <2>1. /\ ThroughWords[kind] = <<"load", "jump">>
          /\ Len(<<"load", "jump">>) = 2 /\ <<"load", "jump">> \in Seq(FrameWords \cup CallWords)
      BY <1>8 DEF ThroughWords, FrameWords
    <2>2. \A i \in 1..2 : Fits("frame", i, <<"load", "jump">>[i])
      <3> SUFFICES ASSUME NEW i \in 1..2 PROVE Fits("frame", i, <<"load", "jump">>[i])
        OBVIOUS
      <3>1. i = 1 \/ i = 2
        OBVIOUS
      <3> QED BY <3>1 DEF FrameWords, Fits
    <2> QED BY <1>6, <1>8, <2>1, <2>2
  <1> QED BY <1>1, <1>4, <1>5, <1>7, <1>8

-----------------------------------------------------------------------------
(* The host's steps.                                                        *)

\* A request only puts its writes in hand.
LEMMA RequestKeeps ==
  ASSUME IInv, NEW kind \in setting.kinds \cup {"out"}, Request(kind)
  PROVE  IInv'
  <1>1. /\ TodoFits' /\ UNCHANGED <<block, in, rigid, guest, history>>
    BY RequestFits DEF IInv, Request, TodoFits
  <1>2. KindsOK'
    BY <1>1, BoundIsNatural DEF IInv, KindsOK, Request, rigid
  <1> QED BY <1>1, <1>2 DEF IInv, BlocksFit, GuestOK, Marked, SlipMeansUnwired, rigid, guest, history

\* A word written goes where it fits.
LEMMA WriteWordKeeps == ASSUME IInv, WriteWord PROVE IInv'
  <1> DEFINE w == Head(todo)
  <1>1. /\ todo # <<>> /\ block' = [block EXCEPT ![w.region][w.i] = w.word] /\ todo' = Tail(todo)
        /\ UNCHANGED <<wants, requests, rigid, guest, last, calcs, sceneSlip>>
        /\ in' = in \/ in' = wants
    BY DEF WriteWord
  <1>2. w \in Writes /\ TodoFits'
    BY <1>1, HeadTailProperties, LenProperties DEF IInv, TodoFits
  <1>3. w.region \in Calls /\ Fits(w.region, w.i, w.word)
    BY <1>2 DEF Writes
  <1>4. ASSUME w.region = "frame" PROVE BlocksFit'
    <2>1. w.i \in 1..9 /\ w.word \in FrameWords
      BY <1>3, <1>4 DEF Fits
    <2>2. /\ block'.frame = [block.frame EXCEPT ![w.i] = w.word] /\ block'.controller = block.controller
          /\ block' \in [frame : [1..9 -> FrameWords], controller : [1..4 -> CallWords]]
      BY <1>1, <1>4, <2>1 DEF IInv, BlocksFit
    <2>3. \A i \in 1..9 : block'.frame[i] = IF i = w.i THEN w.word ELSE block.frame[i]
      BY <2>1, <2>2 DEF IInv, BlocksFit
    <2>4. \A i \in 1..9 : Fits("frame", i, block'.frame[i])
      BY <1>3, <1>4, <2>3 DEF IInv, BlocksFit
    <2> QED BY <2>2, <2>4 DEF IInv, BlocksFit
  <1>5. ASSUME w.region = "controller" PROVE BlocksFit'
    <2>1. w.i \in 1..4 /\ w.word \in CallWords
      BY <1>3, <1>5 DEF Fits
    <2>2. /\ block'.controller = [block.controller EXCEPT ![w.i] = w.word] /\ block'.frame = block.frame
          /\ block' \in [frame : [1..9 -> FrameWords], controller : [1..4 -> CallWords]]
      BY <1>1, <1>5, <2>1 DEF IInv, BlocksFit
    <2>3. \A i \in 1..4 : block'.controller[i] = IF i = w.i THEN w.word ELSE block.controller[i]
      BY <2>1, <2>2 DEF IInv, BlocksFit
    <2>4. \A i \in 1..4 : Fits("controller", i, block'.controller[i])
      BY <1>3, <1>5, <2>3 DEF IInv, BlocksFit
    <2> QED BY <2>2, <2>4 DEF IInv, BlocksFit
  <1>6. BlocksFit'
    BY <1>3, <1>4, <1>5 DEF Calls
  <1> QED BY <1>1, <1>2, <1>6 DEF IInv, KindsOK, GuestOK, Marked, SlipMeansUnwired, rigid, guest

\* A refused write leaves everything where it is.
LEMMA WriteRefusedKeeps == ASSUME IInv, WriteRefused PROVE IInv'
  <1>1. todo' = <<>> /\ UNCHANGED <<block, in, wants, requests, rigid, guest, history>>
    BY DEF WriteRefused
  <1>2. TodoFits'
    BY <1>1, EmptySeq DEF TodoFits
  <1> QED BY <1>1, <1>2 DEF IInv, BlocksFit, KindsOK, GuestOK, Marked, SlipMeansUnwired, rigid, guest, history

-----------------------------------------------------------------------------
(* The guest's steps.                                                       *)

\* A guest step leaves the host's side alone.
LEMMA HostLeft ==
  ASSUME IInv, UNCHANGED <<host, rigid>>, GuestOK', Marked', SlipMeansUnwired'
  PROVE  IInv'
  BY DEF IInv, BlocksFit, KindsOK, TodoFits, host, rigid

\* The word the guest is at fits the place it is in.
LEMMA AtFits ==
  ASSUME IInv, NEW word, AtWord(word)
  PROVE  \/ \E i \in 1..9 : pc = <<"frame", i>> /\ Fits("frame", i, word)
         \/ \E i \in 1..4 : pc = <<"controller", i>> /\ Fits("controller", i, word)
  <1>1. CASE pc \in {"frame"} \X (1..9)
    <2>1. PICK i \in 1..9 : pc = <<"frame", i>>
      BY <1>1
    <2>2. word = block["frame"][i]
      BY <2>1 DEF AtWord
    <2> QED BY <2>1, <2>2 DEF IInv, BlocksFit
  <1>2. CASE pc \in {"controller"} \X (1..4)
    <2>1. PICK i \in 1..4 : pc = <<"controller", i>>
      BY <1>2
    <2>2. word = block["controller"][i]
      BY <2>1 DEF AtWord
    <2> QED BY <2>1, <2>2 DEF IInv, BlocksFit
  <1> QED BY <1>1, <1>2 DEF AtWord, IInv, GuestOK, Places

\* Which word it is says where in the skipped call the guest is, and where it goes on to.
LEMMA WhereItIs ==
  ASSUME IInv, NEW word, AtWord(word), word # "zero"
  PROVE  /\ counters.skipping => word \in {"draw", "unmark"}
         /\ word = "draw" => counters.skipping
         /\ GoOn /\ word # "return" =>
              /\ pc' \in Places /\ pc' # Title
              /\ (pc' = <<"frame", 6>>) <=> (word = "mark")
              /\ (pc' = <<"frame", 7>>) <=> (word = "draw")
  <1>1. CASE \E i \in 1..9 : pc = <<"frame", i>> /\ Fits("frame", i, word)
    <2>1. PICK i \in 1..9 : pc = <<"frame", i>> /\ Fits("frame", i, word)
      BY <1>1
    <2>2. /\ i = 5 <=> word = "mark"
          /\ i = 6 <=> word = "draw"
          /\ i = 7 <=> word = "unmark"
          /\ i = 9 => word = "return"
      BY <2>1 DEF Fits
    <2>3. /\ counters.skipping => i = 6 \/ i = 7
          /\ i = 6 => counters.skipping
      BY <2>1 DEF IInv, Marked
    <2>4. ASSUME GoOn, word # "return" PROVE pc' = <<"frame", i + 1>> /\ i + 1 \in 1..9
      BY <2>1, <2>2, <2>4 DEF GoOn
    <2>5. ASSUME GoOn, word # "return"
          PROVE  /\ pc' \in Places /\ pc' # Title
                 /\ pc' = <<"frame", 6>> <=> i = 5
                 /\ pc' = <<"frame", 7>> <=> i = 6
      BY <2>4, <2>5 DEF Places, Title
    <2> QED BY <2>2, <2>3, <2>5
  <1>2. CASE \E i \in 1..4 : pc = <<"controller", i>> /\ Fits("controller", i, word)
    <2>1. PICK i \in 1..4 : pc = <<"controller", i>> /\ Fits("controller", i, word)
      BY <1>2
    <2>2. ~counters.skipping /\ word \in {"compare", "see", "calc", "return"}
      BY <2>1 DEF IInv, Marked, GuestOK, Fits, CallWords
    <2>3. ASSUME GoOn, word # "return" PROVE pc' = <<"controller", i + 1>> /\ i + 1 \in 1..4
      BY <2>1, <2>3 DEF GoOn, Fits
    <2>4. ASSUME GoOn, word # "return"
          PROVE  pc' \in Places /\ pc' # Title /\ pc' # <<"frame", 6>> /\ pc' # <<"frame", 7>>
      BY <2>3, <2>4 DEF Places, Title
    <2> QED BY <2>2, <2>4
  <1> QED BY <1>1, <1>2, AtFits

\* The next of the loop's two calls is one of them.
LEMMA NextTurnIs == ASSUME GuestOK, NextTurn PROVE turn' \in {1, 2}
  BY DEF GuestOK, NextTurn

\* A call is made from the title's own code, where nothing is marked.
LEMMA CallsKeep == ASSUME IInv, CallBlock \/ CallTitle PROVE IInv'
  <1>1. pc = Title /\ ~counters.skipping /\ UNCHANGED <<host, rigid, counters, reg, fate, sceneSlip>>
    <2>1. Title # <<"frame", 6>> /\ Title # <<"frame", 7>>
      BY DEF Title
    <2> QED BY <2>1 DEF CallBlock, CallTitle, IInv, Marked, history, TickRuns, CalcRuns
  <1>2. CASE CallBlock
    <2>1. pc' = <<order[turn], 1>> /\ turn' = turn /\ order[turn] \in {"frame", "controller"}
      BY <1>2 DEF CallBlock, IInv, GuestOK
    <2>2. pc' \in Places /\ pc' # <<"frame", 6>> /\ pc' # <<"frame", 7>>
      BY <2>1 DEF Places
    <2> QED BY <1>1, <2>1, <2>2, HostLeft DEF IInv, GuestOK, Marked, SlipMeansUnwired, rigid
  <1>3. CASE CallTitle
    <2>1. pc' = pc /\ turn' \in {1, 2}
      BY <1>3, NextTurnIs DEF CallTitle, IInv
    <2> QED BY <1>1, <2>1, HostLeft DEF IInv, GuestOK, Marked, SlipMeansUnwired, rigid
  <1> QED BY <1>2, <1>3

\* A word other than the skipped call's own three finds nothing marked and leaves it so.
LEMMA OthersKeep ==
  ASSUME IInv, NEW word, AtWord(word), word \notin {"mark", "draw", "unmark", "zero"},
         UNCHANGED <<host, rigid, sceneSlip>>,
         \/ GoOn /\ word # "return"
         \/ pc' = Title
         \/ pc' = pc
         \/ pc' = <<pc[1], SkippedDrawWord>> /\ pc[1] = "frame",
         counters' \in [odd : BOOLEAN, ticked : BOOLEAN, skipping : BOOLEAN],
         counters'.skipping = counters.skipping,
         turn' \in {1, 2}, reg' \in {"none", "odd", "even", "loaded"},
         fate' \in {"ok", "illegal", "wild"}
  PROVE  IInv'
  <1>1. ~counters.skipping
    BY WhereItIs
  <1>2. pc' \in Places /\ pc' # <<"frame", 6>> /\ (pc' # pc => pc' # <<"frame", 7>>)
    <2>1. CASE GoOn /\ word # "return"
      BY <2>1, WhereItIs
    <2>2. CASE pc' = Title
      BY <2>2 DEF Places, Title
    <2>3. CASE pc' = pc
      BY <1>1, <2>3 DEF IInv, GuestOK, Marked
    <2>4. CASE pc' = <<pc[1], SkippedDrawWord>> /\ pc[1] = "frame"
      BY <2>4 DEF Places, SkippedDrawWord
    <2> QED BY <2>1, <2>2, <2>3, <2>4
  <1>3. GuestOK' /\ Marked' /\ SlipMeansUnwired'
    BY <1>1, <1>2 DEF IInv, GuestOK, Marked, SlipMeansUnwired, rigid
  <1> QED BY <1>3, HostLeft

\* The three words of the skipped call: marked, drawn, unmarked.
LEMMA SkippedCallKeeps == ASSUME IInv, Mark \/ Draw \/ Unmark, UNCHANGED <<host, rigid>> PROVE IInv'
  <1>1. CASE Mark
    <2>1. pc' \in Places /\ pc' = <<"frame", 6>>
      BY <1>1, WhereItIs DEF Mark
    <2>2. counters' = [counters EXCEPT !.skipping = TRUE] /\ UNCHANGED <<turn, reg, fate, sceneSlip>>
      BY <1>1 DEF Mark, history
    <2> QED BY <2>1, <2>2, HostLeft DEF IInv, GuestOK, Marked, SlipMeansUnwired, rigid
  <1>2. CASE Draw
    <2>1. pc' \in Places /\ pc' = <<"frame", 7>> /\ counters.skipping
      BY <1>2, WhereItIs DEF Draw
    <2>2. UNCHANGED <<counters, turn, reg, fate>> /\ sceneSlip' = (sceneSlip \/ "scene" \notin wired)
      BY <1>2, <2>1 DEF Draw
    <2>3. <<"frame", 7>> # <<"frame", 6>>
      OBVIOUS
    <2> QED BY <2>1, <2>2, <2>3, HostLeft DEF IInv, GuestOK, Marked, SlipMeansUnwired, rigid
  <1>3. CASE Unmark
    <2>1. pc' \in Places /\ pc' # <<"frame", 6>>
      BY <1>3, WhereItIs DEF Unmark
    <2>2. counters' = [counters EXCEPT !.skipping = FALSE] /\ UNCHANGED <<turn, reg, fate, sceneSlip>>
      BY <1>3 DEF Unmark, history
    <2> QED BY <2>1, <2>2, HostLeft DEF IInv, GuestOK, Marked, SlipMeansUnwired, rigid
  <1> QED BY <1>1, <1>2, <1>3

\* Only the frame logic's block tests the count.
LEMMA TestIsInFrame == ASSUME IInv, AtWord("test") PROVE pc[1] = "frame"
  BY AtFits DEF Fits, CallWords

\* Every word the guest runs.
LEMMA GuestWordKeeps == ASSUME IInv, GuestWord PROVE IInv'
  <1> DEFINE Reads(word) ==
        /\ AtWord(word) /\ UNCHANGED <<host, rigid, sceneSlip>>
        /\ counters' \in [odd : BOOLEAN, ticked : BOOLEAN, skipping : BOOLEAN]
        /\ counters'.skipping = counters.skipping
        /\ turn' \in {1, 2} /\ reg' \in {"none", "odd", "even", "loaded"}
        /\ fate' \in {"ok", "illegal", "wild"}
      Ordinary(word) ==
        /\ Reads(word) /\ word \notin {"mark", "draw", "unmark", "zero"}
        /\ \/ GoOn /\ word # "return"
           \/ pc' = Title
           \/ pc' = pc
           \/ pc' = <<pc[1], SkippedDrawWord>> /\ pc[1] = "frame"
  <1>1. UNCHANGED <<host, rigid>>
    BY DEF GuestWord
  <1>2. ASSUME NEW word, Ordinary(word) PROVE IInv'
    BY <1>2, OthersKeep
  <1>3. GuestOK
    BY DEF IInv
  <1>4. CASE Count
    <2>1. Ordinary("count")
      BY <1>1, <1>3, <1>4 DEF Count, GuestOK, history
    <2> QED BY <1>2, <2>1
  <1>5. CASE Test
    <2>1. Ordinary("test")
      BY <1>1, <1>3, <1>5, TestIsInFrame DEF Test, GuestOK, history
    <2> QED BY <1>2, <2>1
  <1>6. CASE CountTick
    <2>1. Ordinary("tick")
      BY <1>1, <1>3, <1>6 DEF CountTick, GuestOK, history
    <2> QED BY <1>2, <2>1
  <1>7. CASE Body
    <2>1. Ordinary("body")
      BY <1>1, <1>3, <1>7, NextTurnIs DEF Body, Return, TickRuns, GuestOK
    <2> QED BY <1>2, <2>1
  <1>8. CASE Flip
    <2>1. Ordinary("flip")
      BY <1>1, <1>3, <1>8 DEF Flip, GuestOK, history
    <2> QED BY <1>2, <2>1
  <1>9. CASE ReturnWord
    <2>1. Ordinary("return")
      BY <1>1, <1>3, <1>9, NextTurnIs DEF ReturnWord, Return, GuestOK, history
    <2> QED BY <1>2, <2>1
  <1>10. CASE Load
    <2>1. Ordinary("load")
      BY <1>1, <1>3, <1>10 DEF Load, GuestOK, history
    <2> QED BY <1>2, <2>1
  <1>11. CASE Jump
    <2>1. Ordinary("jump")
      BY <1>1, <1>3, <1>11, NextTurnIs DEF Jump, Return, TickRuns, GuestOK, history
    <2> QED BY <1>2, <2>1
  <1>12. CASE Compare
    <2>1. Ordinary("compare")
      BY <1>1, <1>3, <1>12, NextTurnIs DEF Compare, Return, GuestOK, history
    <2> QED BY <1>2, <2>1
  <1>13. CASE See
    <2>1. Ordinary("see")
      BY <1>1, <1>3, <1>13 DEF See, GuestOK, history
    <2> QED BY <1>2, <2>1
  <1>14. CASE Calc
    <2>1. Ordinary("calc")
      BY <1>1, <1>3, <1>14, NextTurnIs DEF Calc, Return, CalcRuns, GuestOK
    <2> QED BY <1>2, <2>1
  <1>15. CASE Illegal
    <2>1. fate' = "illegal" /\ UNCHANGED <<counters, turn, pc, reg, sceneSlip>>
      BY <1>15 DEF Illegal, history
    <2> QED BY <1>1, <2>1, HostLeft DEF IInv, GuestOK, Marked, SlipMeansUnwired, rigid
  <1>16. CASE Mark \/ Draw \/ Unmark
    BY <1>1, <1>16, SkippedCallKeeps
  <1> QED BY <1>4, <1>5, <1>6, <1>7, <1>8, <1>9, <1>10, <1>11, <1>12, <1>13, <1>14, <1>15, <1>16
          DEF GuestWord

-----------------------------------------------------------------------------
\* The blocks start as a pass-through and zeroes.
LEMMA InitHolds == Init => IInv
  <1> SUFFICES ASSUME Init PROVE IInv
    OBVIOUS
  <1>1. BlocksFit
    <2>1. /\ block.frame = [i \in 1..9 |-> IF i = 1 THEN "body" ELSE "zero"]
          /\ block.controller = [i \in 1..4 |-> IF i = 1 THEN "calc" ELSE "zero"]
          /\ block \in [frame : [1..9 -> FrameWords], controller : [1..4 -> CallWords]]
      BY DEF Init, FrameWords, CallWords
    <2> QED BY <2>1 DEF BlocksFit, Fits, FrameWords, CallWords
  <1>2. KindsOK
    BY BoundIsNatural DEF Init, KindsOK
  <1>3. TodoFits
    BY EmptySeq DEF Init, TodoFits
  <1>4. GuestOK
    BY DEF Init, GuestOK, Places
  <1>5. Title # <<"frame", 6>> /\ Title # <<"frame", 7>>
    BY DEF Title
  <1>6. Marked /\ SlipMeansUnwired
    BY <1>5 DEF Init, Marked, SlipMeansUnwired
  <1> QED BY <1>1, <1>2, <1>3, <1>4, <1>6 DEF IInv

\* Every step keeps each word in its place and the mark inside the skipped call.
LEMMA StepKeeps == ASSUME IInv, [Next]_vars PROVE IInv'
  <1>1. CASE GuestStep
    BY <1>1, CallsKeep, GuestWordKeeps DEF GuestStep
  <1>2. CASE HostStep
    BY <1>2, WriteWordKeeps, WriteRefusedKeeps DEF HostStep
  <1>3. CASE \E kind \in setting.kinds \cup {"out"} : Request(kind)
    BY <1>3, RequestKeeps
  <1>4. CASE UNCHANGED vars
    BY <1>4 DEF IInv, BlocksFit, KindsOK, TodoFits, GuestOK, Marked, SlipMeansUnwired, vars, host,
                guest, history, rigid
  <1> QED BY <1>1, <1>2, <1>3, <1>4 DEF Next

\* Where the words of the skipped call stand, written and still to be written, says
\* where the mark is up.
THEOREM InductiveInvariant == Spec => []IInv
  <1>1. IInv /\ [Next]_vars => IInv'
    BY StepKeeps
  <1> QED BY <1>1, InitHolds, PTL DEF Spec

\* Every variable keeps its type, the guest is always at a word its block has, and no
\* request has more writes left than the payloads are long.
THEOREM TypeCorrect == Spec => []TypeOK
  <1>1. IInv => TypeOK
    BY DEF IInv, BlocksFit, KindsOK, TodoFits, GuestOK, Places, FrameWords, CallWords, TypeOK
  <1> QED BY <1>1, InductiveInvariant, PTL

\* Whichever words are refused, whichever probes are missing and however the writes fall
\* between the guest's words, the mark is up only inside a skipped call, and with the
\* scene's probe in place a skipped call never advances the tick.
THEOREM SkipsAreClean == Spec => []SkipIsClean
  <1>1. IInv => SkipIsClean
    <2> SUFFICES ASSUME IInv PROVE SkipIsClean
      OBVIOUS
    <2>1. counters.skipping => pc[1] = "frame" /\ pc[2] \in 6..7
      BY DEF IInv, Marked
    <2> QED BY <2>1 DEF IInv, SlipMeansUnwired, SkipIsClean
  <1> QED BY <1>1, InductiveInvariant, PTL

-----------------------------------------------------------------------------
(* What a request leaves, where nothing is refused and no count register is *)
(* branched through under the gate: AsMeant.                                *)

Kinds == {"out", "gate", "direct", "counter"}

\* The payload of each kind, frame logic and controller calc.
LEMMA TargetsFit ==
  ASSUME NEW kind \in Kinds
  PROVE  /\ FrameTarget(kind) \in Seq(FrameWords \cup CallWords)
         /\ CallTarget(kind) \in Seq(FrameWords \cup CallWords)
         /\ kind = "gate" => Len(FrameTarget(kind)) = 9 /\ Len(CallTarget(kind)) = 4
         /\ kind = "counter" => Len(FrameTarget(kind)) = 2 /\ Len(CallTarget(kind)) = 1
         /\ kind \in {"out", "direct"} => Len(FrameTarget(kind)) = 1 /\ Len(CallTarget(kind)) = 1
         /\ WritesFor(kind) = WritesOf("frame", FrameTarget(kind)) \o WritesOf("controller", CallTarget(kind))
  <1>1. /\ <<"body">> \in Seq(FrameWords \cup CallWords) /\ Len(<<"body">>) = 1
        /\ <<"calc">> \in Seq(FrameWords \cup CallWords) /\ Len(<<"calc">>) = 1
        /\ <<"load", "jump">> \in Seq(FrameWords \cup CallWords) /\ Len(<<"load", "jump">>) = 2
    BY DEF FrameWords, CallWords
  <1>2. PassThrough = WritesOf("frame", <<"body">>) /\ ControllerPassThrough = WritesOf("controller", <<"calc">>)
    BY DEF PassThrough, ControllerPassThrough, WritesOf
  <1>3. ThroughWords.counter = <<"load", "jump">> /\ ThroughWords.direct = <<"body">>
    BY DEF ThroughWords
  <1>4. CASE kind = "gate"
    BY <1>4, PayloadsFit DEF FrameTarget, CallTarget, WritesFor
  <1>5. CASE kind = "out"
    BY <1>1, <1>2, <1>5 DEF FrameTarget, CallTarget, WritesFor
  <1>6. CASE kind = "direct"
    BY <1>1, <1>2, <1>3, <1>6 DEF FrameTarget, CallTarget, WritesFor
  <1>7. CASE kind = "counter"
    BY <1>1, <1>2, <1>3, <1>7 DEF FrameTarget, CallTarget, WritesFor
  <1> QED BY <1>4, <1>5, <1>6, <1>7 DEF Kinds

\* A function on 1..n is a sequence of n.
LEMMA IsSeqOf ==
  ASSUME NEW S, NEW n \in Nat, NEW s \in [1..n -> S]
  PROVE  s \in Seq(S) /\ Len(s) = n
  <1>1. s \in Seq(S)
    BY SeqDef
  <1> QED BY <1>1, LenProperties

\* A request's writes are its targets, each once.
LEMMA WritesAreTargets ==
  ASSUME NEW kind \in Kinds
  PROVE  /\ \A j \in 1..Len(WritesFor(kind)) : WritesFor(kind)[j] \in Targets(kind)
         /\ \A w \in Targets(kind) : \E j \in 1..Len(WritesFor(kind)) : WritesFor(kind)[j] = w
         /\ WritesFor(kind) # <<>>
  <1> DEFINE F == FrameTarget(kind)
             C == CallTarget(kind)
             A == WritesOf("frame", F)
             B == WritesOf("controller", C)
             Any == [region : Calls, i : Nat, word : FrameWords \cup CallWords]
  <1> HIDE DEF F, C, A, B, Any
  <1>1. /\ Len(F) \in Nat \ {0} /\ Len(C) \in Nat \ {0}
        /\ F \in [1..Len(F) -> FrameWords \cup CallWords] /\ C \in [1..Len(C) -> FrameWords \cup CallWords]
        /\ WritesFor(kind) = A \o B
    <2>1. /\ F \in Seq(FrameWords \cup CallWords) /\ C \in Seq(FrameWords \cup CallWords)
          /\ WritesFor(kind) = A \o B
      BY TargetsFit DEF F, C, A, B
    <2>2. Len(F) \in Nat \ {0} /\ Len(C) \in Nat \ {0}
      <3>1. /\ kind = "gate" => Len(F) = 9 /\ Len(C) = 4
            /\ kind = "counter" => Len(F) = 2 /\ Len(C) = 1
            /\ kind \in {"out", "direct"} => Len(F) = 1 /\ Len(C) = 1
        BY TargetsFit DEF F, C
      <3>2. kind = "gate" \/ kind = "counter" \/ kind \in {"out", "direct"}
        BY DEF Kinds
      <3>3. 9 \in Nat \ {0} /\ 4 \in Nat \ {0} /\ 2 \in Nat \ {0} /\ 1 \in Nat \ {0}
        OBVIOUS
      <3> QED BY ONLY <3>1, <3>2, <3>3
    <2>3. F \in [1..Len(F) -> FrameWords \cup CallWords]
      BY <2>1, LenProperties
    <2>4. C \in [1..Len(C) -> FrameWords \cup CallWords]
      BY <2>1, LenProperties
    <2> QED BY <2>1, <2>2, <2>3, <2>4
  <1>2. /\ A = [i \in 1..Len(F) |-> Write("frame", i, F[i])]
        /\ B = [i \in 1..Len(C) |-> Write("controller", i, C[i])]
    BY <1>1 DEF WritesOf, A, B
  <1>3. A \in [1..Len(F) -> Any] /\ B \in [1..Len(C) -> Any]
    BY <1>1, <1>2 DEF Write, Calls, Any
  <1>4. A \in Seq(Any) /\ Len(A) = Len(F)
    BY <1>1, <1>3, IsSeqOf
  <1>5. B \in Seq(Any) /\ Len(B) = Len(C)
    BY <1>1, <1>3, IsSeqOf
  <1>6. /\ Len(A \o B) = Len(F) + Len(C)
        /\ \A j \in 1..Len(F) + Len(C) : (A \o B)[j] = IF j <= Len(F) THEN A[j] ELSE B[j - Len(F)]
    <2>1. Len(A \o B) = Len(A) + Len(B)
      BY <1>4, <1>5, ConcatProperties
    <2>2. \A j \in 1..Len(A) + Len(B) : (A \o B)[j] = IF j <= Len(A) THEN A[j] ELSE B[j - Len(A)]
      BY <1>4, <1>5, ConcatProperties
    <2> QED BY <1>4, <1>5, <2>1, <2>2
  <1>7. \A j \in 1..Len(A \o B) : (A \o B)[j] \in Targets(kind)
    <2> SUFFICES ASSUME NEW j \in 1..Len(A \o B) PROVE (A \o B)[j] \in Targets(kind)
      OBVIOUS
    <2>1. CASE j <= Len(F)
      <3>1. j \in 1..Len(F) /\ (A \o B)[j] = Write("frame", j, F[j])
        BY <1>1, <1>2, <1>6, <2>1
      <3> QED BY <3>1 DEF Targets, F, C
    <2>2. CASE ~(j <= Len(F))
      <3>1. j - Len(F) \in 1..Len(C) /\ (A \o B)[j] = Write("controller", j - Len(F), C[j - Len(F)])
        BY <1>1, <1>2, <1>6, <2>2
      <3> QED BY <3>1 DEF Targets, F, C
    <2> QED BY <2>1, <2>2
  <1>8. \A w \in Targets(kind) : \E j \in 1..Len(A \o B) : (A \o B)[j] = w
    <2> SUFFICES ASSUME NEW w \in Targets(kind) PROVE \E j \in 1..Len(A \o B) : (A \o B)[j] = w
      OBVIOUS
    <2>1. CASE \E i \in 1..Len(F) : w = Write("frame", i, F[i])
      <3>1. PICK i \in 1..Len(F) : w = Write("frame", i, F[i])
        BY <2>1
      <3>2. i \in 1..Len(F) + Len(C) /\ (A \o B)[i] = A[i] /\ A[i] = w
        BY <1>1, <1>2, <1>6, <3>1
      <3> QED BY <1>6, <3>2
    <2>2. CASE \E i \in 1..Len(C) : w = Write("controller", i, C[i])
      <3>1. PICK i \in 1..Len(C) : w = Write("controller", i, C[i])
        BY <2>2
      <3>2. i + Len(F) \in 1..Len(F) + Len(C) /\ ~(i + Len(F) <= Len(F)) /\ (i + Len(F)) - Len(F) = i
        BY <1>1
      <3>3. (A \o B)[i + Len(F)] = B[i] /\ B[i] = w
        BY <1>1, <1>2, <1>6, <3>1, <3>2
      <3> QED BY <1>6, <3>2, <3>3
    <2> QED BY <2>1, <2>2 DEF Targets, F, C
  <1>9. A \o B # <<>>
    BY <1>1, <1>4, <1>6, ConcatProperties, EmptySeq
  <1> QED BY <1>1, <1>7, <1>8, <1>9

\* Two targets of a kind for one place are one, and none is the zero.
LEMMA TargetsDiffer ==
  ASSUME NEW kind \in Kinds, NEW v \in Targets(kind), NEW w \in Targets(kind)
  PROVE  /\ v.region = w.region /\ v.i = w.i => v = w
         /\ w.word # "zero"
         /\ \/ w.region = "frame" /\ w.i \in 1..Len(FrameTarget(kind)) /\ w.word = FrameTarget(kind)[w.i]
            \/ w.region = "controller" /\ w.i \in 1..Len(CallTarget(kind)) /\ w.word = CallTarget(kind)[w.i]
  <1>1. \A x \in Targets(kind) :
          /\ x = [region |-> x.region, i |-> x.i, word |-> x.word]
          /\ \/ x.region = "frame" /\ x.i \in 1..Len(FrameTarget(kind)) /\ x.word = FrameTarget(kind)[x.i]
             \/ x.region = "controller" /\ x.i \in 1..Len(CallTarget(kind)) /\ x.word = CallTarget(kind)[x.i]
    BY DEF Targets, Write
  <1>2. \A i \in 1..Len(FrameTarget(kind)) : FrameTarget(kind)[i] # "zero"
    <2>1. \A i \in 1..9 : GateWords[i] # "zero"
      <3> SUFFICES ASSUME NEW i \in 1..9 PROVE GateWords[i] # "zero"
        OBVIOUS
      <3>1. i = 1 \/ i = 2 \/ i = 3 \/ i = 4 \/ i = 5 \/ i = 6 \/ i = 7 \/ i = 8 \/ i = 9
        OBVIOUS
      <3> QED BY <3>1 DEF GateWords
    <2>2. CASE kind = "gate"
      BY <2>1, <2>2, PayloadsFit DEF FrameTarget
    <2>3. CASE kind = "counter"
      BY <2>3, TargetsFit DEF FrameTarget, ThroughWords
    <2>4. CASE kind \in {"out", "direct"}
      BY <2>4, TargetsFit DEF FrameTarget
    <2> QED BY <2>2, <2>3, <2>4 DEF Kinds
  <1>3. \A i \in 1..Len(CallTarget(kind)) : CallTarget(kind)[i] # "zero"
    <2>1. \A i \in 1..4 : ControllerWords[i] # "zero"
      <3> SUFFICES ASSUME NEW i \in 1..4 PROVE ControllerWords[i] # "zero"
        OBVIOUS
      <3>1. i = 1 \/ i = 2 \/ i = 3 \/ i = 4
        OBVIOUS
      <3> QED BY <3>1 DEF ControllerWords
    <2>2. CASE kind = "gate"
      BY <2>1, <2>2, PayloadsFit DEF CallTarget
    <2>3. CASE kind # "gate"
      BY <2>3, TargetsFit DEF CallTarget, Kinds
    <2> QED BY <2>2, <2>3
  <1>4. v.region = w.region /\ v.i = w.i => v.word = w.word
    BY <1>1
  <1>5. v.region = w.region /\ v.i = w.i => v = w
    BY <1>1, <1>4
  <1>6. w.word # "zero"
    BY <1>1, <1>2, <1>3
  <1> QED BY <1>1, <1>5, <1>6

\* Filled is every word of both blocks written.
LEMMA FilledIs ==
  ASSUME BlocksFit
  PROVE  Filled <=> /\ \A i \in 1..9 : block.frame[i] # "zero"
                    /\ \A i \in 1..4 : block.controller[i] # "zero"
  <1>1. /\ DOMAIN block = {"frame", "controller"}
        /\ DOMAIN block["frame"] = 1..9 /\ DOMAIN block["controller"] = 1..4
    BY DEF BlocksFit
  <1> QED BY <1>1 DEF Filled

\* With nothing left to write the blocks hold one kind, whole.
LEMMA OneKindStands ==
  ASSUME BlocksFit, KindsOK, InHand, todo = <<>>
  PROVE  /\ wants = "gate" => Gated /\ Filled
         /\ wants # "gate" => Through
         /\ in = wants
         /\ wants \in {"out", "direct"} => block.frame[1] = "body" /\ block.controller[1] = "calc"
  <1>1. wants \in Kinds
    BY SettingsAreKnown DEF KindsOK, Kinds
  <1>2. \A w \in Targets(wants) : Stands(w)
    <2>1. Len(todo) = 0
      BY EmptySeq
    <2> QED BY <2>1 DEF InHand, Left
  <1>3. /\ \A i \in 1..Len(FrameTarget(wants)) : block.frame[i] = FrameTarget(wants)[i]
        /\ \A i \in 1..Len(CallTarget(wants)) : block.controller[i] = CallTarget(wants)[i]
    <2>1. /\ \A i \in 1..Len(FrameTarget(wants)) : Stands(Write("frame", i, FrameTarget(wants)[i]))
          /\ \A i \in 1..Len(CallTarget(wants)) : Stands(Write("controller", i, CallTarget(wants)[i]))
      BY <1>2 DEF Targets
    <2> QED BY <2>1 DEF Stands, Write
  <1>4. CASE wants = "gate"
    <2>1. /\ \A i \in 1..9 : block.frame[i] = GateWords[i]
          /\ \A i \in 1..4 : block.controller[i] = ControllerWords[i]
      BY <1>1, <1>3, <1>4, TargetsFit DEF FrameTarget, CallTarget
    <2>2. GateWords \in [1..9 -> FrameWords] /\ ControllerWords \in [1..4 -> CallWords]
      BY DEF GateWords, ControllerWords, FrameWords, CallWords
    <2>3. Gated
      BY <2>1, <2>2 DEF BlocksFit, Gated
    <2>4. Filled
      <3>1. /\ \A i \in 1..9 : Write("frame", i, GateWords[i]) \in Targets("gate")
            /\ \A i \in 1..4 : Write("controller", i, ControllerWords[i]) \in Targets("gate")
        BY PayloadsFit DEF Targets, FrameTarget, CallTarget
      <3>2. /\ \A i \in 1..9 : GateWords[i] # "zero"
            /\ \A i \in 1..4 : ControllerWords[i] # "zero"
        BY <3>1, TargetsDiffer DEF Kinds, Write
      <3> QED BY <2>1, <3>2, FilledIs
    <2> QED BY <1>4, <2>3, <2>4 DEF InHand
  <1>5. CASE wants \in {"out", "direct"}
    <2>1. block.frame[1] = "body" /\ block.controller[1] = "calc"
      BY <1>1, <1>3, <1>5, TargetsFit DEF FrameTarget, CallTarget
    <2> QED BY <1>5, <2>1 DEF Through, InHand
  <1>6. CASE wants = "counter"
    <2>1. block.frame[1] = "load" /\ block.frame[2] = "jump" /\ block.controller[1] = "calc"
      BY <1>1, <1>3, <1>6, TargetsFit DEF FrameTarget, CallTarget, ThroughWords
    <2> QED BY <1>6, <2>1 DEF Through, Counted, InHand
  <1> QED BY <1>1, <1>4, <1>5, <1>6 DEF Kinds
-----------------------------------------------------------------------------
(* The host's steps, as meant.                                              *)

\* A request puts in hand all that its kind asks for.
LEMMA RequestMeans ==
  ASSUME IInv, AsMeant, Meant, NEW kind \in setting.kinds \cup {"out"}, Request(kind)
  PROVE  Meant'
  <1>1. /\ todo' = WritesFor(kind) /\ wants' = kind
        /\ UNCHANGED <<block, in, rigid, guest, history>>
    BY DEF Request
  <1>2. kind \in Kinds
    BY SettingsAreKnown DEF IInv, KindsOK, Kinds
  <1>3. /\ \A j \in 1..Len(todo') : todo'[j] \in Targets(wants')
        /\ \A w \in Targets(wants') : \E j \in 1..Len(todo') : todo'[j] = w
        /\ todo' # <<>>
    BY <1>1, <1>2, WritesAreTargets
  <1>4. InHand'
    BY <1>3 DEF InHand, Left
  <1> QED BY <1>1, <1>4 DEF Meant, AsMeant, OneOrTheOther, MeetsThrough, InThrough, Through, Counted,
              Filled, Skips, Alternate, OneUpdate, Gated, Due, AllWired, rigid, guest, history

\* The word a write puts down is the one its place is to hold; the others stay.
LEMMA WritePutsDown ==
  ASSUME IInv, AsMeant, Meant, WriteWord
  PROVE  /\ Head(todo) \in Targets(wants) /\ wants \in Kinds
         /\ \A w \in Targets(wants) : Stands(w) \/ w = Head(todo) => Stands(w)'
         /\ Filled => Filled'
  <1> DEFINE h == Head(todo)
  <1>1. todo # <<>> /\ block' = [block EXCEPT ![h.region][h.i] = h.word]
    BY DEF WriteWord
  <1>2. wants \in Kinds
    BY SettingsAreKnown DEF IInv, KindsOK, Kinds
  <1>3. h = todo[1] /\ 1 \in 1..Len(todo)
    BY <1>1, EmptySeq, LenProperties DEF IInv, TodoFits
  <1>4. h \in Targets(wants) /\ h \in Writes
    BY <1>3, ElementOfSeq DEF Meant, InHand, IInv, TodoFits
  <1>5. /\ h.region \in {"frame", "controller"} /\ Fits(h.region, h.i, h.word) /\ h.word # "zero"
        /\ h.region = "frame" => h.i \in 1..9
        /\ h.region = "controller" => h.i \in 1..4
    BY <1>2, <1>4, TargetsDiffer DEF Writes, Fits, Calls
  <1>6. \A r \in {"frame", "controller"} : \A i \in Nat :
          (r = "frame" /\ i \in 1..9) \/ (r = "controller" /\ i \in 1..4)
          => block'[r][i] = IF r = h.region /\ i = h.i THEN h.word ELSE block[r][i]
    BY <1>1, <1>5 DEF IInv, BlocksFit
  <1>7. \A w \in Targets(wants) :
          (w.region = "frame" /\ w.i \in 1..9) \/ (w.region = "controller" /\ w.i \in 1..4)
    <2> SUFFICES ASSUME NEW w \in Targets(wants)
                 PROVE  \/ w.region = "frame" /\ w.i \in 1..9
                        \/ w.region = "controller" /\ w.i \in 1..4
      OBVIOUS
    <2>1. \/ w.region = "frame" /\ w.i \in 1..Len(FrameTarget(wants))
          \/ w.region = "controller" /\ w.i \in 1..Len(CallTarget(wants))
      BY <1>2, TargetsDiffer
    <2>2. /\ Len(FrameTarget(wants)) \in 1..9 /\ Len(CallTarget(wants)) \in 1..4
      <3>1. wants = "gate" \/ wants = "counter" \/ wants \in {"out", "direct"}
        BY <1>2 DEF Kinds
      <3>2. /\ wants = "gate" => Len(FrameTarget(wants)) = 9 /\ Len(CallTarget(wants)) = 4
            /\ wants = "counter" => Len(FrameTarget(wants)) = 2 /\ Len(CallTarget(wants)) = 1
            /\ wants \in {"out", "direct"} => Len(FrameTarget(wants)) = 1 /\ Len(CallTarget(wants)) = 1
        BY <1>2, TargetsFit
      <3> QED BY ONLY <3>1, <3>2
    <2>3. (\A n \in 1..9 : 1..n \subseteq 1..9) /\ (\A n \in 1..4 : 1..n \subseteq 1..4)
      OBVIOUS
    <2>4. 1..Len(FrameTarget(wants)) \subseteq 1..9 /\ 1..Len(CallTarget(wants)) \subseteq 1..4
      BY ONLY <2>2, <2>3
    <2> QED BY <2>1, <2>4
  <1>9. ASSUME NEW w \in Targets(wants), Stands(w) \/ w = h PROVE Stands(w)'
    <2>1. CASE w.region = h.region /\ w.i = h.i
      <3>1. w = h
        BY <1>2, <1>4, <2>1, TargetsDiffer
      <3> QED BY <1>5, <1>6, <1>7, <3>1 DEF Stands
    <2>2. CASE ~(w.region = h.region /\ w.i = h.i)
      BY <1>6, <1>7, <1>9, <2>2 DEF Stands
    <2> QED BY <2>1, <2>2
  <1>10. Filled => Filled'
    <2>1. BlocksFit /\ BlocksFit'
      BY WriteWordKeeps DEF IInv
    <2>2. /\ \A i \in 1..9 : block.frame[i] # "zero" => block'.frame[i] # "zero"
          /\ \A i \in 1..4 : block.controller[i] # "zero" => block'.controller[i] # "zero"
      BY <1>5, <1>6
    <2>3. Filled' <=> /\ \A i \in 1..9 : block'.frame[i] # "zero"
                      /\ \A i \in 1..4 : block'.controller[i] # "zero"
      <3>1. /\ DOMAIN block' = {"frame", "controller"}
            /\ DOMAIN block'["frame"] = 1..9 /\ DOMAIN block'["controller"] = 1..4
        BY <2>1 DEF BlocksFit
      <3> QED BY <3>1 DEF Filled
    <2> QED BY <2>1, <2>2, <2>3, FilledIs
  <1> QED BY <1>2, <1>4, <1>9, <1>10

\* A word written is one of those in hand, and comes while no call is in an unfilled block.
LEMMA WriteWordMeans == ASSUME IInv, AsMeant, Meant, WriteWord PROVE Meant'
  <1>1. /\ todo # <<>> /\ todo' = Tail(todo) /\ settled' = FALSE
        /\ (Apart => pc = Title)
        /\ UNCHANGED <<wants, rigid, guest, last, calcs>>
        /\ in' = IF Len(todo) = 1 THEN wants ELSE in
    BY DEF WriteWord
  <1>2. /\ Head(todo) \in Targets(wants) /\ wants \in Kinds
        /\ \A w \in Targets(wants) : Stands(w) \/ w = Head(todo) => Stands(w)'
        /\ Filled => Filled'
    BY WritePutsDown
  <1>3. /\ Len(todo') = Len(todo) - 1 /\ Len(todo) \in Nat /\ Head(todo) = todo[1]
        /\ \A j \in 1..Len(todo') : todo'[j] = todo[j + 1]
    <2>1. todo \in Seq(Writes)
      BY DEF IInv, TodoFits
    <2> QED BY <1>1, <2>1, HeadTailProperties, LenProperties
  <1>4. InHand'
    <2>1. ASSUME NEW w \in Targets(wants) PROVE Stands(w)' \/ \E j \in 1..Len(todo') : todo'[j] = w
      <3>1. CASE Stands(w)
        BY <1>2, <3>1
      <3>2. CASE Left(w)
        <4>1. PICK j \in 1..Len(todo) : todo[j] = w
          BY <3>2 DEF Left
        <4>2. CASE j = 1
          BY <1>2, <1>3, <4>1, <4>2
        <4>3. CASE j # 1
          <5>1. j - 1 \in 1..Len(todo') /\ todo'[j - 1] = todo[(j - 1) + 1] /\ (j - 1) + 1 = j
            BY <1>3, <4>1, <4>3
          <5> QED BY <4>1, <5>1
        <4> QED BY <4>2, <4>3
      <3> QED BY <3>1, <3>2 DEF Meant, InHand
    <2>2. \A j \in 1..Len(todo') : todo'[j] \in Targets(wants)
      <3> SUFFICES ASSUME NEW j \in 1..Len(todo') PROVE todo'[j] \in Targets(wants)
        OBVIOUS
      <3>1. j + 1 \in 1..Len(todo) /\ todo'[j] = todo[j + 1]
        BY <1>3
      <3> QED BY <3>1 DEF Meant, InHand
    <2>3. todo' = <<>> => in' = wants
      <3>1. Len(<<>>) = 0
        BY EmptySeq
      <3> QED BY <1>1, <1>3, <3>1
    <2> QED BY <1>1, <2>1, <2>2, <2>3 DEF InHand, Left
  <1>5. MeetsThrough'
    <2>1. ~Filled' => pc = Title
      BY <1>1, <1>2 DEF Apart, AsMeant
    <2> QED BY <1>1, <2>1 DEF MeetsThrough, guest
  <1>6. OneOrTheOther'
    <2> DEFINE h == Head(todo)
    <2>1. block' = [block EXCEPT ![h.region][h.i] = h.word] /\ setting' = setting
      BY DEF WriteWord, rigid
    <2>2. h \in Writes
      BY <1>1, HeadTailProperties DEF IInv, TodoFits
    <2>3. wants \in setting.kinds \cup {"out"} /\ ~({"gate", "counter"} \subseteq setting.kinds)
      BY DEF AsMeant, IInv, KindsOK
    <2>4. /\ h.region = "frame" => h.i \in 1..Len(FrameTarget(wants)) /\ h.word = FrameTarget(wants)[h.i]
          /\ h.region \in {"frame", "controller"}
      BY <1>2, TargetsDiffer
    <2>5. /\ h.region = "frame" /\ wants # "counter" => ~(h.i = 1 /\ h.word = "load") /\ ~(h.i = 2 /\ h.word = "jump")
          /\ h.region = "frame" /\ wants # "gate" => h.i # 9
      <3>1. CASE wants = "gate"
        BY <2>4, <3>1 DEF FrameTarget, GateWords
      <3>2. CASE wants = "counter"
        BY <2>4, <3>2 DEF FrameTarget, ThroughWords
      <3>3. CASE wants \in {"out", "direct"}
        BY <2>4, <3>3 DEF FrameTarget
      <3> QED BY <1>2, <3>1, <3>2, <3>3 DEF Kinds
    <2>6. \A i \in 1..9 : block'.frame[i] = IF h.region = "frame" /\ i = h.i THEN h.word ELSE block.frame[i]
      BY <2>1, <2>2, <2>4 DEF IInv, BlocksFit, Writes, Fits
    <2>7. "gate" \in setting.kinds => wants # "counter"
      BY <2>3
    <2>8. "gate" \notin setting.kinds => wants # "gate"
      BY <2>3
    <2>9. "gate" \in setting.kinds => block'.frame[1] # "load" /\ block'.frame[2] # "jump"
      BY <2>5, <2>6, <2>7 DEF Meant, OneOrTheOther
    <2>10. "gate" \notin setting.kinds => block'.frame[9] = "zero"
      BY <2>5, <2>6, <2>8 DEF Meant, OneOrTheOther
    <2> QED BY <2>1, <2>9, <2>10 DEF OneOrTheOther
  <1> QED BY <1>1, <1>4, <1>5, <1>6 DEF Meant, AsMeant, Skips, Alternate, Due, rigid, guest
-----------------------------------------------------------------------------
(* The guest's steps, as meant.                                             *)

\* What a guest step may disturb.
GuestMeant == fate = "ok" /\ MeetsThrough /\ Skips /\ Alternate

\* A guest step leaves the writes in hand and the blocks as they are.
LEMMA GuestKeepsMeant ==
  ASSUME Meant, AsMeant, UNCHANGED <<host, rigid>>, GuestMeant'
  PROVE  Meant'
  BY DEF Meant, AsMeant, GuestMeant, InHand, OneOrTheOther, Stands, Left, host, rigid

\* What the blocks hold does not change under a guest step.
LEMMA BlocksStay ==
  ASSUME UNCHANGED <<host, rigid>>
  PROVE  /\ (Filled' <=> Filled) /\ (Gated' <=> Gated) /\ (Through' <=> Through)
         /\ (Counted' <=> Counted) /\ (AllWired' <=> AllWired)
  BY DEF Filled, Gated, Through, Counted, AllWired, host, rigid

\* The loop makes its two calls by turns.
LEMMA TurnsOver ==
  ASSUME GuestOK, NextTurn, order' = order
  PROVE  /\ Due("frame") => Due("controller")' /\ ~Due("frame")'
         /\ Due("controller") => Due("frame")' /\ ~Due("controller")'
         /\ Due("frame") \/ Due("controller")
         /\ ~(Due("frame") /\ Due("controller"))
  BY DEF GuestOK, NextTurn, Due

\* Where each word stands.
LEMMA WordsPlace ==
  ASSUME IInv, NEW word, AtWord(word)
  PROVE  /\ word \in {"count", "load"} => pc = <<"frame", 1>>
         /\ word \in {"test", "jump"} => pc = <<"frame", 2>>
         /\ word = "tick" => pc = <<"frame", 3>>
         /\ word = "body" => pc = <<"frame", 1>> \/ pc = <<"frame", 4>>
         /\ word = "mark" => pc = <<"frame", 5>>
         /\ word = "draw" => pc = <<"frame", 6>>
         /\ word = "unmark" => pc = <<"frame", 7>>
         /\ word = "flip" => pc = <<"frame", 8>>
         /\ word = "return" => pc = <<"frame", 9>> \/ pc = <<"controller", 4>>
         /\ word = "compare" => pc = <<"controller", 1>>
         /\ word = "see" => pc = <<"controller", 2>>
         /\ word = "calc" => pc = <<"controller", 1>> \/ pc = <<"controller", 3>>
         /\ block[pc[1]][pc[2]] = word /\ pc # Title
  <1>1. CASE \E i \in 1..9 : pc = <<"frame", i>> /\ Fits("frame", i, word)
    <2>1. PICK i \in 1..9 : pc = <<"frame", i>> /\ Fits("frame", i, word)
      BY <1>1
    <2> QED BY <2>1 DEF Fits, AtWord
  <1>2. CASE \E i \in 1..4 : pc = <<"controller", i>> /\ Fits("controller", i, word)
    <2>1. PICK i \in 1..4 : pc = <<"controller", i>> /\ Fits("controller", i, word)
      BY <1>2
    <2> QED BY <2>1 DEF Fits, CallWords, AtWord
  <1> QED BY <1>1, <1>2, AtFits

\* A call in a block that was never filled is in a pass-through, and the count register it
\* branches through is loaded; so nothing the guest meets was never written.
LEMMA MeetsWritten ==
  ASSUME IInv, AsMeant, Meant, NEW word, AtWord(word)
  PROVE  /\ word # "zero"
         /\ word \notin {"body", "load", "jump", "calc"} => Filled /\ ~(Through /\ InThrough)
         /\ word = "load" => Counted /\ "gate" \notin setting.kinds
         /\ word = "jump" => Counted /\ reg = "loaded"
         /\ word = "test" => "gate" \in setting.kinds
  <1>1. pc # Title /\ block[pc[1]][pc[2]] = word
    BY DEF AtWord
  <1>2. ~Filled => Through /\ InThrough
    BY <1>1 DEF Meant, MeetsThrough
  <1>3. Through /\ InThrough => word \in {"body", "load", "jump", "calc"}
    BY <1>1 DEF Through, InThrough, Counted
  <1>4. word = "zero" => ~Filled
    <2>1. ASSUME word = "zero", pc \in {"frame"} \X (1..9) PROVE ~Filled
      BY <1>1, <2>1, FilledIs DEF IInv
    <2>2. ASSUME word = "zero", pc \in {"controller"} \X (1..4) PROVE ~Filled
      BY <1>1, <2>2, FilledIs DEF IInv
    <2> QED BY <1>1, <2>1, <2>2 DEF IInv, GuestOK, Places
  <1>5. "gate" \notin setting.kinds => ~Filled
    <2>1. 9 \in 1..9
      OBVIOUS
    <2> QED BY <2>1, FilledIs DEF Meant, OneOrTheOther, IInv
  <1>6. ASSUME word = "load" PROVE Counted /\ "gate" \notin setting.kinds
    <2>1. block.frame[1] = "load"
      BY <1>1, <1>6, WordsPlace
    <2>2. "gate" \notin setting.kinds
      BY <2>1 DEF Meant, OneOrTheOther
    <2> QED BY <1>2, <1>5, <2>1, <2>2 DEF Through
  <1>7. ASSUME word = "jump" PROVE Counted /\ reg = "loaded"
    <2>1. pc = <<"frame", 2>> /\ block.frame[2] = "jump"
      BY <1>1, <1>7, WordsPlace
    <2>2. "gate" \notin setting.kinds
      BY <2>1 DEF Meant, OneOrTheOther
    <2> QED BY <1>2, <1>5, <2>1, <2>2 DEF InThrough
  <1>8. word = "test" => "gate" \in setting.kinds
    BY <1>2, <1>3, <1>5
  <1> QED BY <1>2, <1>3, <1>4, <1>6, <1>7, <1>8

\* A call is made where the blocks are whole, or are a pass-through nobody is rewriting.
LEMMA CallsMean ==
  ASSUME IInv, AsMeant, Meant, CallBlock \/ CallTitle, UNCHANGED <<host, rigid>>
  PROVE  Meant'
  <1>1. /\ pc = Title /\ fate' = "ok" /\ UNCHANGED <<counters, reg>>
        /\ \A n \in 1..9 : Title # <<"frame", n>> /\ Title # <<"controller", n>>
    BY DEF CallBlock, CallTitle, Title
  <1>2. CASE CallBlock
    <2>1. /\ pc' = <<order[turn], 1>> /\ UNCHANGED <<order, turn, history>>
          /\ order[turn] \in {"frame", "controller"}
          /\ Apart => todo = <<>>
      BY <1>2 DEF CallBlock, rigid, IInv, GuestOK
    <2>2. /\ pc' \in {<<"frame", 1>>, <<"controller", 1>>} /\ pc'[1] = order[turn]
      BY <2>1
    <2>3. MeetsThrough'
      <3>1. ASSUME ~Filled PROVE Through /\ InThrough'
        <4>1. todo = <<>>
          BY <2>1, <3>1 DEF AsMeant, Apart
        <4>2. Through
          BY <3>1, <4>1, OneKindStands DEF IInv, Meant
        <4>3. InThrough'
          BY <2>2 DEF InThrough
        <4> QED BY <4>2, <4>3
      <3> QED BY <3>1, BlocksStay DEF MeetsThrough
    <2>4. Skips'
      BY <1>1, <2>1, <2>2 DEF Skips, Meant, history
    <2>5. Alternate'
      <3>1. /\ (Due("frame")' <=> Due("frame")) /\ (Due("controller")' <=> Due("controller"))
            /\ Due(order[turn])
            /\ InThrough'
        BY <2>1, <2>2 DEF Due, InThrough
      <3>2. OneUpdate => OneUpdate'
        <4>1. /\ UNCHANGED <<calcs, counters>> /\ pc = Title
              /\ (Gated' <=> Gated) /\ (Through' <=> Through)
              /\ pc' # <<"controller", 2>> /\ pc' # <<"controller", 3>>
              /\ Title # <<"controller", 3>> /\ Title # <<"frame", 4>>
          BY <1>1, <2>1, <2>2, BlocksStay DEF history
        <4> QED BY <3>1, <4>1 DEF OneUpdate
      <3>3. (pc' # Title => Due(pc[1])' /\ pc' # <<"controller", 4>>) /\ pc' # <<"frame", 4>>
        BY <2>1, <2>2 DEF Due
      <3> QED BY <1>1, <2>1, <3>2, <3>3, BlocksStay DEF Alternate, Meant, history
    <2> QED BY <1>1, <2>3, <2>4, <2>5, GuestKeepsMeant DEF GuestMeant
  <1>3. CASE CallTitle
    <2>1. pc' = Title /\ order[turn] \notin wired /\ wired' = wired
      BY <1>1, <1>3 DEF CallTitle, rigid
    <2>2. MeetsThrough'
      BY <2>1 DEF MeetsThrough
    <2>3. last' = last \/ last' = "tick"
      BY <1>3 DEF CallTitle, TickRuns, CalcRuns
    <2>4. Skips'
      BY <1>1, <2>1, <2>3 DEF Skips, Meant
    <2>5. ~AllWired
      BY <2>1 DEF AllWired, IInv, GuestOK
    <2>6. Alternate'
      BY <1>1, <2>1, <2>5, BlocksStay DEF Alternate
    <2> QED BY <1>1, <2>2, <2>4, <2>6, GuestKeepsMeant DEF GuestMeant
  <1> QED BY <1>2, <1>3

\* A whole call of the frame logic: the tick after it is the blocks' own kind's.
LEMMA TickMeans ==
  ASSUME IInv, AsMeant, Meant, UNCHANGED <<host, rigid, counters, reg, fate>>,
         Return, TickRuns,
         \/ AtWord("body")
         \/ AtWord("jump")
  PROVE  Meant'
  <1>1. /\ pc' = Title /\ NextTurn /\ order' = order /\ counters' = counters
        /\ last' = "tick" /\ calcs' = 0 /\ settled' = (todo = <<>>) /\ fate' = "ok"
        /\ \A n \in 1..9 : Title # <<"frame", n>> /\ Title # <<"controller", n>>
    BY DEF Return, TickRuns, Meant, rigid, Title
  <1>2. pc[1] = "frame" /\ Due("frame")
    BY WordsPlace DEF Meant, Alternate
  <1>3. Due("controller")' /\ ~Due("frame")'
    BY <1>1, <1>2, TurnsOver DEF IInv
  <1>4. Skips' /\ MeetsThrough'
    BY <1>1 DEF Skips, MeetsThrough
  <1>5. ASSUME todo = <<>> PROVE OneUpdate'
    <2>1. (wants = "gate" => Gated) /\ (wants # "gate" => Through)
      BY <1>5, OneKindStands DEF IInv, Meant
    <2>2. CASE Gated
      <3>1. block.frame[1] = "count" /\ block.frame[2] = "test"
        BY <2>2 DEF Gated, GateWords
      <3>2. pc = <<"frame", 4>>
        BY <3>1, WordsPlace
      <3>3. counters.ticked
        BY <3>2 DEF Meant, Alternate
      <3> QED BY <1>1, <1>3, <2>2, <3>3, BlocksStay DEF OneUpdate
    <2>3. CASE Through
      BY <1>1, <1>3, <2>3, BlocksStay DEF OneUpdate
    <2> QED BY <2>1, <2>2, <2>3
  <1>6. Alternate'
    <2>1. settled' => todo = <<>>
      BY <1>1
    <2> QED BY <1>1, <1>5, <2>1 DEF Alternate
  <1> QED BY <1>1, <1>4, <1>6, GuestKeepsMeant DEF GuestMeant

\* A frame logic call on its way through the gate.
LEMMA FrameGoesOn ==
  ASSUME IInv, AsMeant, Meant, UNCHANGED <<host, rigid, turn, calcs, fate>>,
         settled' = settled, Filled, ~(Through /\ InThrough),
         pc # Title, pc[1] = "frame", pc' # Title, pc'[1] = "frame",
         pc' = <<"frame", 4>> => counters'.ticked,
         pc # <<"frame", 4>>,
         pc' # <<"frame", 4>> => counters'.ticked = counters.ticked,
         Skips'
  PROVE  Meant'
  <1>1. /\ fate' = "ok" /\ Due("frame") /\ ~Due("controller") /\ MeetsThrough'
        /\ (Due("frame")' <=> Due("frame")) /\ (Due("controller")' <=> Due("controller"))
    BY BlocksStay DEF Meant, Alternate, Due, MeetsThrough, rigid
  <1>2. (pc' # Title => Due(pc[1])' /\ pc' # <<"controller", 4>>)
    BY <1>1
  <1>3. OneUpdate => OneUpdate'
    BY <1>1, BlocksStay DEF OneUpdate
  <1>4. Alternate'
    BY <1>1, <1>2, <1>3, BlocksStay DEF Alternate, Meant, Due
  <1> QED BY <1>1, <1>4, GuestKeepsMeant DEF GuestMeant

\* The gate's words that leave the frame logic's call in it: an even count goes on to the
\* skipped draw, an odd one to a tick.
LEMMA FrameWordsMean ==
  ASSUME IInv, AsMeant, Meant, UNCHANGED <<host, rigid>>,
         Count \/ Test \/ CountTick \/ Mark \/ Draw \/ Unmark \/ Flip
  PROVE  Meant'
  <1>1. PICK word \in {"count", "test", "tick", "mark", "draw", "unmark", "flip"} : AtWord(word)
    BY DEF Count, Test, CountTick, Mark, Draw, Unmark, Flip
  <1>2. /\ Filled /\ ~(Through /\ InThrough) /\ pc # Title /\ pc[1] = "frame"
        /\ pc # <<"frame", 4>> /\ Skips /\ setting' = setting
        /\ \A n \in 1..9 : Title # <<"frame", n>>
    BY <1>1, WordsPlace, MeetsWritten DEF Meant, Title, rigid
  <1>3. CASE Count
    <2>1. /\ pc = <<"frame", 1>> /\ pc' = <<"frame", 2>>
          /\ counters'.odd = ~counters.odd /\ counters'.ticked = counters.ticked
          /\ reg' = IF counters.odd THEN "even" ELSE "odd"
          /\ counters.odd \in BOOLEAN
          /\ UNCHANGED <<turn, fate, last, calcs, settled>>
      BY <1>3, WordsPlace DEF Count, GoOn, history, IInv, GuestOK
    <2>2. \/ counters.odd /\ ~counters'.odd /\ reg' = "even"
          \/ ~counters.odd /\ counters'.odd /\ reg' = "odd"
      BY <2>1
    <2>3. Skips'
      BY <1>2, <2>1, <2>2 DEF Skips
    <2> QED BY <1>2, <2>1, <2>3, FrameGoesOn
  <1>4. CASE Test
    <2>1. pc = <<"frame", 2>> /\ "gate" \in setting.kinds
      BY <1>4, WordsPlace, MeetsWritten DEF Test
    <2>2. /\ \/ reg = "odd" /\ pc' = <<"frame", 3>>
             \/ reg # "odd" /\ pc' = <<"frame", 5>>
          /\ UNCHANGED <<counters, turn, reg, fate, last, calcs, settled>>
      BY <1>4, <2>1 DEF Test, GoOn, history, SkippedDrawWord
    <2>3. Skips'
      BY <1>2, <2>1, <2>2 DEF Skips
    <2> QED BY <1>2, <2>2, <2>3, FrameGoesOn
  <1>5. CASE CountTick
    <2>1. /\ pc = <<"frame", 3>> /\ pc' = <<"frame", 4>>
          /\ counters'.odd = counters.odd /\ counters'.ticked = TRUE
          /\ UNCHANGED <<turn, reg, fate, last, calcs, settled>>
      BY <1>5, WordsPlace DEF CountTick, GoOn, history, IInv, GuestOK
    <2>2. Skips'
      BY <1>2, <2>1 DEF Skips
    <2> QED BY <1>2, <2>1, <2>2, FrameGoesOn
  <1>6. CASE Mark
    <2>1. /\ pc = <<"frame", 5>> /\ pc' = <<"frame", 6>>
          /\ counters'.odd = counters.odd /\ counters'.ticked = counters.ticked
          /\ UNCHANGED <<turn, reg, fate, last, calcs, settled>>
      BY <1>6, WordsPlace DEF Mark, GoOn, history, IInv, GuestOK
    <2>2. Skips'
      BY <1>2, <2>1 DEF Skips
    <2> QED BY <1>2, <2>1, <2>2, FrameGoesOn
  <1>7. CASE Draw
    <2>1. /\ pc = <<"frame", 6>> /\ pc' = <<"frame", 7>> /\ ~counters.odd
          /\ UNCHANGED <<counters, turn, reg, fate, calcs, settled>>
      BY <1>2, <1>7, WordsPlace DEF Draw, GoOn, Skips
    <2>2. Skips'
      BY <1>2, <2>1 DEF Skips
    <2> QED BY <1>2, <2>1, <2>2, FrameGoesOn
  <1>8. CASE Unmark
    <2>1. /\ pc = <<"frame", 7>> /\ pc' = <<"frame", 8>>
          /\ counters'.odd = counters.odd /\ counters'.ticked = counters.ticked
          /\ UNCHANGED <<turn, reg, fate, last, calcs, settled>>
      BY <1>8, WordsPlace DEF Unmark, GoOn, history, IInv, GuestOK
    <2>2. Skips'
      BY <1>2, <2>1 DEF Skips
    <2> QED BY <1>2, <2>1, <2>2, FrameGoesOn
  <1>9. CASE Flip
    <2>1. /\ pc = <<"frame", 8>> /\ pc' = <<"frame", 9>>
          /\ UNCHANGED <<counters, turn, reg, fate, last, calcs, settled>>
      BY <1>9, WordsPlace DEF Flip, GoOn, history
    <2>2. Skips'
      BY <1>2, <2>1 DEF Skips
    <2> QED BY <1>2, <2>1, <2>2, FrameGoesOn
  <1> QED BY <1>3, <1>4, <1>5, <1>6, <1>7, <1>8, <1>9

\* The count register is loaded under the control that branches through it.
LEMMA LoadMeans ==
  ASSUME IInv, AsMeant, Meant, UNCHANGED <<host, rigid>>, Load
  PROVE  Meant'
  <1>1. /\ pc = <<"frame", 1>> /\ pc' = <<"frame", 2>> /\ reg' = "loaded" /\ fate' = "ok"
        /\ Counted /\ "gate" \notin setting.kinds /\ setting' = setting /\ order' = order
        /\ UNCHANGED <<counters, turn, last, calcs, settled>>
        /\ \A n \in 1..9 : Title # <<"frame", n>>
    BY WordsPlace, MeetsWritten DEF Load, GoOn, history, rigid, Meant, Title
  <1>2. InThrough'
    BY <1>1, BlocksStay DEF InThrough
  <1>3. Skips'
    BY <1>1 DEF Skips, Meant
  <1>4. MeetsThrough'
    <2>1. ~Filled => Through
      BY <1>1 DEF Meant, MeetsThrough
    <2> QED BY <1>2, <2>1, BlocksStay DEF MeetsThrough
  <1>5. /\ Due("frame") /\ (Due("frame")' <=> Due("frame")) /\ (Due("controller")' <=> Due("controller"))
    BY <1>1 DEF Due, Meant, Alternate
  <1>6. OneUpdate => OneUpdate'
    <2>1. ~Gated /\ block.frame[1] = "load"
      BY <1>1 DEF Gated, GateWords, Counted
    <2> QED BY <1>1, <1>2, <1>5, <2>1, BlocksStay DEF OneUpdate
  <1>7. Due(pc[1])'
    BY <1>1, <1>5 DEF Due
  <1>8. Alternate'
    BY <1>1, <1>6, <1>7, BlocksStay DEF Alternate, Meant
  <1> QED BY <1>1, <1>3, <1>4, <1>8, GuestKeepsMeant DEF GuestMeant

\* The skipped call goes home; the controller's block is never left by its last word here,
\* its compare being modelled with the return it branches to.
LEMMA ReturnMeans ==
  ASSUME IInv, AsMeant, Meant, UNCHANGED <<host, rigid>>, ReturnWord
  PROVE  Meant'
  <1>1. pc # <<"controller", 4>> /\ pc # Title
    BY WordsPlace DEF Meant, Alternate, ReturnWord
  <1>2. /\ pc = <<"frame", 9>> /\ pc' = Title /\ NextTurn /\ order' = order
        /\ ~(Through /\ InThrough) /\ fate' = "ok"
        /\ UNCHANGED <<counters, reg, last, calcs, settled>>
        /\ \A n \in 1..9 : Title # <<"frame", n>> /\ Title # <<"controller", n>>
    BY <1>1, WordsPlace, MeetsWritten DEF ReturnWord, Return, history, rigid, Meant, Title
  <1>3. Due("frame") /\ ~Due("controller") /\ Due("controller")' /\ ~Due("frame")'
    BY <1>2, TurnsOver DEF Meant, Alternate, IInv
  <1>4. Skips' /\ MeetsThrough'
    BY <1>2 DEF Skips, MeetsThrough, Meant
  <1>5. OneUpdate => OneUpdate'
    BY <1>2, <1>3, BlocksStay DEF OneUpdate
  <1>6. Alternate'
    BY <1>2, <1>5, BlocksStay DEF Alternate, Meant
  <1> QED BY <1>2, <1>4, <1>6, GuestKeepsMeant DEF GuestMeant

\* The calc runs when the tick count has moved, once, and not again before the next tick.
LEMMA ControllerWordsMean ==
  ASSUME IInv, AsMeant, Meant, UNCHANGED <<host, rigid>>, Compare \/ See \/ Calc
  PROVE  Meant'
  <1>1. /\ fate' = "ok" /\ order' = order /\ UNCHANGED <<last, settled, reg>>
        /\ \A n \in 1..9 : Title # <<"frame", n>> /\ Title # <<"controller", n>>
    BY DEF Compare, See, Calc, CalcRuns, history, rigid, Meant, Title
  <1>2. pc \in {<<"controller", 1>>, <<"controller", 2>>, <<"controller", 3>>} /\ pc # Title
    BY WordsPlace DEF Compare, See, Calc
  <1>3. Due("controller") /\ ~Due("frame")
    <2>1. pc[1] = "controller"
      BY <1>2
    <2> QED BY <1>2, <2>1 DEF Meant, Alternate, Due
  <1>4. CASE Compare
    <2>1. pc = <<"controller", 1>> /\ block.controller[1] = "compare" /\ calcs' = calcs /\ counters' = counters
      BY <1>4, WordsPlace DEF Compare, history
    <2>2. Filled /\ ~(Through /\ InThrough)
      BY <1>4, MeetsWritten DEF Compare
    <2>3. CASE ~counters.ticked /\ pc' = Title /\ NextTurn
      <3>1. Due("frame")' /\ ~Due("controller")'
        BY <1>1, <1>3, <2>3, TurnsOver DEF IInv
      <3>2. Skips' /\ MeetsThrough'
        BY <1>1, <2>1, <2>3 DEF Skips, MeetsThrough, Meant
      <3>3. OneUpdate => OneUpdate'
        BY <1>1, <1>3, <2>1, <2>2, <2>3, <3>1, BlocksStay DEF OneUpdate
      <3>4. Alternate'
        BY <1>1, <2>3, <3>3, BlocksStay DEF Alternate, Meant
      <3> QED BY <1>1, <3>2, <3>4, GuestKeepsMeant DEF GuestMeant
    <2>4. CASE counters.ticked /\ pc' = <<"controller", 2>> /\ turn' = turn
      <3>1. Due("controller")' /\ ~Due("frame")'
        BY <1>1, <1>3, <2>4 DEF Due
      <3>2. Skips' /\ MeetsThrough'
        BY <1>1, <2>1, <2>2, <2>4, BlocksStay DEF Skips, MeetsThrough, Meant
      <3>3. OneUpdate => OneUpdate'
        BY <1>1, <1>3, <2>1, <2>2, <2>4, <3>1, BlocksStay DEF OneUpdate
      <3>4. Due(pc[1])' /\ pc' # <<"controller", 4>> /\ pc' # <<"frame", 4>>
        <4>1. pc'[1] = "controller"
          BY <2>4
        <4> QED BY <2>4, <3>1, <4>1 DEF Due
      <3>5. Alternate'
        BY <1>1, <3>3, <3>4, BlocksStay DEF Alternate, Meant
      <3> QED BY <1>1, <3>2, <3>5, GuestKeepsMeant DEF GuestMeant
    <2>5. pc' = [pc EXCEPT ![2] = @ + 1] => pc' = <<"controller", 2>>
      BY <2>1
    <2> QED BY <1>4, <2>3, <2>4, <2>5 DEF Compare, Return, GoOn
  <1>5. CASE See
    <2>1. /\ pc = <<"controller", 2>> /\ pc' = <<"controller", 3>> /\ calcs' = calcs /\ turn' = turn
          /\ counters'.odd = counters.odd /\ ~counters'.ticked
      BY <1>5, WordsPlace DEF See, GoOn, history, IInv, GuestOK
    <2>2. Filled /\ ~(Through /\ InThrough)
      BY <1>5, MeetsWritten DEF See
    <2>3. Due("controller")' /\ ~Due("frame")'
      BY <1>1, <1>3, <2>1 DEF Due
    <2>4. Skips' /\ MeetsThrough'
      BY <1>1, <2>1, <2>2, BlocksStay DEF Skips, MeetsThrough, Meant
    <2>5. OneUpdate => OneUpdate'
      BY <1>1, <1>2, <1>3, <2>1, <2>2, <2>3, BlocksStay DEF OneUpdate
    <2>6. Due(pc[1])' /\ pc' # <<"controller", 4>> /\ pc' # <<"frame", 4>>
      <3>1. pc'[1] = "controller"
        BY <2>1
      <3> QED BY <2>1, <2>3, <3>1 DEF Due
    <2>7. Alternate'
      BY <1>1, <2>5, <2>6, BlocksStay DEF Alternate, Meant
    <2> QED BY <1>1, <2>4, <2>7, GuestKeepsMeant DEF GuestMeant
  <1>6. CASE Calc
    <2>1. /\ pc' = Title /\ NextTurn /\ counters' = counters
          /\ calcs' = IF calcs = 2 THEN 2 ELSE calcs + 1
          /\ block.controller[pc[2]] = "calc"
      BY <1>2, <1>6 DEF Calc, Return, CalcRuns, AtWord
    <2>2. pc = <<"controller", 1>> \/ pc = <<"controller", 3>>
      BY <1>6, WordsPlace DEF Calc
    <2>3. Due("frame")' /\ ~Due("controller")'
      BY <1>1, <1>3, <2>1, TurnsOver DEF IInv
    <2>4. Skips' /\ MeetsThrough'
      BY <1>1, <1>2, <2>1 DEF Skips, MeetsThrough, Meant
    <2>5. OneUpdate => OneUpdate'
      <3>1. Gated => pc = <<"controller", 3>>
        BY <2>1, <2>2 DEF Gated, ControllerWords
      <3>2. OneUpdate => calcs \in {0, 1} /\ (calcs = 0 => calcs' = 1)
        BY <1>3, <2>1 DEF OneUpdate
      <3>3. CASE Gated
        BY <1>1, <1>3, <2>1, <2>3, <3>1, <3>2, <3>3, BlocksStay DEF OneUpdate
      <3>4. CASE ~Gated
        BY <1>1, <1>3, <2>1, <2>3, <3>2, <3>4, BlocksStay DEF OneUpdate
      <3> QED BY <3>3, <3>4
    <2>6. Alternate'
      BY <1>1, <2>1, <2>5, BlocksStay DEF Alternate, Meant
    <2> QED BY <1>1, <2>4, <2>6, GuestKeepsMeant DEF GuestMeant
  <1> QED BY <1>4, <1>5, <1>6

\* Every step keeps it.
LEMMA StepMeans == ASSUME IInv, Meant, [Next]_vars PROVE Meant'
  <1>1. setting' = setting
    BY DEF Next, GuestStep, HostStep, CallBlock, CallTitle, GuestWord, WriteWord, WriteRefused, Request,
           rigid, vars
  <1>2. (~AsMeant) => Meant'
    BY <1>1 DEF Meant, AsMeant
  <1>3. ASSUME AsMeant, GuestWord PROVE Meant'
    <2>1. UNCHANGED <<host, rigid>>
      BY <1>3 DEF GuestWord
    <2>2. CASE Count \/ Test \/ CountTick \/ Mark \/ Draw \/ Unmark \/ Flip
      BY <1>3, <2>1, <2>2, FrameWordsMean
    <2>3. CASE Body
      BY <1>3, <2>1, <2>3, TickMeans DEF Body
    <2>4. CASE Jump
      BY <1>3, <2>1, <2>4, TickMeans, MeetsWritten DEF Jump
    <2>5. CASE Illegal
      BY <1>3, <2>5, MeetsWritten DEF Illegal
    <2>6. CASE ReturnWord
      BY <1>3, <2>1, <2>6, ReturnMeans
    <2>7. CASE Load
      BY <1>3, <2>1, <2>7, LoadMeans
    <2>8. CASE Compare \/ See \/ Calc
      BY <1>3, <2>1, <2>8, ControllerWordsMean
    <2> QED BY <1>3, <2>2, <2>3, <2>4, <2>5, <2>6, <2>7, <2>8 DEF GuestWord
  <1>4. ASSUME AsMeant, CallBlock \/ CallTitle PROVE Meant'
    <2>1. UNCHANGED <<host, rigid>>
      BY <1>4 DEF CallBlock, CallTitle
    <2> QED BY <1>4, <2>1, CallsMean
  <1>5. ASSUME AsMeant, HostStep PROVE Meant'
    BY <1>5, WriteWordMeans DEF HostStep, WriteRefused, AsMeant
  <1>6. ASSUME AsMeant, NEW kind \in setting.kinds \cup {"out"}, Request(kind) PROVE Meant'
    BY <1>6, RequestMeans
  <1>7. CASE UNCHANGED vars
    BY <1>7 DEF Meant, AsMeant, InHand, Stands, Left, OneOrTheOther, MeetsThrough, InThrough, Through,
                Counted, Filled, Skips, Alternate, OneUpdate, Gated, Due, AllWired, vars, host, guest,
                history, rigid
  <1> QED BY <1>2, <1>3, <1>4, <1>5, <1>6, <1>7 DEF Next, GuestStep

\* The link-time blocks are what "out" asks for.
LEMMA InitMeans == Init => Meant
  <1> SUFFICES ASSUME Init, AsMeant PROVE Meant
    BY DEF Meant
  <1>1. /\ block.frame = [i \in 1..9 |-> IF i = 1 THEN "body" ELSE "zero"]
        /\ block.controller = [i \in 1..4 |-> IF i = 1 THEN "calc" ELSE "zero"]
        /\ todo = <<>> /\ wants = "out" /\ in = "out" /\ pc = Title /\ fate = "ok"
        /\ counters.odd = FALSE /\ settled = FALSE
    BY DEF Init
  <1>2. \A w \in Targets("out") : Stands(w)
    BY <1>1 DEF Targets, Stands, Write, FrameTarget, CallTarget
  <1>3. InHand
    <2>1. Len(todo) = 0
      BY <1>1, EmptySeq
    <2> QED BY <1>1, <1>2, <2>1 DEF InHand, Left
  <1>4. \A n \in 1..9 : Title # <<"frame", n>> /\ Title # <<"controller", n>>
    BY DEF Title
  <1>5. OneOrTheOther
    BY <1>1 DEF OneOrTheOther
  <1>6. MeetsThrough /\ Skips /\ Alternate
    BY <1>1, <1>4 DEF MeetsThrough, Skips, Alternate
  <1> QED BY <1>1, <1>3, <1>5, <1>6 DEF Meant

\* Where the blocks are filled before a call meets them, nothing is refused and no count
\* register is branched through under the gate, every word the guest meets was written for
\* the kind in hand, a call is skipped on an even count only, and one calc is due a tick.
THEOREM MeantInvariant == Spec => [](IInv /\ Meant)
  <1>1. Init => IInv /\ Meant
    BY InitHolds, InitMeans
  <1>2. (IInv /\ Meant) /\ [Next]_vars => (IInv /\ Meant)'
    BY StepMeans, StepKeeps
  <1> QED BY <1>1, <1>2, PTL DEF Spec

\* However often the gate goes in and out or is replaced, the guest meets no word that was
\* not written and no count register nobody loaded.
THEOREM NeverDiesInWhole == Spec => []NeverDies
  <1>1. IInv /\ Meant => NeverDies
    BY DEF Meant, NeverDies
  <1> QED BY <1>1, MeantInvariant, PTL

\* With no request in hand the blocks hold what is reported to be in, all of it.
THEOREM ReportedIsThere == Spec => []BlocksAreAsReported
  <1>1. IInv /\ Meant => BlocksAreAsReported
    <2> SUFFICES ASSUME IInv, Meant, AsMeant, todo = <<>>
                 PROVE  /\ in = "out" => block.frame[1] = "body" /\ block.controller[1] = "calc"
                        /\ in = "gate" => Gated
      BY DEF BlocksAreAsReported, Gated
    <2> QED BY OneKindStands DEF IInv, Meant
  <1> QED BY <1>1, MeantInvariant, PTL

\* No two calls in a row are skipped, over any number of times the gate goes in and out.
THEOREM SkipsAlternate == Spec => NeverTwoSkips
  <1>1. IInv /\ Meant /\ [Next]_vars => [AsMeant /\ Draw => last # "skip"]_vars
    BY WordsPlace DEF Meant, Skips, Draw
  <1> QED BY <1>1, MeantInvariant, PTL DEF Spec, NeverTwoSkips

\* From a tick on, while the blocks are left alone and every call comes to them, one calc
\* runs before the next tick, whichever call the loop makes first.
THEOREM OneUpdateATick == Spec => OneUpdatePerTick
  <1>1. IInv /\ Meant /\ [Next]_vars => [AsMeant /\ AllWired /\ TickRan /\ settled => calcs = 1]_vars
    <2> SUFFICES ASSUME IInv, Meant, AsMeant, AllWired, TickRan, settled PROVE calcs = 1
      OBVIOUS
    <2>1. pc[1] = "frame" /\ pc # Title
      BY WordsPlace DEF TickRan, Body, Jump
    <2> QED BY <2>1 DEF Meant, Alternate, OneUpdate
  <1> QED BY <1>1, MeantInvariant, PTL DEF Spec, OneUpdatePerTick
=============================================================================
