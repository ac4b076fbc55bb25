---------------------------- MODULE RequestsProofs ----------------------------
(***************************************************************************)
(* What the requests of the control channel write into the running title    *)
(* and into its pad, for any number of them, of the title's own changes and *)
(* of its reads; and what a census of vertex bytes counts, for any number   *)
(* of draws and of frames.                                                  *)
(***************************************************************************)
EXTENDS MCRequests, SequenceTheorems, FiniteSetTheorems, TLAPS
-----------------------------------------------------------------------------
(* The stage request.                                                       *)

\* What is still to be written, enable last.
Left0 == <<"name", "place", "speed", "mode", "restart", "enable">>
Left1 == <<"place", "speed", "mode", "restart", "enable">>
Left2 == <<"speed", "mode", "restart", "enable">>
Left3 == <<"mode", "restart", "enable">>
Left4 == <<"restart", "enable">>
Left5 == <<"enable">>
ToWrite == {Left0, Left1, Left2, Left3, Left4, Left5}

StageTypes == [words : [Words -> Int], enable : Int, inPlay : BOOLEAN, player : BOOLEAN, exits : Nat]
WarpTypes == [at : {"idle", "reading", "writing"}, id : Nat, seen : Int,
              left : ToWrite \cup {<<>>}, overtaken : BOOLEAN]
TypesOK == stage \in StageTypes /\ warp \in [Askers -> WarpTypes] /\ warps \in [asks : Nat, mixed : BOOLEAN]

\* What is not left to write is written.
WrittenSoFar(id, left) ==
  /\ left # Left0 => stage.words["name"] = id
  /\ left \in {Left2, Left3, Left4, Left5} => stage.words["place"] = id
  /\ left \in {Left3, Left4, Left5} => stage.words["speed"] = id
  /\ left \in {Left4, Left5} => stage.words["mode"] = id
  /\ left = Left5 => stage.words["restart"] = id

\* A request that no other overtook: none is enabled since it looked, or its own words are
\* already in one, and what is not left to write is written.
InOrder(c) ==
  /\ warp[c].at = "reading" /\ warp[c].seen = 0 /\ ~warp[c].overtaken => stage.enable = 0
  /\ warp[c].at = "writing" =>
       /\ warp[c].left \in ToWrite
       /\ ~warp[c].overtaken => /\ stage.enable # 0 => warps.mixed
                                /\ WrittenSoFar(warp[c].id, warp[c].left)

IInv == TypesOK /\ (\A c \in Askers : InOrder(c)) /\ StageSeenIsWhole

WarpSpec == WarpInit /\ [][WarpNext]_warpVars
-----------------------------------------------------------------------------
\* The words a request is written in.
LEMMA TheWords == Words = {"name", "place", "speed", "mode", "restart"}
  BY DEF Words, Requested

\* The request that is looked at and free to be written is written from its name on.
LEMMA AllLeft == Requested = Left0
  BY DEF Requested, Left0

\* Each word written leaves the ones after it.
LEMMA OneLess ==
  /\ Head(Left0) = "name" /\ Tail(Left0) = Left1 /\ Left1 # <<>>
  /\ Head(Left1) = "place" /\ Tail(Left1) = Left2 /\ Left2 # <<>>
  /\ Head(Left2) = "speed" /\ Tail(Left2) = Left3 /\ Left3 # <<>>
  /\ Head(Left3) = "mode" /\ Tail(Left3) = Left4 /\ Left4 # <<>>
  /\ Head(Left4) = "restart" /\ Tail(Left4) = Left5 /\ Left5 # <<>>
  /\ Head(Left5) = "enable" /\ Tail(Left5) = <<>>
  BY DEF Left0, Left1, Left2, Left3, Left4, Left5

\* What is left tells how much is written.
LEMMA LeftsDiffer ==
  /\ Left0 \notin {Left1, Left2, Left3, Left4, Left5}
  /\ Left1 \notin {Left2, Left3, Left4, Left5}
  /\ Left2 \notin {Left3, Left4, Left5}
  /\ Left3 \notin {Left4, Left5}
  /\ Left4 # Left5
  BY OneLess

\* An asker overtaken is where it was, and no one's words are its own any longer.
LEMMA IsOvertaken ==
  ASSUME TypesOK, NEW others \in SUBSET Askers
  PROVE  /\ Overtaken(others) \in [Askers -> WarpTypes]
         /\ \A c \in Askers :
              /\ Overtaken(others)[c].at = warp[c].at /\ Overtaken(others)[c].left = warp[c].left
              /\ c \in others /\ warp[c].at # "idle" => Overtaken(others)[c].overtaken
              /\ c \notin others => Overtaken(others)[c] = warp[c]
  BY DEF TypesOK, WarpTypes, Overtaken

\* The order of an asker that was overtaken is only what is left to it.
LEMMA OvertakenInOrder ==
  ASSUME NEW c \in Askers, InOrder(c), warp'[c].at = warp[c].at, warp'[c].left = warp[c].left,
         warp[c].at # "idle" => warp'[c].overtaken
  PROVE  InOrder(c)'
  BY DEF InOrder

-----------------------------------------------------------------------------
\* Nothing is asked of the play scene before it begins.
LEMMA InitHolds == WarpInit => IInv
  <1> SUFFICES ASSUME WarpInit PROVE IInv
    OBVIOUS
  <1>1. TypesOK
    BY DEF WarpInit, TypesOK, StageTypes, WarpTypes, NoWarp
  <1>2. (\A c \in Askers : InOrder(c)) /\ StageSeenIsWhole
    BY DEF WarpInit, NoWarp, InOrder, StageSeenIsWhole
  <1> QED BY <1>1, <1>2 DEF IInv

\* The title writes its request whole, and overtakes the warps under way.
LEMMA TitleAsksKeeps == IInv /\ TitleAsks => IInv'
  <1> SUFFICES ASSUME IInv, TitleAsks PROVE IInv'
    OBVIOUS
  <1>1. TypesOK /\ TitleWrites \in Int /\ stage \in StageTypes
    BY DEF IInv, TypesOK, StageTypes, TitleWrites
  <1>2. stage' = [words |-> [w \in Words |-> TitleWrites], enable |-> TitleWrites,
                  inPlay |-> stage.inPlay, player |-> stage.player, exits |-> stage.exits + 1]
    BY <1>1 DEF TitleAsks, StageTypes
  <1>3. stage' \in StageTypes
    BY <1>1, <1>2 DEF StageTypes
  <1>4. warp' = Overtaken(Askers) /\ warps' = [asks |-> warps.asks, mixed |-> FALSE]
    BY <1>1 DEF TitleAsks, TypesOK
  <1>5. TypesOK'
    BY <1>1, <1>3, <1>4, IsOvertaken DEF TypesOK
  <1>6. ASSUME NEW c \in Askers PROVE InOrder(c)'
    BY <1>1, <1>4, IsOvertaken, OvertakenInOrder DEF IInv
  <1>7. StageSeenIsWhole'
    BY <1>2 DEF StageSeenIsWhole
  <1> QED BY <1>5, <1>6, <1>7 DEF IInv

\* The play scene takes what was enabled: nothing is, after it.
LEMMA TitleTakesKeeps == IInv /\ TitleTakes => IInv'
  <1> SUFFICES ASSUME IInv, TitleTakes PROVE IInv'
    OBVIOUS
  <1>1. PICK player \in BOOLEAN : stage' = [stage EXCEPT !.enable = 0, !.player = player]
    BY DEF TitleTakes
  <1>2. stage' = [words |-> stage.words, enable |-> 0, inPlay |-> stage.inPlay,
                  player |-> player, exits |-> stage.exits]
    BY <1>1 DEF IInv, TypesOK, StageTypes
  <1>3. warp' = warp /\ warps' = warps
    BY DEF TitleTakes
  <1>4. TypesOK'
    BY <1>2, <1>3 DEF IInv, TypesOK, StageTypes
  <1>5. ASSUME NEW c \in Askers PROVE InOrder(c)'
    BY <1>2, <1>3 DEF IInv, InOrder, WrittenSoFar
  <1>6. StageSeenIsWhole'
    BY <1>2 DEF StageSeenIsWhole
  <1> QED BY <1>4, <1>5, <1>6 DEF IInv

\* Entering play changes no word of a request.
LEMMA TitleBeginsKeeps == IInv /\ TitleBegins => IInv'
  <1> SUFFICES ASSUME IInv, TitleBegins PROVE IInv'
    OBVIOUS
  <1>1. stage' = [words |-> stage.words, enable |-> stage.enable, inPlay |-> TRUE,
                  player |-> stage.player, exits |-> stage.exits] /\ UNCHANGED <<warp, warps>>
    BY DEF IInv, TypesOK, StageTypes, TitleBegins
  <1>2. TypesOK'
    BY <1>1 DEF IInv, TypesOK, StageTypes
  <1>3. (\A c \in Askers : InOrder(c))' /\ StageSeenIsWhole'
    BY <1>1 DEF IInv, InOrder, WrittenSoFar, StageSeenIsWhole
  <1> QED BY <1>2, <1>3 DEF IInv

\* One asker's place changes, and is in order; the words do not.
LEMMA OneMoves ==
  ASSUME IInv, NEW c \in Askers, NEW mine \in WarpTypes, warp' = [warp EXCEPT ![c] = mine],
         stage' = stage, warps' \in [asks : Nat, mixed : BOOLEAN], warps'.mixed = warps.mixed, InOrder(c)'
  PROVE  IInv'
  <1>1. TypesOK'
    BY DEF IInv, TypesOK
  <1>2. ASSUME NEW d \in Askers PROVE InOrder(d)'
    <2>1. CASE d = c
      BY <2>1
    <2>2. CASE d # c
      <3>1. warp'[d] = warp[d]
        BY <2>2 DEF IInv, TypesOK
      <3> QED BY <3>1 DEF IInv, InOrder, WrittenSoFar
    <2> QED BY <2>1, <2>2
  <1>3. StageSeenIsWhole'
    BY DEF IInv, StageSeenIsWhole
  <1> QED BY <1>1, <1>2, <1>3 DEF IInv

\* A request that looks and finds none enabled is overtaken by no one yet.
LEMMA PostWarpKeeps == ASSUME IInv, NEW c \in Askers, PostWarp(c) PROVE IInv'
  <1>1. PICK mine : mine = [NoWarp EXCEPT !.at = "reading", !.id = warps.asks + 1, !.seen = stage.enable]
    OBVIOUS
  <1>2. mine = [at |-> "reading", id |-> warps.asks + 1, seen |-> stage.enable, left |-> <<>>, overtaken |-> FALSE]
    BY <1>1 DEF NoWarp
  <1>3. /\ warp' = [warp EXCEPT ![c] = mine] /\ stage' = stage
        /\ warps' = [asks |-> warps.asks + 1, mixed |-> warps.mixed]
    BY <1>1 DEF PostWarp, IInv, TypesOK
  <1>4. mine \in WarpTypes /\ warps' \in [asks : Nat, mixed : BOOLEAN]
    BY <1>2, <1>3 DEF IInv, TypesOK, StageTypes, WarpTypes
  <1>5. warp'[c] = mine
    BY <1>3 DEF IInv, TypesOK
  <1>6. InOrder(c)'
    BY <1>2, <1>3, <1>5 DEF InOrder
  <1> QED BY <1>3, <1>4, <1>6, OneMoves

\* A request that gives up leaves the words as they are.
LEMMA RefusesKeeps == ASSUME IInv, NEW c \in Askers, Refuses(c) PROVE IInv'
  <1>1. warp' = [warp EXCEPT ![c] = NoWarp] /\ stage' = stage /\ warps' = warps
    BY DEF Refuses
  <1>2. NoWarp \in WarpTypes /\ NoWarp.at = "idle"
    BY DEF NoWarp, WarpTypes
  <1>3. warp'[c] = NoWarp
    BY <1>1 DEF IInv, TypesOK
  <1>4. InOrder(c)'
    BY <1>2, <1>3 DEF InOrder
  <1>5. warps' \in [asks : Nat, mixed : BOOLEAN]
    BY <1>1 DEF IInv, TypesOK
  <1> QED BY <1>1, <1>2, <1>4, <1>5, OneMoves

\* A request goes on to write only where it saw none enabled.
LEMMA ReadsStageKeeps == ASSUME IInv, NEW c \in Askers, ReadsStage(c) PROVE IInv'
  <1>1. CASE Refuses(c)
    BY <1>1, RefusesKeeps
  <1>2. CASE warp[c].at = "reading" /\ warp[c].seen = 0 /\ Starts(c, Requested)
    <2>1. PICK mine : mine = [warp[c] EXCEPT !.at = "writing", !.left = Left0]
      OBVIOUS
    <2>2. warp' = [warp EXCEPT ![c] = mine] /\ stage' = stage /\ warps' = warps
      BY <1>2, <2>1, AllLeft DEF Starts, IInv, TypesOK
    <2>3. /\ mine = [at |-> "writing", id |-> warp[c].id, seen |-> warp[c].seen, left |-> Left0,
                     overtaken |-> warp[c].overtaken]
          /\ warp[c] \in WarpTypes /\ warps \in [asks : Nat, mixed : BOOLEAN]
      BY <2>1 DEF IInv, TypesOK, WarpTypes
    <2>4. mine \in WarpTypes
      BY <2>3 DEF WarpTypes, ToWrite
    <2>5. warp'[c] = mine
      BY <2>2 DEF IInv, TypesOK
    <2>6. InOrder(c)'
      <3>1. ~mine.overtaken => stage.enable = 0
        BY <1>2, <2>3 DEF IInv, InOrder
      <3> QED BY <2>2, <2>3, <2>5, <3>1, LeftsDiffer DEF InOrder, WrittenSoFar, ToWrite
    <2> QED BY <2>2, <2>3, <2>4, <2>6, OneMoves
  <1> QED BY <1>1, <1>2 DEF ReadsStage

\* A word is written: those that were overtaken have only what is left to them.
LEMMA WritesKeepsOthers ==
  ASSUME IInv, NEW c \in Askers, Writes(c), NEW d \in Askers \ {c}
  PROVE  InOrder(d)'
  <1>1. warp'[d] = Overtaken(Askers \ {c})[d]
    BY IsOvertaken DEF IInv, Writes
  <1> QED BY <1>1, IsOvertaken, OvertakenInOrder DEF IInv

\* What one word of a request's changes.
LEMMA WritesOne ==
  ASSUME IInv, NEW c \in Askers, warp[c].at = "writing", Writes(c)
  PROVE  LET word == Head(warp[c].left)
             rest == [at |-> "writing", id |-> warp[c].id, seen |-> warp[c].seen, left |-> Tail(warp[c].left),
                      overtaken |-> warp[c].overtaken /\ word # "name"]
         IN /\ warp'[c] = IF word = "enable" THEN NoWarp ELSE rest
            /\ warp' \in [Askers -> WarpTypes]
            /\ warps' = [asks |-> warps.asks,
                         mixed |-> IF word = "enable" THEN warp[c].overtaken
                                   ELSE warps.mixed \/ (warp[c].overtaken /\ stage.enable # 0)]
            /\ stage' = [words |-> IF word = "enable" THEN stage.words
                                   ELSE [stage.words EXCEPT ![word] = warp[c].id],
                         enable |-> IF word = "enable" THEN warp[c].id ELSE stage.enable,
                         inPlay |-> stage.inPlay, player |-> stage.player, exits |-> stage.exits]
            /\ word # "enable" => word \in Words /\ Tail(warp[c].left) \in ToWrite
            /\ word = "enable" => warp[c].left = Left5
  <1>1. PICK word, left : word = Head(warp[c].left) /\ left = Tail(warp[c].left)
    OBVIOUS
  <1>2. /\ TypesOK /\ stage \in StageTypes /\ warp[c] \in WarpTypes /\ warp[c].left \in ToWrite
        /\ warps \in [asks : Nat, mixed : BOOLEAN]
    BY DEF IInv, TypesOK, InOrder
  <1>3. /\ (word = "enable" <=> left = <<>>)
        /\ word # "enable" => word \in Words /\ left \in ToWrite
        /\ word = "enable" => warp[c].left = Left5
    BY <1>1, <1>2, OneLess, TheWords DEF ToWrite
  <1>4. PICK rest : rest = [warp[c] EXCEPT !.left = left, !.overtaken = warp[c].overtaken /\ word # "name"]
    OBVIOUS
  <1>5. rest = [at |-> "writing", id |-> warp[c].id, seen |-> warp[c].seen, left |-> left,
                overtaken |-> warp[c].overtaken /\ word # "name"]
    BY <1>2, <1>4 DEF WarpTypes
  <1>6. /\ stage' = IF word = "enable" THEN [stage EXCEPT !.enable = warp[c].id]
                    ELSE [stage EXCEPT !.words[word] = warp[c].id]
        /\ warp' = [Overtaken(Askers \ {c}) EXCEPT ![c] = IF rest.left = <<>> THEN NoWarp ELSE rest]
        /\ warps' = [warps EXCEPT !.mixed = IF word = "enable" THEN warp[c].overtaken
                                            ELSE warps.mixed \/ (warp[c].overtaken /\ stage.enable # 0)]
    BY <1>1, <1>2, <1>4 DEF Writes, WarpTypes
  <1>7. PICK mine : mine = IF word = "enable" THEN NoWarp ELSE rest
    OBVIOUS
  <1>8. warp' = [Overtaken(Askers \ {c}) EXCEPT ![c] = mine]
    BY <1>3, <1>5, <1>6, <1>7
  <1>9. mine \in WarpTypes
    BY <1>2, <1>3, <1>5, <1>7 DEF WarpTypes, NoWarp
  <1>10. Overtaken(Askers \ {c}) \in [Askers -> WarpTypes]
    BY <1>2, IsOvertaken
  <1>11. warp'[c] = mine /\ warp' \in [Askers -> WarpTypes]
    BY <1>8, <1>9, <1>10
  <1>12. stage' = [words |-> IF word = "enable" THEN stage.words ELSE [stage.words EXCEPT ![word] = warp[c].id],
                   enable |-> IF word = "enable" THEN warp[c].id ELSE stage.enable,
                   inPlay |-> stage.inPlay, player |-> stage.player, exits |-> stage.exits]
    BY <1>2, <1>6 DEF StageTypes
  <1>13. warps' = [asks |-> warps.asks,
                   mixed |-> IF word = "enable" THEN warp[c].overtaken
                             ELSE warps.mixed \/ (warp[c].overtaken /\ stage.enable # 0)]
    BY <1>2, <1>6
  <1> QED BY <1>1, <1>3, <1>5, <1>7, <1>11, <1>12, <1>13

\* Every word but enable, of a request not overtaken, is written while none is enabled.
LEMMA WordKeeps ==
  ASSUME IInv, NEW c \in Askers, warp[c].at = "writing", Writes(c), Head(warp[c].left) # "enable"
  PROVE  IInv'
  <1>1. PICK word, left, id, over : word = Head(warp[c].left) /\ left = warp[c].left /\ id = warp[c].id
                                    /\ over = warp[c].overtaken
    OBVIOUS
  <1>2. /\ TypesOK /\ warp[c] \in WarpTypes /\ stage \in StageTypes /\ warps \in [asks : Nat, mixed : BOOLEAN]
        /\ left \in ToWrite /\ id \in Int /\ over \in BOOLEAN
        /\ ~over => (stage.enable # 0 => warps.mixed) /\ WrittenSoFar(id, left)
    BY <1>1 DEF IInv, TypesOK, InOrder, WarpTypes
  <1>3. /\ warp'[c].at = "writing" /\ warp'[c].id = id /\ warp'[c].left = Tail(left)
        /\ warp'[c].overtaken = (over /\ word # "name")
        /\ warps' = [asks |-> warps.asks, mixed |-> warps.mixed \/ (over /\ stage.enable # 0)]
        /\ stage' = [words |-> [stage.words EXCEPT ![word] = id], enable |-> stage.enable,
                     inPlay |-> stage.inPlay, player |-> stage.player, exits |-> stage.exits]
        /\ word \in Words /\ Tail(left) \in ToWrite /\ warp' \in [Askers -> WarpTypes]
    <2>1. warp'[c] = [at |-> "writing", id |-> id, seen |-> warp[c].seen, left |-> Tail(left),
                      overtaken |-> over /\ word # "name"]
      BY <1>1, WritesOne
    <2>2. /\ warps' = [asks |-> warps.asks, mixed |-> warps.mixed \/ (over /\ stage.enable # 0)]
          /\ word \in Words /\ Tail(left) \in ToWrite /\ warp' \in [Askers -> WarpTypes]
      BY <1>1, WritesOne
    <2>3. stage' = [words |-> [stage.words EXCEPT ![word] = id], enable |-> stage.enable,
                    inPlay |-> stage.inPlay, player |-> stage.player, exits |-> stage.exits]
      BY <1>1, WritesOne
    <2> QED BY <2>1, <2>2, <2>3
  <1>4. left \in {Left0, Left1, Left2, Left3, Left4}
    BY <1>1, <1>2, OneLess DEF ToWrite
  <1>5. stage' \in StageTypes /\ warps' \in [asks : Nat, mixed : BOOLEAN]
    BY <1>2, <1>3 DEF StageTypes
  <1>6. TypesOK'
    BY <1>3, <1>5 DEF TypesOK
  <1>7. InOrder(c)'
    <2>1. \A w \in Words : stage'.words[w] = IF w = word THEN id ELSE stage.words[w]
      BY <1>2, <1>3 DEF StageTypes
    <2>2. word = "name" <=> left = Left0
      BY <1>1, <1>4, OneLess
    <2>3. stage'.enable # 0 /\ ~warp'[c].overtaken => warps'.mixed
      BY <1>2, <1>3
    <2>4. ASSUME ~over \/ left = Left0 PROVE WrittenSoFar(id, Tail(left))'
      <3>1. CASE left = Left0
        BY <1>1, <2>1, <3>1, OneLess, LeftsDiffer, TheWords DEF WrittenSoFar
      <3>2. CASE left # Left0
        <4>1. WrittenSoFar(id, left)
          BY <1>2, <2>4, <3>2
        <4> QED BY <1>1, <1>4, <2>1, <3>2, <4>1, OneLess, LeftsDiffer, TheWords DEF WrittenSoFar
      <3> QED BY <3>1, <3>2
    <2> QED BY <1>3, <2>2, <2>3, <2>4 DEF InOrder, WrittenSoFar
  <1>8. ASSUME NEW d \in Askers PROVE InOrder(d)'
    BY <1>7, WritesKeepsOthers
  <1>9. StageSeenIsWhole'
    <2> SUFFICES ASSUME stage.enable # 0, ~warps'.mixed PROVE FALSE
      BY <1>3 DEF StageSeenIsWhole
    <2> QED BY <1>2, <1>3
  <1> QED BY <1>6, <1>8, <1>9 DEF IInv

\* Enable is written once every other word is.
LEMMA EnableKeeps ==
  ASSUME IInv, NEW c \in Askers, warp[c].at = "writing", Writes(c), Head(warp[c].left) = "enable"
  PROVE  IInv'
  <1>1. /\ TypesOK /\ warp[c] \in WarpTypes /\ stage \in StageTypes /\ warps \in [asks : Nat, mixed : BOOLEAN]
        /\ ~warp[c].overtaken => WrittenSoFar(warp[c].id, warp[c].left)
    BY DEF IInv, TypesOK, InOrder
  <1>2. /\ warp'[c] = NoWarp /\ warp' \in [Askers -> WarpTypes] /\ warp[c].left = Left5
        /\ warps' = [asks |-> warps.asks, mixed |-> warp[c].overtaken]
        /\ stage' = [words |-> stage.words, enable |-> warp[c].id,
                     inPlay |-> stage.inPlay, player |-> stage.player, exits |-> stage.exits]
    BY WritesOne
  <1>3. TypesOK'
    BY <1>1, <1>2 DEF TypesOK, StageTypes, WarpTypes
  <1>4. InOrder(c)'
    BY <1>2 DEF InOrder, NoWarp
  <1>5. ASSUME NEW d \in Askers PROVE InOrder(d)'
    BY <1>4, WritesKeepsOthers
  <1>6. StageSeenIsWhole'
    BY <1>1, <1>2, TheWords, LeftsDiffer DEF WrittenSoFar, StageSeenIsWhole
  <1> QED BY <1>3, <1>5, <1>6 DEF IInv

\* One word of a stage request is written, or refused and the rest left.
LEMMA WritesStageKeeps == ASSUME IInv, NEW c \in Askers, WritesStage(c) PROVE IInv'
  BY RefusesKeeps, WordKeeps, EnableKeeps DEF WritesStage

\* A step of the title's or of any asker's.
LEMMA WarpKeeps == IInv /\ [WarpNext]_warpVars => IInv'
  <1> SUFFICES ASSUME IInv, [WarpNext]_warpVars PROVE IInv'
    OBVIOUS
  <1>1. CASE WarpNext
    BY <1>1, TitleAsksKeeps, TitleTakesKeeps, TitleBeginsKeeps, PostWarpKeeps, ReadsStageKeeps,
       WritesStageKeeps DEF WarpNext
  <1>2. CASE UNCHANGED warpVars
    <2>1. stage' = stage /\ warp' = warp /\ warps' = warps
      BY <1>2 DEF warpVars
    <2> QED BY <2>1 DEF IInv, TypesOK, InOrder, WrittenSoFar, StageSeenIsWhole
  <1> QED BY <1>1, <1>2

-----------------------------------------------------------------------------
\* The words keep their types, and each client's request the order it is written in, for any
\* number of clients asking at once.
THEOREM WarpInductive == WarpSpec => []IInv
  <1>1. WarpInit => IInv
    BY InitHolds
  <1>2. IInv /\ [WarpNext]_warpVars => IInv'
    BY WarpKeeps
  <1> QED BY <1>1, <1>2, PTL DEF WarpSpec

\* The request the play scene sees enabled is all of one asker's, however many clients ask at
\* once and are refused in between, unless another wrote its own between an asker's look, or
\* its first write, and its last.
THEOREM StageIsSeenWhole == WarpSpec => []StageSeenIsWhole
  <1>1. IInv => StageSeenIsWhole
    BY DEF IInv
  <1> QED BY <1>1, WarpInductive, PTL

-----------------------------------------------------------------------------
(* The pad.                                                                 *)

PartNames == {"release", "left", "right", "press"}
AllSticks == UNION {[named -> Positions] : named \in SUBSET Sticks}
Asks == [part : PartNames, sticks : AllSticks, mask : SUBSET Buttons, reads : Reads]

PadTypes ==
  /\ driver = [pressed |-> driver.pressed, queued |-> driver.queued, sticks |-> driver.sticks,
               driving |-> driver.driving, lastMask |-> driver.lastMask]
  /\ pad = [polls |-> pad.polls, requests |-> pad.requests, owed |-> pad.owed,
            asked |-> pad.asked, sticks |-> pad.sticks]
  /\ driver.queued \in Nat /\ driver.driving \in BOOLEAN /\ pad.asked \in BOOLEAN
  /\ \A n \in DOMAIN driver.pressed : driver.pressed[n] \in [mask : SUBSET Buttons, reads : Nat]
  /\ \A n \in DOMAIN pad.owed :
       /\ n \in Nat /\ n < driver.queued
       /\ pad.owed[n] \in [mask : SUBSET Buttons, reads : Nat, seen : Nat]
  /\ asking \in Seq(Asks)

PadInv == PadTypes /\ PressesAreSeen /\ HandedBack

\* Nothing is held and nothing asked for at first.
LEMMA PadBegins == InputInit => PadInv
  BY DEF InputInit, PadInv, PadTypes, PressesAreSeen, HandedBack

\* A read holds every press once more, and lets go those that were held often enough.
LEMMA PollKeeps == PadInv /\ Poll => PadInv'
  <1> SUFFICES ASSUME PadInv, Poll PROVE PadInv'
    OBVIOUS
  <1>1. CASE ~driver.driving
    <2>1. /\ driver' = [driver EXCEPT !.lastMask = {}] /\ pad' = [pad EXCEPT !.polls = @ + 1]
          /\ asking' = asking
      BY <1>1 DEF Poll
    <2>2. PadTypes'
      BY <2>1 DEF PadInv, PadTypes
    <2>3. PressesAreSeen' /\ HandedBack'
      BY <2>1 DEF PadInv, PadTypes, PressesAreSeen, HandedBack
    <2> QED BY <2>2, <2>3 DEF PadInv
  <1>2. CASE driver.driving
    <2> DEFINE held == UNION {driver.pressed[n].mask : n \in DOMAIN driver.pressed}
               goOn == {n \in DOMAIN driver.pressed : driver.pressed[n].reads # 1}
               pressed == [n \in goOn |-> [driver.pressed[n] EXCEPT !.reads = @ - 1]]
               owed == [n \in DOMAIN pad.owed |->
                          IF pad.owed[n].mask \subseteq held THEN [pad.owed[n] EXCEPT !.seen = @ + 1]
                          ELSE pad.owed[n]]
    <2>1. /\ driver' = [driver EXCEPT !.pressed = pressed, !.lastMask = held]
          /\ pad' = [pad EXCEPT !.polls = @ + 1, !.owed = owed]
          /\ asking' = asking
      BY <1>2 DEF Poll, PadInv, PadTypes
    <2>2. /\ driver'.pressed = pressed /\ driver'.queued = driver.queued
          /\ driver'.sticks = driver.sticks /\ driver'.driving = driver.driving
          /\ pad'.owed = owed /\ pad'.asked = pad.asked /\ pad'.sticks = pad.sticks
      BY <2>1 DEF PadInv, PadTypes
    <2>3. \A n \in DOMAIN driver.pressed : driver.pressed[n].mask \subseteq held
      OBVIOUS
    <2>4. /\ DOMAIN pressed = goOn /\ DOMAIN owed = DOMAIN pad.owed
          /\ \A n \in goOn : /\ pressed[n].mask = driver.pressed[n].mask
                             /\ pressed[n].reads = driver.pressed[n].reads - 1
                             /\ pressed[n] \in [mask : SUBSET Buttons, reads : Nat]
      <3>1. ASSUME NEW n \in goOn
            PROVE  /\ pressed[n].mask = driver.pressed[n].mask
                   /\ pressed[n].reads = driver.pressed[n].reads - 1
                   /\ pressed[n] \in [mask : SUBSET Buttons, reads : Nat]
        <4>1. /\ n \in DOMAIN pad.owed /\ pad.owed[n].seen < pad.owed[n].reads
              /\ driver.pressed[n].reads = pad.owed[n].reads - pad.owed[n].seen
              /\ pad.owed[n] \in [mask : SUBSET Buttons, reads : Nat, seen : Nat]
              /\ driver.pressed[n] \in [mask : SUBSET Buttons, reads : Nat]
          BY <3>1 DEF PadInv, PadTypes, PressesAreSeen
        <4>2. driver.pressed[n].reads - 1 \in Nat
          BY <4>1
        <4> QED BY <4>1, <4>2
      <3> QED BY <3>1
    <2>5. ASSUME NEW n \in DOMAIN pad.owed
          PROVE  /\ owed[n] \in [mask : SUBSET Buttons, reads : Nat, seen : Nat]
                 /\ owed[n].mask = pad.owed[n].mask /\ owed[n].reads = pad.owed[n].reads
                 /\ owed[n].seen \in {pad.owed[n].seen, pad.owed[n].seen + 1}
                 /\ pad.owed[n].mask \subseteq held => owed[n].seen = pad.owed[n].seen + 1
      <3>1. pad.owed[n] \in [mask : SUBSET Buttons, reads : Nat, seen : Nat]
        BY <2>5 DEF PadInv, PadTypes
      <3> HIDE DEF held
      <3> QED BY <3>1, <2>5
    <2>6. PadTypes'
      <3>1. driver' = [pressed |-> pressed, queued |-> driver.queued, sticks |-> driver.sticks,
                       driving |-> driver.driving, lastMask |-> held]
        BY <2>1 DEF PadInv, PadTypes
      <3>2. pad' = [polls |-> pad.polls + 1, requests |-> pad.requests, owed |-> owed,
                    asked |-> pad.asked, sticks |-> pad.sticks]
        BY <2>1 DEF PadInv, PadTypes
      <3> HIDE DEF pressed, owed, held, goOn
      <3> QED BY <3>1, <3>2, <2>1, <2>4, <2>5 DEF PadInv, PadTypes
    <2>7. PressesAreSeen'
      <3>1. goOn = {n \in DOMAIN owed : owed[n].seen < owed[n].reads}
        <4>1. ASSUME NEW n \in DOMAIN pad.owed PROVE n \in goOn <=> owed[n].seen < owed[n].reads
          <5>1. pad.owed[n] \in [mask : SUBSET Buttons, reads : Nat, seen : Nat]
            BY <4>1 DEF PadInv, PadTypes
          <5>2. CASE n \in DOMAIN driver.pressed
            <6>1. /\ driver.pressed[n].reads = pad.owed[n].reads - pad.owed[n].seen
                  /\ driver.pressed[n].mask = pad.owed[n].mask /\ pad.owed[n].seen < pad.owed[n].reads
              BY <5>2 DEF PadInv, PressesAreSeen
            <6>2. owed[n].seen = pad.owed[n].seen + 1 /\ owed[n].reads = pad.owed[n].reads
              BY <5>2, <6>1, <2>3, <2>5
            <6> HIDE DEF owed
            <6> QED BY <5>1, <5>2, <6>1, <6>2
          <5>3. CASE n \notin DOMAIN driver.pressed
            <6>1. ~(pad.owed[n].seen < pad.owed[n].reads)
              BY <4>1, <5>3 DEF PadInv, PressesAreSeen
            <6> HIDE DEF owed
            <6> QED BY <5>1, <5>3, <6>1, <2>5
          <5> QED BY <5>2, <5>3
        <4>2. goOn \subseteq DOMAIN pad.owed
          BY DEF PadInv, PressesAreSeen
        <4> HIDE DEF goOn, owed
        <4> QED BY <4>1, <4>2, <2>4
      <3>2. ASSUME NEW n \in goOn
            PROVE  pressed[n].mask = owed[n].mask /\ pressed[n].reads = owed[n].reads - owed[n].seen
        <4>1. /\ n \in DOMAIN pad.owed /\ driver.pressed[n].mask = pad.owed[n].mask
              /\ driver.pressed[n].reads = pad.owed[n].reads - pad.owed[n].seen
              /\ pad.owed[n] \in [mask : SUBSET Buttons, reads : Nat, seen : Nat]
          BY <3>2 DEF PadInv, PadTypes, PressesAreSeen
        <4>2. /\ owed[n].seen = pad.owed[n].seen + 1 /\ owed[n].reads = pad.owed[n].reads
              /\ owed[n].mask = pad.owed[n].mask
          BY <4>1, <3>2, <2>3, <2>5
        <4>3. pressed[n].mask = driver.pressed[n].mask /\ pressed[n].reads = driver.pressed[n].reads - 1
          BY <2>4, <3>2
        <4> HIDE DEF owed, pressed
        <4> QED BY <4>1, <4>2, <4>3
      <3> HIDE DEF owed, pressed, goOn
      <3> QED BY <3>1, <3>2, <2>2, <2>4 DEF PressesAreSeen
    <2>8. HandedBack'
      BY <1>2, <2>2 DEF PadInv, HandedBack
    <2> QED BY <2>6, <2>7, <2>8 DEF PadInv
  <1> QED BY <1>1, <1>2

\* A press is one more that is held, and one more that is owed.
LEMMA PressKeeps ==
  ASSUME PadInv, NEW mask \in SUBSET Buttons, NEW reads \in Reads, Press(mask, reads),
         asking' \in Seq(Asks)
  PROVE  PadInv'
  <1>1. CASE mask = {} \/ reads = 0
    <2>1. driver' = driver /\ pad' = pad
      BY <1>1 DEF Press
    <2> QED BY <2>1 DEF PadInv, PadTypes, PressesAreSeen, HandedBack
  <1>2. CASE ~(mask = {} \/ reads = 0)
    <2> DEFINE press == [mask |-> mask, reads |-> reads]
               owing == [mask |-> mask, reads |-> reads, seen |-> 0]
               pressed == WithPress(driver.pressed, press)
               owed == WithPress(pad.owed, owing)
    <2>1. /\ driver' = [driver EXCEPT !.pressed = pressed, !.queued = @ + 1, !.driving = TRUE]
          /\ pad' = [pad EXCEPT !.owed = owed, !.asked = TRUE]
      BY <1>2 DEF Press
    <2>2. /\ driver' = [pressed |-> pressed, queued |-> driver.queued + 1,
                        sticks |-> driver.sticks, driving |-> TRUE, lastMask |-> driver.lastMask]
          /\ pad' = [polls |-> pad.polls, requests |-> pad.requests, owed |-> owed,
                     asked |-> TRUE, sticks |-> pad.sticks]
      <3> HIDE DEF pressed, owed
      <3> QED BY <2>1 DEF PadInv, PadTypes
    <2>3. reads \in Nat /\ reads > 0
      BY <1>2, ReadsAreNatural
    <2>4. /\ DOMAIN pressed = DOMAIN driver.pressed \cup {driver.queued}
          /\ DOMAIN owed = DOMAIN pad.owed \cup {driver.queued}
          /\ pressed[driver.queued] = press /\ owed[driver.queued] = owing
          /\ \A n \in DOMAIN driver.pressed : n # driver.queued => pressed[n] = driver.pressed[n]
          /\ \A n \in DOMAIN pad.owed : n # driver.queued => owed[n] = pad.owed[n]
      <3> HIDE DEF press, owing
      <3> QED BY DEF WithPress
    <2>5. /\ driver.queued \notin DOMAIN pad.owed
          /\ DOMAIN driver.pressed \subseteq DOMAIN pad.owed
      BY DEF PadInv, PadTypes, PressesAreSeen
    <2>6. /\ press \in [mask : SUBSET Buttons, reads : Nat]
          /\ owing \in [mask : SUBSET Buttons, reads : Nat, seen : Nat]
          /\ press.mask = owing.mask /\ press.reads = owing.reads - owing.seen
          /\ owing.seen < owing.reads
      BY <2>3
    <2>7. PadTypes'
      <3>1. \A n \in DOMAIN pressed : pressed[n] \in [mask : SUBSET Buttons, reads : Nat]
        <4> HIDE DEF pressed, press, owing, owed
        <4> QED BY <2>4, <2>5, <2>6 DEF PadInv, PadTypes
      <3>2. \A n \in DOMAIN owed :
              /\ n \in Nat /\ n < driver.queued + 1
              /\ owed[n] \in [mask : SUBSET Buttons, reads : Nat, seen : Nat]
        <4> HIDE DEF pressed, press, owing, owed
        <4> QED BY <2>4, <2>5, <2>6 DEF PadInv, PadTypes
      <3> HIDE DEF pressed, press, owing, owed
      <3> QED BY <2>2, <3>1, <3>2 DEF PadInv, PadTypes
    <2>8. PressesAreSeen'
      <3> HIDE DEF pressed, press, owing, owed
      <3>1. DOMAIN pressed = {n \in DOMAIN owed : owed[n].seen < owed[n].reads}
        BY <2>4, <2>5, <2>6 DEF PadInv, PressesAreSeen
      <3>2. ASSUME NEW n \in DOMAIN pressed
            PROVE  pressed[n].mask = owed[n].mask /\ pressed[n].reads = owed[n].reads - owed[n].seen
        <4>1. CASE n = driver.queued
          BY <4>1, <2>4, <2>6
        <4>2. CASE n # driver.queued
          BY <3>2, <4>2, <2>4, <2>5 DEF PadInv, PressesAreSeen
        <4> QED BY <4>1, <4>2
      <3>3. driver'.pressed = pressed /\ pad'.owed = owed
        BY <2>2
      <3> QED BY <3>1, <3>2, <3>3 DEF PressesAreSeen
    <2>9. HandedBack'
      <3> HIDE DEF pressed, press, owing, owed
      <3> QED BY <2>2 DEF PadInv, HandedBack
    <2> QED BY <2>7, <2>8, <2>9 DEF PadInv
  <1> QED BY <1>1, <1>2

\* A stick is held where it was asked for.
LEMMA SetStickKeeps ==
  ASSUME PadInv, NEW stick \in Sticks, NEW position, SetStick(stick, position),
         asking' \in Seq(Asks)
  PROVE  PadInv'
  <1> DEFINE sticks == [driver.sticks EXCEPT ![stick] = position]
  <1>1. driver.sticks = pad.sticks
    BY DEF PadInv, HandedBack
  <1>2. /\ driver' = [driver EXCEPT !.sticks = sticks, !.driving = TRUE]
        /\ pad' = [pad EXCEPT !.asked = TRUE, !.sticks = sticks]
    BY <1>1 DEF SetStick
  <1> HIDE DEF sticks
  <1>3. PadTypes'
    BY <1>2 DEF PadInv, PadTypes
  <1>4. /\ driver'.pressed = driver.pressed /\ pad'.owed = pad.owed
        /\ driver'.driving = TRUE /\ pad'.asked = TRUE /\ driver'.sticks = pad'.sticks
    BY <1>2 DEF PadInv, PadTypes
  <1>5. PressesAreSeen' /\ HandedBack'
    BY <1>4 DEF PadInv, PressesAreSeen, HandedBack
  <1> QED BY <1>3, <1>5 DEF PadInv

\* A player handed back is held to nothing.
LEMMA ReleaseKeeps ==
  ASSUME PadInv, Release, asking' \in Seq(Asks)
  PROVE  PadInv'
  <1>1. /\ driver' = [pressed |-> <<>>, queued |-> driver.queued, sticks |-> Centred,
                      driving |-> FALSE, lastMask |-> {}]
        /\ pad' = [polls |-> pad.polls, requests |-> pad.requests, owed |-> <<>>,
                   asked |-> FALSE, sticks |-> Centred]
    BY DEF Release, PadInv, PadTypes
  <1>2. DOMAIN <<>> = {}
    OBVIOUS
  <1>3. PadTypes'
    BY <1>1, <1>2 DEF PadInv, PadTypes
  <1>4. PressesAreSeen' /\ HandedBack'
    BY <1>1, <1>2 DEF PressesAreSeen, HandedBack
  <1> QED BY <1>3, <1>4 DEF PadInv

\* A request is applied a part at a time.
LEMMA PartsAreParts ==
  ASSUME NEW releasing \in BOOLEAN, NEW sticks, NEW mask
  PROVE  Parts(releasing, sticks, mask) \in Seq(PartNames)
  <1> DEFINE first == IF releasing THEN <<"release">> ELSE <<>>
             second == IF "left" \in DOMAIN sticks THEN <<"left">> ELSE <<>>
             third == IF "right" \in DOMAIN sticks THEN <<"right">> ELSE <<>>
             last == IF mask # {} THEN <<"press">> ELSE <<>>
  <1>1. /\ <<"release">> \in Seq(PartNames) /\ <<"left">> \in Seq(PartNames)
        /\ <<"right">> \in Seq(PartNames) /\ <<"press">> \in Seq(PartNames)
        /\ <<>> \in Seq(PartNames)
    BY DEF PartNames
  <1>2. first \in Seq(PartNames) /\ second \in Seq(PartNames) /\ third \in Seq(PartNames) /\ last \in Seq(PartNames)
    BY <1>1
  <1>3. Parts(releasing, sticks, mask) = first \o second \o third \o last
    BY DEF Parts
  <1> HIDE DEF first, second, third, last
  <1>4. first \o second \in Seq(PartNames) /\ first \o second \o third \in Seq(PartNames)
    BY <1>2, ConcatProperties
  <1> QED BY <1>2, <1>3, <1>4, ConcatProperties

\* A request parsed has changed nothing yet.
LEMMA PostInputKeeps ==
  ASSUME PadInv, NEW releasing \in BOOLEAN, NEW unknown \in BOOLEAN, NEW named \in SUBSET Sticks,
         NEW mask \in SUBSET Buttons, NEW reads \in Reads, NEW sticks \in [named -> Positions],
         PostInput(releasing, sticks, mask, reads, unknown)
  PROVE  PadInv'
  <1> DEFINE parts == Parts(releasing, sticks, mask)
             asks == [i \in DOMAIN parts |-> [part |-> parts[i], sticks |-> sticks,
                                              mask |-> mask, reads |-> reads]]
  <1>1. driver' = driver /\ pad' = [pad EXCEPT !.requests = @ + 1] /\ asking' \in {<<>>, asks}
    BY DEF PostInput
  <1>2. asks \in Seq(Asks)
    <2>1. parts \in Seq(PartNames)
      BY PartsAreParts
    <2>2. sticks \in AllSticks
      BY DEF AllSticks
    <2> HIDE DEF parts
    <2>3. \A i \in 1..Len(parts) : asks[i] \in Asks
      BY <2>1, <2>2 DEF Asks
    <2>4. DOMAIN asks = 1..Len(parts) /\ Len(parts) \in Nat
      BY <2>1
    <2>5. asks = [i \in 1..Len(parts) |-> asks[i]]
      BY <2>4
    <2> HIDE DEF asks
    <2> QED BY <2>3, <2>4, <2>5
  <1>3. asking' \in Seq(Asks)
    <2>1. <<>> \in Seq(Asks)
      OBVIOUS
    <2> HIDE DEF asks
    <2> QED BY <1>1, <1>2, <2>1
  <1>4. PadTypes'
    BY <1>1, <1>3 DEF PadInv, PadTypes
  <1>5. /\ driver'.pressed = driver.pressed /\ pad'.owed = pad.owed /\ pad'.asked = pad.asked
        /\ pad'.sticks = pad.sticks
    BY <1>1 DEF PadInv, PadTypes
  <1>6. PressesAreSeen' /\ HandedBack'
    BY <1>1, <1>5 DEF PadInv, PressesAreSeen, HandedBack
  <1> QED BY <1>4, <1>6 DEF PadInv

\* Each part of a request is the release, a stick or the press.
LEMMA AppliesPartKeeps == PadInv /\ AppliesPart => PadInv'
  <1> SUFFICES ASSUME PadInv, AppliesPart PROVE PadInv'
    OBVIOUS
  <1> DEFINE part == Head(asking)
  <1>1. asking \in Seq(Asks) /\ asking # <<>>
    BY DEF AppliesPart, PadInv, PadTypes
  <1>2. part \in Asks /\ asking' \in Seq(Asks)
    BY <1>1 DEF AppliesPart
  <1>3. part.mask \in SUBSET Buttons /\ part.reads \in Reads
    BY <1>2 DEF Asks
  <1>4. \/ Release \/ Press(part.mask, part.reads)
        \/ part.part \in Sticks /\ SetStick(part.part, part.sticks[part.part])
    BY DEF AppliesPart
  <1> HIDE DEF part
  <1> QED BY <1>2, <1>3, <1>4, ReleaseKeeps, PressKeeps, SetStickKeeps

\* The pad's steps keep what it holds and what it was asked for in step.
LEMMA PadKeeps == PadInv /\ [InputNext]_inputVars => PadInv'
  <1> SUFFICES ASSUME PadInv, [InputNext]_inputVars PROVE PadInv'
    OBVIOUS
  <1>1. CASE UNCHANGED inputVars
    BY <1>1 DEF inputVars, PadInv, PadTypes, PressesAreSeen, HandedBack
  <1>2. CASE InputNext
    BY <1>2, PollKeeps, PostInputKeeps, AppliesPartKeeps DEF InputNext
  <1> QED BY <1>1, <1>2

-----------------------------------------------------------------------------
(* An item.                                                                 *)

GotByte(item) == Byte("got", item, TRUE)
ItemByte(item) == Byte("items", item, TRUE)
ButtonByte(item, button) == Byte("select", button, item)
CountByte(item) == Byte("count", item, Amount)
MaximumByte(item) == Byte("maximum", item, Amount)

\* What is left of a grant, from each of its bytes on.
FromGot(item, button) ==
  IF item \in Counted
  THEN <<GotByte(item), ItemByte(item), ButtonByte(item, button), CountByte(item), MaximumByte(item)>>
  ELSE <<GotByte(item), ItemByte(item), ButtonByte(item, button)>>
FromItem(item, button) ==
  IF item \in Counted
  THEN <<ItemByte(item), ButtonByte(item, button), CountByte(item), MaximumByte(item)>>
  ELSE <<ItemByte(item), ButtonByte(item, button)>>
FromButton(item, button) ==
  IF item \in Counted THEN <<ButtonByte(item, button), CountByte(item), MaximumByte(item)>>
  ELSE <<ButtonByte(item, button)>>
FromCount(item) == <<CountByte(item), MaximumByte(item)>>
FromMaximum(item) == <<MaximumByte(item)>>

Place(g) == [left |-> g.left, word |-> g.word, item |-> g.item, button |-> g.button]
GrantTypes ==
  /\ \A c \in Givers : grant[c] = Place(grant[c]) /\ (grant[c].word # <<>> => grant[c].left # <<>>)
  /\ DOMAIN grant = Givers
  /\ grants = [given |-> grants.given, clobbers |-> grants.clobbers,
               asks |-> grants.asks, pickups |-> grants.pickups]
  /\ grants.clobbers \in BOOLEAN

SaveTypes ==
  save \in [got : [Items -> BOOLEAN], items : [Items -> BOOLEAN],
            select : [GrantButtons -> Items \cup {None}],
            count : [Items -> {0, Amount}], maximum : [Items -> {0, Amount}]]

\* The item asked for has its flag, is there, and is on its button, unless another was put
\* there since.
HasFlag(item) == save.got[item]
IsThere(item) == HasFlag(item) /\ save.items[item]
OnItsButton(g) == /\ IsThere(g.item) /\ g.button \in GrantButtons \cup {None}
                  /\ g.button # None => save.select[g.button] = g.item

\* How far a grant is, by what is left of it.
Progress(g) ==
  g.left # <<>> =>
    /\ g.item \in Items
    /\ \/ \E button \in GrantButtons :
            /\ g.button \in {button, None}
            /\ \/ g.left = FromGot(g.item, button)
               \/ g.left = FromItem(g.item, button) /\ HasFlag(g.item)
               \/ g.left = FromButton(g.item, button) /\ IsThere(g.item)
       \/ /\ g.item \in Counted /\ OnItsButton(g)
          /\ \/ g.left = FromCount(g.item)
             \/ g.left = FromMaximum(g.item) /\ save.count[g.item] = Amount

\* What a client was answered as given.
IsGiven(g) ==
  /\ g = [item |-> g.item, button |-> g.button] /\ g.item \in Items /\ OnItsButton(g)
  /\ g.item \in Counted => save.count[g.item] = Amount /\ save.maximum[g.item] = Amount

ButtonsHave == \A b \in GrantButtons : save.select[b] # None => save.items[save.select[b]]

GrantInv ==
  /\ GrantTypes
  /\ ~grants.clobbers =>
       SaveTypes /\ ButtonsHave /\ (\A c \in Givers : Progress(grant[c])) /\ \A g \in grants.given : IsGiven(g)

\* What is so of the words is what the guest and the tools see of them.
LEMMA GivenHolds == GrantInv => ButtonsHaveTheirItem /\ GivenIsGiven
  BY DEF GrantInv, ButtonsHave, IsGiven, OnItsButton, IsThere, HasFlag, ButtonsHaveTheirItem, GivenIsGiven

\* The bytes of a grant, and what is left after each of them.
LEMMA BytesInOrder ==
  ASSUME NEW item, NEW button
  PROVE  /\ BytesToSet(item, button) = FromGot(item, button)
         /\ Head(FromGot(item, button)) = GotByte(item)
         /\ Tail(FromGot(item, button)) = FromItem(item, button)
         /\ Len(FromGot(item, button)) # 1
         /\ Head(FromItem(item, button)) = ItemByte(item)
         /\ Tail(FromItem(item, button)) = FromButton(item, button)
         /\ Len(FromItem(item, button)) # 1
         /\ Head(FromButton(item, button)) = ButtonByte(item, button)
         /\ item \in Counted => /\ Tail(FromButton(item, button)) = FromCount(item)
                                /\ Len(FromButton(item, button)) # 1
         /\ item \notin Counted => /\ Tail(FromButton(item, button)) = <<>>
                                   /\ Len(FromButton(item, button)) = 1
         /\ Head(FromCount(item)) = CountByte(item)
         /\ Tail(FromCount(item)) = FromMaximum(item) /\ Len(FromCount(item)) # 1
         /\ Head(FromMaximum(item)) = MaximumByte(item)
         /\ Tail(FromMaximum(item)) = <<>> /\ Len(FromMaximum(item)) = 1
  <1> DEFINE got == GotByte(item)
             there == ItemByte(item)
             on == ButtonByte(item, button)
             count == CountByte(item)
             maximum == MaximumByte(item)
  <1>1. BytesToSet(item, button)
          = <<got, there, on>> \o (IF item \in Counted THEN <<count, maximum>> ELSE <<>>)
    BY DEF BytesToSet, GotByte, ItemByte, ButtonByte, CountByte, MaximumByte
  <1> HIDE DEF got, there, on, count, maximum
  <1>2. /\ <<got, there, on>> \o <<count, maximum>> = <<got, there, on, count, maximum>>
        /\ <<got, there, on>> \o <<>> = <<got, there, on>>
    <2> DEFINE bytes == {got, there, on, count, maximum}
               all == <<got, there, on, count, maximum>>
    <2>1. /\ <<got, there, on>> \in Seq(bytes) /\ <<count, maximum>> \in Seq(bytes)
          /\ all \in Seq(bytes) /\ Len(all) = 5
          /\ Len(<<got, there, on>>) = 3 /\ Len(<<count, maximum>>) = 2
      OBVIOUS
    <2>2. /\ <<got, there, on>> \o <<count, maximum>> \in Seq(bytes)
          /\ Len(<<got, there, on>> \o <<count, maximum>>) = 5
          /\ \A i \in 1..5 : (<<got, there, on>> \o <<count, maximum>>)[i]
                             = IF i <= 3 THEN <<got, there, on>>[i] ELSE <<count, maximum>>[i - 3]
      BY <2>1, ConcatProperties
    <2>3. \A i \in 1..5 : (<<got, there, on>> \o <<count, maximum>>)[i] = all[i]
      BY <2>2
    <2>4. <<got, there, on>> \o <<count, maximum>> = all
      <3> HIDE DEF all, bytes
      <3> QED BY <2>1, <2>2, <2>3, SeqEqual
    <2>5. <<got, there, on>> \o <<>> = <<got, there, on>>
      BY <2>1, ConcatEmptySeq
    <2> QED BY <2>4, <2>5
  <1>3. BytesToSet(item, button) = FromGot(item, button)
    BY <1>1, <1>2 DEF FromGot, got, there, on, count, maximum
  <1>4. CASE item \in Counted
    BY <1>3, <1>4 DEF FromGot, FromItem, FromButton, FromCount, FromMaximum
  <1>5. CASE item \notin Counted
    BY <1>3, <1>5 DEF FromGot, FromItem, FromButton, FromCount, FromMaximum
  <1> QED BY <1>4, <1>5

\* Nothing is given at first.
LEMMA GrantBegins == GrantInit => GrantInv
  <1> SUFFICES ASSUME GrantInit PROVE GrantInv
    OBVIOUS
  <1>1. GrantTypes /\ \A c \in Givers : Progress(grant[c])
    BY DEF GrantInit, GrantTypes, Place, Progress
  <1>2. SaveTypes /\ ButtonsHave
    BY DEF GrantInit, SaveTypes, ButtonsHave, Empty
  <1>3. grants.given = {}
    BY DEF GrantInit
  <1> QED BY <1>1, <1>2, <1>3 DEF GrantInv

\* No word changes, and one client's place does.
LEMMA OnePlaceChanges ==
  ASSUME GrantInv, NEW c \in Givers, NEW place, place = Place(place), place.word # <<>> => place.left # <<>>,
         save' = save, grant' = [grant EXCEPT ![c] = place],
         grants' = [given |-> grants.given, clobbers |-> grants.clobbers, asks |-> grants'.asks,
                    pickups |-> grants.pickups],
         ~grants.clobbers => Progress(place)
  PROVE  GrantInv'
  <1>1. /\ DOMAIN grant' = Givers /\ grant'[c] = place
        /\ \A d \in Givers : d # c => grant'[d] = grant[d]
    BY DEF GrantInv, GrantTypes
  <1>2. grants'.given = grants.given /\ grants'.clobbers = grants.clobbers /\ grants'.pickups = grants.pickups
    OBVIOUS
  <1>3. GrantTypes'
    <2>1. \A d \in Givers : grant'[d] = Place(grant'[d]) /\ (grant'[d].word # <<>> => grant'[d].left # <<>>)
      BY <1>1 DEF GrantInv, GrantTypes
    <2>2. grants.clobbers \in BOOLEAN
      BY DEF GrantInv, GrantTypes
    <2> QED BY <1>1, <1>2, <2>1, <2>2 DEF GrantTypes, Place
  <1>4. ASSUME ~grants.clobbers PROVE (SaveTypes /\ ButtonsHave /\ \A g \in grants.given : IsGiven(g))'
    BY <1>2, <1>4 DEF GrantInv, SaveTypes, ButtonsHave, IsGiven, OnItsButton, IsThere, HasFlag
  <1>5. ASSUME ~grants.clobbers, NEW d \in Givers PROVE Progress(grant[d])'
    <2>1. PICK g : g = grant'[d]
      OBVIOUS
    <2>2. Progress(g)
      BY <1>1, <1>5, <2>1 DEF GrantInv
    <2> QED BY <2>1, <2>2 DEF Progress, OnItsButton, IsThere, HasFlag
  <1> QED BY <1>2, <1>3, <1>4, <1>5 DEF GrantInv

\* A request begins with its first byte.
LEMMA PostItemKeeps ==
  ASSUME GrantInv, NEW c \in Givers, NEW item \in Items, NEW button \in GrantButtons, PostItem(c, item, button)
  PROVE  GrantInv'
  <1>1. PICK place : place = [left |-> BytesToSet(item, button), word |-> <<>>, item |-> item, button |-> button]
    OBVIOUS
  <1>2. /\ save' = save /\ grant' = [grant EXCEPT ![c] = place]
        /\ grants' = [given |-> grants.given, clobbers |-> grants.clobbers, asks |-> grants.asks + 1,
                      pickups |-> grants.pickups]
    BY <1>1 DEF PostItem, GrantInv, GrantTypes
  <1>3. place = Place(place) /\ place.word = <<>>
    BY <1>1 DEF Place
  <1>4. Progress(place)
    BY <1>1, BytesInOrder DEF Progress
  <1> QED BY <1>2, <1>3, <1>4, OnePlaceChanges

\* A word read changes nothing.
LEMMA ReadsWordKeeps == ASSUME GrantInv, NEW c \in Givers, ReadsWord(c) PROVE GrantInv'
  <1>1. PICK word, g, place : /\ word = <<save[Head(grant[c].left).word]>> /\ g = grant[c]
                              /\ place = [left |-> g.left, word |-> word, item |-> g.item, button |-> g.button]
    OBVIOUS
  <1>2. g = Place(g) /\ g.left # <<>> /\ (~grants.clobbers => Progress(g))
    BY <1>1 DEF GrantInv, GrantTypes, ReadsWord
  <1>3. place = [g EXCEPT !.word = word]
    BY <1>1, <1>2 DEF Place
  <1>4. save' = save /\ grants' = grants /\ grant' = [grant EXCEPT ![c] = place]
    BY <1>1, <1>3 DEF ReadsWord, GrantInv, GrantTypes
  <1>5. place = Place(place) /\ place.left = g.left /\ place.item = g.item /\ place.button = g.button
    BY <1>1 DEF Place
  <1>6. ~grants.clobbers => Progress(place)
    BY <1>2, <1>5 DEF Progress, OnItsButton
  <1>7. grants = [given |-> grants.given, clobbers |-> grants.clobbers, asks |-> grants.asks,
                  pickups |-> grants.pickups]
    BY DEF GrantInv, GrantTypes
  <1> QED BY <1>2, <1>4, <1>5, <1>6, <1>7, OnePlaceChanges

\* What is left of a grant changes, with no word read.
LEMMA LeftIs ==
  ASSUME NEW g, g = Place(g), NEW left
  PROVE  [g EXCEPT !.left = left, !.word = <<>>] = [left |-> left, word |-> <<>>, item |-> g.item, button |-> g.button]
  <1>1. PICK word, item, button, was : word = g.word /\ item = g.item /\ button = g.button /\ was = g.left
    OBVIOUS
  <1>2. g = [left |-> was, word |-> word, item |-> item, button |-> button]
    BY <1>1 DEF Place
  <1>3. PICK h, none : h = [left |-> was, word |-> word, item |-> item, button |-> button] /\ none = <<>>
    OBVIOUS
  <1>4. [h EXCEPT !.left = left] = [left |-> left, word |-> word, item |-> item, button |-> button]
    BY <1>3
  <1>5. PICK k : k = [h EXCEPT !.left = left]
    OBVIOUS
  <1>6. k = [left |-> left, word |-> word, item |-> item, button |-> button]
    BY <1>4, <1>5
  <1>7. [k EXCEPT !.word = none] = [left |-> left, word |-> none, item |-> item, button |-> button]
    BY <1>6
  <1>8. g = h
    BY <1>2, <1>3
  <1>9. [g EXCEPT !.left = left, !.word = none] = [k EXCEPT !.word = none]
    BY <1>5, <1>8, Zenon
  <1> QED BY <1>1, <1>3, <1>7, <1>9

\* A grant that fails leaves what it has written.
LEMMA GrantFailsKeeps == ASSUME GrantInv, NEW c \in Givers, GrantFails(c) PROVE GrantInv'
  <1>1. PICK g, place : /\ g = grant[c]
                        /\ place = [left |-> <<>>, word |-> <<>>, item |-> g.item, button |-> g.button]
    OBVIOUS
  <1>2. g = Place(g)
    BY <1>1 DEF GrantInv, GrantTypes
  <1>3. place = [g EXCEPT !.left = <<>>, !.word = <<>>]
    BY <1>1, <1>2, LeftIs
  <1>4. save' = save /\ grants' = grants /\ grant' = [grant EXCEPT ![c] = place]
    BY <1>1, <1>3 DEF GrantFails, GrantInv, GrantTypes
  <1>5. place = Place(place) /\ place.left = <<>> /\ place.word = <<>>
    BY <1>1 DEF Place
  <1>6. Progress(place)
    BY <1>5 DEF Progress
  <1>7. grants = [given |-> grants.given, clobbers |-> grants.clobbers, asks |-> grants.asks,
                  pickups |-> grants.pickups]
    BY DEF GrantInv, GrantTypes
  <1> QED BY <1>4, <1>5, <1>6, <1>7, OnePlaceChanges

\* The words only gain: no item nor count is lost, and but one button keeps what it names.
Gains(taken) ==
  /\ SaveTypes'
  /\ \A i \in Items : /\ save.got[i] => save'.got[i]
                      /\ save.items[i] => save'.items[i]
                      /\ save.count[i] = Amount => save'.count[i] = Amount
                      /\ save.maximum[i] = Amount => save'.maximum[i] = Amount
  /\ \A b \in GrantButtons : b # taken => save'.select[b] = save.select[b]

\* A place whose button was taken is otherwise as it was.
LEMMA OffIs ==
  ASSUME NEW g, NEW taken
  PROVE  /\ g = Place(g) => /\ Off(g, taken) = Place(Off(g, taken)) /\ Off(g, taken).left = g.left
                            /\ Off(g, taken).word = g.word /\ Off(g, taken).item = g.item
                            /\ Off(g, taken).button = IF g.button = taken THEN None ELSE g.button
         /\ g = [item |-> g.item, button |-> g.button] =>
              Off(g, taken) = [item |-> g.item, button |-> IF g.button = taken THEN None ELSE g.button]
  <1>1. CASE g.button = taken
    <2>1. ASSUME g = Place(g)
          PROVE  Off(g, taken) = [left |-> g.left, word |-> g.word, item |-> g.item, button |-> None]
      BY <1>1, <2>1 DEF Off, Place
    <2>2. ASSUME g = [item |-> g.item, button |-> g.button]
          PROVE  Off(g, taken) = [item |-> g.item, button |-> None]
      BY <1>1, <2>2 DEF Off
    <2> QED BY <1>1, <2>1, <2>2 DEF Place
  <1>2. CASE g.button # taken
    BY <1>2 DEF Off
  <1> QED BY <1>1, <1>2

\* Words that gain keep an item on its button, where that is not the one taken.
LEMMA StaysOnItsButton ==
  ASSUME NEW taken, Gains(taken), NEW g, g.item \in Items, OnItsButton(g), NEW h, h.item = g.item,
         h.button = IF g.button = taken THEN None ELSE g.button
  PROVE  OnItsButton(h)'
  <1>1. save'.got[g.item] /\ save'.items[g.item]
    BY DEF Gains, OnItsButton, IsThere, HasFlag
  <1>2. h.button \in GrantButtons \cup {None}
    BY DEF OnItsButton
  <1>3. h.button # None => save'.select[h.button] = h.item
    BY DEF Gains, OnItsButton
  <1> QED BY <1>1, <1>2, <1>3 DEF OnItsButton, IsThere, HasFlag

\* So another's grant is as far as it was.
LEMMA OthersProgress ==
  ASSUME NEW taken, Gains(taken), NEW g, g = Place(g), Progress(g), NEW h, h = Off(g, taken)
  PROVE  Progress(h)'
  <1>1. h.left = g.left /\ h.item = g.item /\ h.button = IF g.button = taken THEN None ELSE g.button
    BY OffIs
  <1>2. SUFFICES ASSUME g.left # <<>> PROVE Progress(h)'
    BY <1>1 DEF Progress
  <1>3. g.item \in Items
    BY <1>2 DEF Progress
  <1>4. HasFlag(g.item) => HasFlag(g.item)'
    BY <1>3 DEF Gains, HasFlag
  <1>5. IsThere(g.item) => IsThere(g.item)'
    BY <1>3 DEF Gains, HasFlag, IsThere
  <1>6. CASE g.item \in Counted /\ OnItsButton(g)
             /\ (g.left = FromCount(g.item) \/ (g.left = FromMaximum(g.item) /\ save.count[g.item] = Amount))
    <2>1. OnItsButton(h)'
      BY <1>1, <1>3, <1>6, StaysOnItsButton
    <2>2. save.count[g.item] = Amount => save'.count[g.item] = Amount
      BY <1>3 DEF Gains
    <2> QED BY <1>1, <1>3, <1>6, <2>1, <2>2 DEF Progress
  <1>7. CASE \E button \in GrantButtons :
               /\ g.button \in {button, None}
               /\ \/ g.left = FromGot(g.item, button)
                  \/ g.left = FromItem(g.item, button) /\ HasFlag(g.item)
                  \/ g.left = FromButton(g.item, button) /\ IsThere(g.item)
    <2>1. PICK button \in GrantButtons :
               /\ g.button \in {button, None}
               /\ \/ g.left = FromGot(g.item, button)
                  \/ g.left = FromItem(g.item, button) /\ HasFlag(g.item)
                  \/ g.left = FromButton(g.item, button) /\ IsThere(g.item)
      BY <1>7
    <2>2. h.button \in {button, None}
      BY <1>1, <2>1
    <2> QED BY <1>1, <1>3, <1>4, <1>5, <2>1, <2>2 DEF Progress
  <1> QED BY <1>2, <1>6, <1>7 DEF Progress

\* And what was given is given still.
LEMMA StillGiven ==
  ASSUME NEW taken, Gains(taken), NEW g, IsGiven(g), NEW h, h = Off(g, taken)
  PROVE  IsGiven(h)'
  <1>1. /\ h = [item |-> h.item, button |-> h.button] /\ h.item = g.item /\ g.item \in Items /\ OnItsButton(g)
        /\ h.button = IF g.button = taken THEN None ELSE g.button
    BY OffIs DEF IsGiven
  <1>2. OnItsButton(h)'
    BY <1>1, StaysOnItsButton
  <1>3. g.item \in Counted => save'.count[g.item] = Amount /\ save'.maximum[g.item] = Amount
    BY <1>1 DEF IsGiven, Gains
  <1> QED BY <1>1, <1>2, <1>3 DEF IsGiven

\* What a byte written for a client leaves to it, and is of it.
Wrote(item, on, left) ==
  /\ ButtonsHave'
  /\ \A h : h = Place(h) /\ h.item = item /\ h.button = on /\ h.left = left => Progress(h)'
  /\ left = <<>> => \A h : h = [item |-> item, button |-> on] => IsGiven(h)'

\* The flag, then the item.
LEMMA WritesGot ==
  ASSUME SaveTypes, ButtonsHave, NEW item \in Items, NEW button \in GrantButtons, NEW on \in {button, None},
         save' = [save EXCEPT !.got = [save.got EXCEPT ![item] = TRUE]]
  PROVE  Gains(None) /\ Wrote(item, on, FromItem(item, button))
  <1>1. /\ save'.got = [save.got EXCEPT ![item] = TRUE] /\ save'.items = save.items /\ save'.select = save.select
        /\ save'.count = save.count /\ save'.maximum = save.maximum /\ SaveTypes'
    BY DEF SaveTypes
  <1>2. Gains(None) /\ ButtonsHave' /\ HasFlag(item)'
    BY <1>1 DEF SaveTypes, Gains, ButtonsHave, HasFlag
  <1>3. FromItem(item, button) # <<>>
    BY DEF FromItem
  <1> QED BY <1>2, <1>3 DEF Wrote, Progress
LEMMA WritesItem ==
  ASSUME SaveTypes, ButtonsHave, NEW item \in Items, NEW button \in GrantButtons, NEW on \in {button, None},
         HasFlag(item), save' = [save EXCEPT !.items = [save.items EXCEPT ![item] = TRUE]]
  PROVE  Gains(None) /\ Wrote(item, on, FromButton(item, button))
  <1>1. /\ save'.items = [save.items EXCEPT ![item] = TRUE] /\ save'.got = save.got /\ save'.select = save.select
        /\ save'.count = save.count /\ save'.maximum = save.maximum /\ SaveTypes'
    BY DEF SaveTypes
  <1>2. Gains(None) /\ ButtonsHave' /\ IsThere(item)'
    BY <1>1 DEF SaveTypes, Gains, ButtonsHave, IsThere, HasFlag
  <1>3. FromButton(item, button) # <<>>
    BY DEF FromButton
  <1> QED BY <1>2, <1>3 DEF Wrote, Progress

\* Its button, once it is there.
LEMMA WritesButton ==
  ASSUME SaveTypes, ButtonsHave, NEW item \in Items, NEW button \in GrantButtons, NEW on \in {button, None},
         IsThere(item), save' = [save EXCEPT !.select = [save.select EXCEPT ![button] = item]]
  PROVE  Gains(button) /\ Wrote(item, on, IF item \in Counted THEN FromCount(item) ELSE <<>>)
  <1>1. /\ save'.select = [save.select EXCEPT ![button] = item] /\ save'.got = save.got
        /\ save'.items = save.items /\ save'.count = save.count /\ save'.maximum = save.maximum /\ SaveTypes'
    BY DEF SaveTypes
  <1>2. Gains(button) /\ ButtonsHave'
    BY <1>1 DEF SaveTypes, Gains, ButtonsHave, IsThere, HasFlag
  <1>3. ASSUME NEW h, h.item = item, h.button = on PROVE OnItsButton(h)'
    BY <1>1, <1>3 DEF SaveTypes, OnItsButton, IsThere, HasFlag
  <1>4. FromCount(item) # <<>>
    BY DEF FromCount
  <1> QED BY <1>2, <1>3, <1>4 DEF Wrote, Progress, IsGiven

\* The count and the maximum of one that has them.
LEMMA WritesCount ==
  ASSUME SaveTypes, ButtonsHave, NEW item \in Items \cap Counted, NEW on,
         OnItsButton([item |-> item, button |-> on]),
         save' = [save EXCEPT !.count = [save.count EXCEPT ![item] = Amount]]
  PROVE  Gains(None) /\ Wrote(item, on, FromMaximum(item))
  <1>1. /\ save'.count = [save.count EXCEPT ![item] = Amount] /\ save'.got = save.got /\ save'.items = save.items
        /\ save'.select = save.select /\ save'.maximum = save.maximum /\ SaveTypes'
    BY DEF SaveTypes, Amount
  <1>2. Gains(None) /\ ButtonsHave' /\ save'.count[item] = Amount
    BY <1>1 DEF SaveTypes, Gains, ButtonsHave
  <1>3. ASSUME NEW h, h.item = item, h.button = on PROVE OnItsButton(h)'
    BY <1>1, <1>3 DEF OnItsButton, IsThere, HasFlag
  <1>4. FromMaximum(item) # <<>>
    BY DEF FromMaximum
  <1> QED BY <1>2, <1>3, <1>4 DEF Wrote, Progress
LEMMA WritesMaximum ==
  ASSUME SaveTypes, ButtonsHave, NEW item \in Items \cap Counted, NEW on,
         OnItsButton([item |-> item, button |-> on]), save.count[item] = Amount,
         save' = [save EXCEPT !.maximum = [save.maximum EXCEPT ![item] = Amount]]
  PROVE  Gains(None) /\ Wrote(item, on, <<>>)
  <1>1. /\ save'.maximum = [save.maximum EXCEPT ![item] = Amount] /\ save'.got = save.got
        /\ save'.items = save.items /\ save'.select = save.select /\ save'.count = save.count /\ SaveTypes'
    BY DEF SaveTypes, Amount
  <1>2. Gains(None) /\ ButtonsHave' /\ save'.maximum[item] = Amount /\ save'.count[item] = Amount
    BY <1>1 DEF SaveTypes, Gains, ButtonsHave
  <1>3. ASSUME NEW h, h.item = item, h.button = on PROVE OnItsButton(h)'
    BY <1>1, <1>3 DEF OnItsButton, IsThere, HasFlag
  <1> QED BY <1>2, <1>3 DEF Wrote, Progress, IsGiven

\* The byte a grant is at, set in the word as it is.
LEMMA WritesByte ==
  ASSUME SaveTypes, ButtonsHave, NEW g, Progress(g), g.left # <<>>, NEW byte, byte = Head(g.left),
         save' = [save EXCEPT ![byte.word] = [save[byte.word] EXCEPT ![byte.at] = byte.value]]
  PROVE  /\ g.item \in Items /\ Gains(IF byte.word = "select" THEN byte.at ELSE None)
         /\ Wrote(g.item, g.button, Tail(g.left))
         /\ Len(g.left) = 1 <=> Tail(g.left) = <<>>
  <1>1. PICK item, on, left : item = g.item /\ on = g.button /\ left = g.left
    OBVIOUS
  <1>2. item \in Items
    BY <1>1 DEF Progress
  <1>3. ASSUME NEW button \in GrantButtons, on \in {button, None}, left = FromGot(item, button)
        PROVE  /\ Gains(IF byte.word = "select" THEN byte.at ELSE None) /\ Wrote(item, on, Tail(left))
               /\ Len(left) = 1 <=> Tail(left) = <<>>
    <2>1. byte.word = "got" /\ byte.at = item /\ byte.value = TRUE
      BY <1>1, <1>3, BytesInOrder DEF GotByte, Byte
    <2>2. save' = [save EXCEPT !["got"] = [save["got"] EXCEPT ![item] = TRUE]]
      BY <2>1
    <2>3. FromItem(item, button) # <<>>
      BY DEF FromItem
    <2>4. Gains(None) /\ Wrote(item, on, FromItem(item, button))
      BY <1>2, <1>3, <2>2, WritesGot
    <2> QED BY <1>3, <2>1, <2>3, <2>4, BytesInOrder
  <1>4. ASSUME NEW button \in GrantButtons, on \in {button, None}, left = FromItem(item, button), HasFlag(item)
        PROVE  /\ Gains(IF byte.word = "select" THEN byte.at ELSE None) /\ Wrote(item, on, Tail(left))
               /\ Len(left) = 1 <=> Tail(left) = <<>>
    <2>1. byte.word = "items" /\ byte.at = item /\ byte.value = TRUE
      BY <1>1, <1>4, BytesInOrder DEF ItemByte, Byte
    <2>2. save' = [save EXCEPT !["items"] = [save["items"] EXCEPT ![item] = TRUE]]
      BY <2>1
    <2>3. FromButton(item, button) # <<>>
      BY DEF FromButton
    <2>4. Gains(None) /\ Wrote(item, on, FromButton(item, button))
      BY <1>2, <1>4, <2>2, WritesItem
    <2> QED BY <1>4, <2>1, <2>3, <2>4, BytesInOrder
  <1>5. ASSUME NEW button \in GrantButtons, on \in {button, None}, left = FromButton(item, button), IsThere(item)
        PROVE  /\ Gains(IF byte.word = "select" THEN byte.at ELSE None) /\ Wrote(item, on, Tail(left))
               /\ Len(left) = 1 <=> Tail(left) = <<>>
    <2>1. byte.word = "select" /\ byte.at = button /\ byte.value = item
      BY <1>1, <1>5, BytesInOrder DEF ButtonByte, Byte
    <2>2. save' = [save EXCEPT !["select"] = [save["select"] EXCEPT ![button] = item]]
      BY <2>1
    <2>3. FromCount(item) # <<>>
      BY DEF FromCount
    <2>4. Gains(button) /\ Wrote(item, on, IF item \in Counted THEN FromCount(item) ELSE <<>>)
      BY <1>2, <1>5, <2>2, WritesButton
    <2> QED BY <1>5, <2>1, <2>3, <2>4, BytesInOrder
  <1>6. ASSUME item \in Counted, OnItsButton(g), left = FromCount(item)
        PROVE  /\ Gains(IF byte.word = "select" THEN byte.at ELSE None) /\ Wrote(item, on, Tail(left))
               /\ Len(left) = 1 <=> Tail(left) = <<>>
    <2>1. byte.word = "count" /\ byte.at = item /\ byte.value = Amount
      <3>1. byte = CountByte(item)
        BY <1>1, <1>6, BytesInOrder
      <3> QED BY <3>1 DEF CountByte, Byte
    <2>2. save' = [save EXCEPT !["count"] = [save["count"] EXCEPT ![item] = Amount]]
      BY <2>1
    <2>3. FromMaximum(item) # <<>> /\ OnItsButton([item |-> item, button |-> on])
      BY <1>1, <1>6 DEF FromMaximum, OnItsButton
    <2>4. Gains(None) /\ Wrote(item, on, FromMaximum(item))
      BY <1>2, <1>6, <2>2, <2>3, WritesCount
    <2> QED BY <1>6, <2>1, <2>3, <2>4, BytesInOrder
  <1>7. ASSUME item \in Counted, OnItsButton(g), left = FromMaximum(item), save.count[item] = Amount
        PROVE  /\ Gains(IF byte.word = "select" THEN byte.at ELSE None) /\ Wrote(item, on, Tail(left))
               /\ Len(left) = 1 <=> Tail(left) = <<>>
    <2>1. byte.word = "maximum" /\ byte.at = item /\ byte.value = Amount
      <3>1. byte = MaximumByte(item)
        BY <1>1, <1>7, BytesInOrder
      <3> QED BY <3>1 DEF MaximumByte, Byte
    <2>2. save' = [save EXCEPT !["maximum"] = [save["maximum"] EXCEPT ![item] = Amount]]
      BY <2>1
    <2>3. OnItsButton([item |-> item, button |-> on])
      BY <1>1, <1>7 DEF OnItsButton
    <2>4. Gains(None) /\ Wrote(item, on, <<>>)
      BY <1>2, <1>7, <2>2, <2>3, WritesMaximum
    <2> QED BY <1>7, <2>1, <2>4, BytesInOrder
  <1> QED BY <1>1, <1>2, <1>3, <1>4, <1>5, <1>6, <1>7 DEF Progress

\* A word is written with its byte in it; what was written since it was read is lost.
LEMMA WritesWordKeeps == ASSUME GrantInv, NEW c \in Givers, WritesWord(c) PROVE GrantInv'
  <1> DEFINE g == grant[c]
             byte == Head(g.left)
             word == g.word[1]
             taken == IF byte.word = "select" THEN byte.at ELSE None
             done == IF Len(g.left) = 1 THEN {[item |-> g.item, button |-> g.button]} ELSE {}
             lost == [word EXCEPT ![byte.at] = byte.value] # [save[byte.word] EXCEPT ![byte.at] = byte.value]
             given == {Off(h, taken) : h \in grants.given} \cup done
             undone == grants.clobbers \/ lost
  <1>1. /\ save' = [save EXCEPT ![byte.word] = [word EXCEPT ![byte.at] = byte.value]]
        /\ grant' = [d \in Givers |-> IF d = c THEN [g EXCEPT !.left = Tail(g.left), !.word = <<>>]
                                      ELSE Off(grant[d], taken)]
        /\ grants' = [grants EXCEPT !.clobbers = undone, !.given = given]
        /\ g.word # <<>>
    BY DEF WritesWord
  <1>2. ~undone => ~grants.clobbers
                  /\ save' = [save EXCEPT ![byte.word] = [save[byte.word] EXCEPT ![byte.at] = byte.value]]
    BY <1>1
  <1>3. /\ undone \in BOOLEAN /\ taken = (IF byte.word = "select" THEN byte.at ELSE None)
        /\ done = (IF Len(g.left) = 1 THEN {[item |-> g.item, button |-> g.button]} ELSE {})
        /\ \A i \in given : i \in done \/ \E h \in grants.given : i = Off(h, taken)
        /\ g = grant[c] /\ byte = Head(g.left)
    OBVIOUS
  <1> HIDE DEF g, byte, word, taken, done, lost, given, undone
  <1>4. g = Place(g) /\ g.left # <<>> /\ grants.clobbers \in BOOLEAN
    BY <1>1, <1>3 DEF GrantInv, GrantTypes
  <1>5. grants' = [given |-> given, clobbers |-> undone, asks |-> grants.asks, pickups |-> grants.pickups]
    BY <1>1 DEF GrantInv, GrantTypes
  <1>6. PICK h : h = [left |-> Tail(g.left), word |-> <<>>, item |-> g.item, button |-> g.button]
    OBVIOUS
  <1>7. h = [g EXCEPT !.left = Tail(g.left), !.word = <<>>] /\ h = Place(h)
    BY <1>4, <1>6, LeftIs DEF Place
  <1>8. /\ grant'[c] = h /\ DOMAIN grant' = Givers
        /\ \A d \in Givers : d # c => grant'[d] = Off(grant[d], taken)
    BY <1>1, <1>7
  <1>9. GrantTypes'
    <2>1. \A d \in Givers : grant'[d] = Place(grant'[d]) /\ (grant'[d].word # <<>> => grant'[d].left # <<>>)
      <3> SUFFICES ASSUME NEW d \in Givers
                   PROVE  grant'[d] = Place(grant'[d]) /\ (grant'[d].word # <<>> => grant'[d].left # <<>>)
        OBVIOUS
      <3>1. CASE d = c
        BY <1>6, <1>7, <1>8, <3>1
      <3>2. CASE d # c
        <4>1. PICK other : other = grant[d]
          OBVIOUS
        <4>2. other = Place(other) /\ (other.word # <<>> => other.left # <<>>) /\ grant'[d] = Off(other, taken)
          BY <1>8, <3>2, <4>1 DEF GrantInv, GrantTypes
        <4> QED BY <4>2, OffIs
      <3> QED BY <3>1, <3>2
    <2>2. /\ grants' = [given |-> grants'.given, clobbers |-> grants'.clobbers,
                        asks |-> grants'.asks, pickups |-> grants'.pickups]
          /\ grants'.clobbers \in BOOLEAN
      BY <1>3, <1>5
    <2> QED BY <1>8, <2>1, <2>2 DEF GrantTypes, Place
  <1>10. ASSUME ~grants'.clobbers
         PROVE  (SaveTypes /\ ButtonsHave /\ (\A d \in Givers : Progress(grant[d]))
                 /\ \A i \in grants.given : IsGiven(i))'
    <2>1. ~undone
      BY <1>5, <1>10
    <2>2. ~grants.clobbers
          /\ save' = [save EXCEPT ![byte.word] = [save[byte.word] EXCEPT ![byte.at] = byte.value]]
      BY <1>2, <2>1
    <2>3. SaveTypes /\ ButtonsHave /\ Progress(g)
      BY <1>3, <2>2 DEF GrantInv
    <2>4. /\ g.item \in Items /\ Gains(taken) /\ Wrote(g.item, g.button, Tail(g.left))
          /\ Len(g.left) = 1 <=> Tail(g.left) = <<>>
      BY <1>3, <1>4, <2>2, <2>3, WritesByte
    <2>5. SaveTypes' /\ ButtonsHave'
      BY <2>4 DEF Gains, Wrote
    <2>6. ASSUME NEW d \in Givers PROVE Progress(grant[d])'
      <3>1. CASE d = c
        <4>1. Progress(h)'
          BY <1>6, <1>7, <2>4 DEF Wrote
        <4> QED BY <1>8, <3>1, <4>1 DEF Progress, OnItsButton, IsThere, HasFlag
      <3>2. CASE d # c
        <4>1. PICK other, after : other = grant[d] /\ after = Off(other, taken)
          OBVIOUS
        <4>2. other = Place(other) /\ Progress(other)
          BY <2>2, <4>1 DEF GrantInv, GrantTypes
        <4>3. Progress(after)'
          BY <2>4, <4>1, <4>2, OthersProgress
        <4> QED BY <1>8, <3>2, <4>1, <4>3 DEF Progress, OnItsButton, IsThere, HasFlag
      <3> QED BY <3>1, <3>2
    <2>7. ASSUME NEW i \in grants'.given PROVE IsGiven(i)'
      <3>1. CASE i \in done
        <4>1. i = [item |-> g.item, button |-> g.button] /\ Tail(g.left) = <<>>
          BY <1>3, <2>4, <3>1
        <4> QED BY <2>4, <4>1 DEF Wrote
      <3>2. CASE i \notin done
        <4>1. PICK before \in grants.given : i = Off(before, taken)
          BY <1>3, <1>5, <2>7, <3>2
        <4>2. IsGiven(before)
          BY <2>2 DEF GrantInv
        <4> QED BY <2>4, <4>1, <4>2, StillGiven
      <3> QED BY <3>1, <3>2
    <2> QED BY <2>5, <2>6, <2>7
  <1> QED BY <1>9, <1>10 DEF GrantInv

\* What the title changes, every grant is told of: words that gain, and a button taken.
LEMMA TitleChanges ==
  ASSUME GrantInv, NEW taken, ~grants.clobbers => Gains(taken) /\ ButtonsHave',
         DOMAIN grant' = Givers, \A d \in Givers : grant'[d] = Off(grant[d], taken),
         grants' = [given |-> grants'.given, clobbers |-> grants.clobbers, asks |-> grants.asks,
                    pickups |-> grants.pickups + 1],
         ~grants.clobbers => \A g \in grants'.given : \E before \in grants.given : g = Off(before, taken)
  PROVE  GrantInv'
  <1>1. GrantTypes'
    <2>1. \A d \in Givers : grant'[d] = Place(grant'[d]) /\ (grant'[d].word # <<>> => grant'[d].left # <<>>)
      BY OffIs DEF GrantInv, GrantTypes
    <2>2. grants.clobbers \in BOOLEAN
      BY DEF GrantInv, GrantTypes
    <2>3. /\ grants' = [given |-> grants'.given, clobbers |-> grants'.clobbers,
                        asks |-> grants'.asks, pickups |-> grants'.pickups]
          /\ grants'.clobbers \in BOOLEAN
      BY <2>2
    <2> QED BY <2>1, <2>3 DEF GrantTypes, Place
  <1>2. ASSUME ~grants'.clobbers
        PROVE  (SaveTypes /\ ButtonsHave /\ (\A d \in Givers : Progress(grant[d]))
                /\ \A i \in grants.given : IsGiven(i))'
    <2>1. ~grants.clobbers
      BY <1>2
    <2>2. Gains(taken) /\ SaveTypes' /\ ButtonsHave'
      BY <2>1 DEF Gains
    <2>3. ASSUME NEW d \in Givers PROVE Progress(grant[d])'
      <3>1. PICK other, after : other = grant[d] /\ after = Off(other, taken)
        OBVIOUS
      <3>2. other = Place(other) /\ Progress(other)
        BY <2>1, <3>1 DEF GrantInv, GrantTypes
      <3>3. Progress(after)'
        BY <2>2, <3>1, <3>2, OthersProgress
      <3> QED BY <3>1, <3>3 DEF Progress, OnItsButton, IsThere, HasFlag
    <2>4. ASSUME NEW i \in grants'.given PROVE IsGiven(i)'
      <3>1. PICK before \in grants.given : i = Off(before, taken)
        BY <2>1, <2>4
      <3>2. IsGiven(before)
        BY <2>1 DEF GrantInv
      <3> QED BY <2>2, <3>1, <3>2, StillGiven
    <2> QED BY <2>2, <2>3, <2>4
  <1> QED BY <1>1, <1>2 DEF GrantInv

\* The player picks an item up: it has its flag and is there, as if it were given.
LEMMA PicksUpKeeps == ASSUME GrantInv, NEW item \in Items, PicksUp(item) PROVE GrantInv'
  <1>1. ASSUME ~grants.clobbers PROVE Gains(None) /\ ButtonsHave'
    <2>1. SaveTypes /\ ButtonsHave
      BY <1>1 DEF GrantInv
    <2>2. save' = [got |-> [save.got EXCEPT ![item] = TRUE], items |-> [save.items EXCEPT ![item] = TRUE],
                   select |-> save.select, count |-> save.count, maximum |-> save.maximum]
      BY <2>1 DEF PicksUp, SaveTypes
    <2>3. SaveTypes'
      BY <2>1, <2>2 DEF SaveTypes
    <2> QED BY <2>1, <2>2, <2>3 DEF SaveTypes, Gains, ButtonsHave
  <1>2. ASSUME NEW g, g = Place(g) \/ g = [item |-> g.item, button |-> g.button] PROVE Off(g, None) = g
    <2>1. CASE g.button = None /\ g = Place(g)
      BY <2>1 DEF Off, Place
    <2>2. CASE g.button = None /\ g = [item |-> g.item, button |-> g.button]
      BY <2>2 DEF Off
    <2>3. CASE g.button # None
      BY <2>3 DEF Off
    <2> QED BY <1>2, <2>1, <2>2, <2>3
  <1>3. DOMAIN grant' = Givers /\ \A d \in Givers : grant'[d] = Off(grant[d], None)
    BY <1>2 DEF PicksUp, GrantInv, GrantTypes
  <1>4. grants' = [given |-> grants.given, clobbers |-> grants.clobbers, asks |-> grants.asks,
                   pickups |-> grants.pickups + 1]
    BY DEF PicksUp, GrantInv, GrantTypes
  <1>5. ~grants.clobbers => \A g \in grants.given : g = Off(g, None)
    BY <1>2 DEF GrantInv, IsGiven
  <1> QED BY <1>1, <1>3, <1>4, <1>5, TitleChanges

\* The player puts an item on a button, which is no longer a grant's.
LEMMA PutsOnButtonKeeps ==
  ASSUME GrantInv, NEW item \in Items, NEW button \in GrantButtons, PutsOnButton(item, button)
  PROVE  GrantInv'
  <1>1. ASSUME ~grants.clobbers PROVE Gains(button) /\ ButtonsHave'
    <2>1. SaveTypes /\ ButtonsHave /\ save.items[item]
      BY <1>1 DEF GrantInv, PutsOnButton
    <2>2. save' = [got |-> save.got, items |-> save.items, select |-> [save.select EXCEPT ![button] = item],
                   count |-> save.count, maximum |-> save.maximum]
      BY <2>1 DEF PutsOnButton, SaveTypes
    <2>3. SaveTypes'
      BY <2>1, <2>2 DEF SaveTypes
    <2> QED BY <2>1, <2>2, <2>3 DEF SaveTypes, Gains, ButtonsHave
  <1>2. DOMAIN grant' = Givers /\ \A d \in Givers : grant'[d] = Off(grant[d], button)
    BY DEF PutsOnButton
  <1>3. grants' = [given |-> {Off(g, button) : g \in grants.given}, clobbers |-> grants.clobbers,
                   asks |-> grants.asks, pickups |-> grants.pickups + 1]
    BY DEF PutsOnButton, GrantInv, GrantTypes
  <1> QED BY <1>1, <1>2, <1>3, TitleChanges

\* The steps of the grants, and the title's between them, keep what is written in order.
LEMMA GrantKeeps == GrantInv /\ [GrantNext]_grantVars => GrantInv'
  <1> SUFFICES ASSUME GrantInv, [GrantNext]_grantVars PROVE GrantInv'
    OBVIOUS
  <1>1. CASE UNCHANGED grantVars
    <2>1. save' = save /\ grant' = grant /\ grants' = grants
      BY <1>1 DEF grantVars
    <2> QED BY <2>1 DEF GrantInv, GrantTypes, Place, SaveTypes, ButtonsHave, Progress, IsGiven, OnItsButton, IsThere,
                    HasFlag
  <1>2. CASE GrantNext
    BY <1>2, PostItemKeeps, ReadsWordKeeps, WritesWordKeeps, GrantFailsKeeps, PicksUpKeeps,
       PutsOnButtonKeeps DEF GrantNext
  <1> QED BY <1>1, <1>2

-----------------------------------------------------------------------------
(* The screen's Display, sent to the block.                                 *)

\* The block is written from its first word on, and nothing is sent there before its last.
AllWords == {Payload[i] : i \in 1..29}
BlockIsWritten ==
  /\ choice = [block |-> choice.block, words |-> choice.words, sends |-> choice.sends,
               refusal |-> choice.refusal, links |-> choice.links, writing |-> choice.writing]
  /\ choice.sends \in BOOLEAN
  /\ choice.words \in Seq(AllWords) /\ Len(choice.words) <= 29
  /\ \A i \in 1..Len(choice.words) : choice.words[i] = Payload[i]
  /\ choice.sends => Len(choice.words) = 29

BranchWord == [op |-> "branchIfNotReady", by |-> ToNotReady]

\* A call in the block, before one of its words.
Before(word, r0, r3, r24, r28, link, equal, saved, savedLink, open, chose, state) ==
  [at |-> "block", word |-> word,
   regs |-> [r0 |-> r0, r3 |-> r3, r24 |-> r24, r28 |-> r28, link |-> link, equal |-> equal],
   saved |-> saved, savedLink |-> savedLink, open |-> open, chose |-> chose, state |-> state]

\* What the registers and the frame hold before each word of the block.
Known(word, r0, r3, r24, r28, link, saved, savedLink, open, chose, state) ==
  /\ word >= 1 => saved = <<"callers", "callers">>
  /\ word \in {2, 21, 22, 26} => r0 = "callers"
  /\ word >= 3 => savedLink = "callers"
  /\ r24 = IF word \in 11..19 THEN "pro" ELSE "callers"
  /\ r28 = IF word \in (4..19) \cup (24..27) THEN "screen" ELSE "callers"
  /\ word \in (0..7) \cup (13..18) \cup (25..28) => r3 = "screen"
  /\ link = IF word \in (8..21) \cup (24..26) THEN "block" ELSE "callers"
  /\ word \in 12..23 => chose = <<"screen", "pro">>
  /\ word \notin 12..23 => chose = "none"
  /\ word \in 19..23 => state = "screen"
  /\ word # 23 => open = TRUE
  /\ word = 23 => open = FALSE

\* A call in the block, before the word it has come to.
Within ==
  LET d == display
      regs == d.regs
  IN /\ d.word \in 0..28
     /\ d = Before(d.word, regs.r0, regs.r3, regs.r24, regs.r28, regs.link, regs.equal,
                   d.saved, d.savedLink, d.open, d.chose, d.state)
     /\ Known(d.word, regs.r0, regs.r3, regs.r24, regs.r28, regs.link, d.saved, d.savedLink,
              d.open, d.chose, d.state)

ChoiceInv ==
  /\ BlockIsWritten /\ DisplayIsWhole
  /\ display.at = "block" => choice.sends /\ Within

\* The block's last word is its twenty-ninth.
LEMMA BlockLength == BlockWords = 29
  BY DEF BlockWords, Payload

\* No call of Display, and no block, at first.
LEMMA ChoiceBegins == ChoiceInit => ChoiceInv
  <1> SUFFICES ASSUME ChoiceInit PROVE ChoiceInv
    OBVIOUS
  <1>1. choice = [block |-> 0, words |-> <<>>, sends |-> FALSE, refusal |-> "none", links |-> 0,
                  writing |-> FALSE]
    BY DEF ChoiceInit
  <1>2. BlockIsWritten
    BY <1>1 DEF BlockIsWritten
  <1>3. display.at = "none"
    BY DEF ChoiceInit, NoCall
  <1> QED BY <1>2, <1>3 DEF ChoiceInv, DisplayIsWhole

\* A link of the title changes no word of the block.
LEMMA OnLinkedKeeps ==
  ASSUME ChoiceInv, NEW room \in BOOLEAN, NEW reaches \in BOOLEAN, OnLinked(room, reaches)
  PROVE  ChoiceInv'
  <1>1. /\ choice'.words = choice.words /\ choice'.sends = choice.sends
        /\ choice' = [block |-> choice'.block, words |-> choice'.words, sends |-> choice'.sends,
                      refusal |-> choice'.refusal, links |-> choice'.links, writing |-> choice'.writing]
    BY DEF OnLinked, ChoiceInv, BlockIsWritten
  <1>2. display' = display
    BY DEF OnLinked
  <1>3. BlockIsWritten'
    BY <1>1 DEF ChoiceInv, BlockIsWritten
  <1> QED BY <1>1, <1>2, <1>3 DEF ChoiceInv, DisplayIsWhole, Within

\* The block is written a word at a time, while no call is sent there.
LEMMA WritesWordOfKeeps ==
  ASSUME ChoiceInv, NEW taken \in BOOLEAN, WritesWordOf(taken)
  PROVE  ChoiceInv'
  <1>1. Len(choice.words) < 29 /\ ~choice.sends /\ display' = display
    <2>1. choice.sends => ~(Len(choice.words) < 29)
      <3>1. choice.sends => Len(choice.words) = 29
        BY DEF ChoiceInv, BlockIsWritten
      <3>2. ~(29 < 29)
        OBVIOUS
      <3> QED BY <3>1, <3>2, Zenon
    <2>2. Len(choice.words) < 29 /\ display' = display
      BY BlockLength DEF WritesWordOf
    <2> QED BY <2>1, <2>2
  <1> DEFINE more == Append(choice.words, Payload[Len(choice.words) + 1])
  <1>2. CASE taken
    <2>1. choice' = [block |-> choice.block, words |-> more, sends |-> choice.sends,
                     refusal |-> choice.refusal, links |-> choice.links, writing |-> choice.writing]
      BY <1>2 DEF WritesWordOf, ChoiceInv, BlockIsWritten
    <2>2. choice.words \in Seq(AllWords) /\ Len(choice.words) \in Nat
      BY DEF ChoiceInv, BlockIsWritten
    <2>3. Payload[Len(choice.words) + 1] \in AllWords
      <3>1. \A n \in Nat : n < 29 => n + 1 \in 1..29
        OBVIOUS
      <3>2. Len(choice.words) + 1 \in 1..29
        BY <1>1, <2>2, <3>1, Zenon
      <3> QED BY <3>2 DEF AllWords
    <2>4. /\ more \in Seq(AllWords) /\ Len(more) = Len(choice.words) + 1
          /\ \A i \in 1..Len(choice.words) : more[i] = choice.words[i]
          /\ more[Len(choice.words) + 1] = Payload[Len(choice.words) + 1]
      BY <2>2, <2>3, AppendProperties
    <2>5. \A i \in 1..Len(choice.words) : more[i] = Payload[i]
      BY <2>4 DEF ChoiceInv, BlockIsWritten
    <2> HIDE DEF more
    <2>6. \A i \in 1..Len(more) : more[i] = Payload[i]
      BY <2>2, <2>4, <2>5
    <2>7. BlockIsWritten'
      <3>1. /\ choice'.words = more /\ choice'.sends = choice.sends
            /\ choice' = [block |-> choice'.block, words |-> choice'.words, sends |-> choice'.sends,
                          refusal |-> choice'.refusal, links |-> choice'.links,
                          writing |-> choice'.writing]
        BY <2>1
      <3>2. Len(more) <= 29
        BY <1>1, <2>2, <2>4
      <3>3. choice.sends = FALSE
        BY <1>1 DEF ChoiceInv, BlockIsWritten
      <3> QED BY <2>4, <2>6, <3>1, <3>2, <3>3 DEF BlockIsWritten
    <2> QED BY <1>1, <2>7 DEF ChoiceInv, DisplayIsWhole
  <1>3. CASE ~taken
    <2>1. choice' = [choice EXCEPT !.writing = FALSE, !.refusal = "word"]
      BY <1>3 DEF WritesWordOf
    <2>2. BlockIsWritten'
      BY <2>1 DEF ChoiceInv, BlockIsWritten
    <2> QED BY <1>1, <2>2 DEF ChoiceInv, DisplayIsWhole
  <1> QED BY <1>2, <1>3

\* Calls are sent to the block once it is whole.
LEMMA RegistersDisplayKeeps == ChoiceInv /\ RegistersDisplay => ChoiceInv'
  <1> SUFFICES ASSUME ChoiceInv, RegistersDisplay PROVE ChoiceInv'
    OBVIOUS
  <1>1. Len(choice.words) = 29 /\ display' = display
        /\ choice' = [choice EXCEPT !.writing = FALSE, !.sends = TRUE]
    BY BlockLength DEF RegistersDisplay
  <1>2. BlockIsWritten' /\ choice'.sends
    BY <1>1 DEF ChoiceInv, BlockIsWritten
  <1> QED BY <1>1, <1>2 DEF ChoiceInv, DisplayIsWhole, Within

\* The call at one of its words, with what the words before it left there.
LEMMA Enters ==
  ASSUME NEW word \in 0..28, NEW r0, NEW r3, NEW r24, NEW r28, NEW link, NEW equal,
         NEW saved, NEW savedLink, NEW open, NEW chose, NEW state,
         display' = Before(word, r0, r3, r24, r28, link, equal, saved, savedLink, open, chose, state),
         Known(word, r0, r3, r24, r28, link, saved, savedLink, open, chose, state)
  PROVE  display'.at = "block" /\ Within'
  <1>1. /\ display'.at = "block" /\ display'.word = word
        /\ display'.regs.r0 = r0 /\ display'.regs.r3 = r3 /\ display'.regs.r24 = r24
        /\ display'.regs.r28 = r28 /\ display'.regs.link = link /\ display'.regs.equal = equal
        /\ display'.saved = saved /\ display'.savedLink = savedLink /\ display'.open = open
        /\ display'.chose = chose /\ display'.state = state
    BY DEF Before
  <1> QED BY <1>1 DEF Within

\* A call goes to the block from its first word, or on to the body as it was entered.
LEMMA CallDisplayKeeps == ChoiceInv /\ CallDisplay => ChoiceInv'
  <1> SUFFICES ASSUME ChoiceInv, CallDisplay PROVE ChoiceInv'
    OBVIOUS
  <1> DEFINE at == IF choice.sends THEN "block" ELSE "body"
  <1>1. choice' = choice
    BY DEF CallDisplay
  <1>2. display' = [at |-> at, word |-> 0, regs |-> AsEntered, saved |-> "none", savedLink |-> "none",
                    open |-> TRUE, chose |-> "none", state |-> "none"]
    BY DEF CallDisplay, NoCall
  <1>3. BlockIsWritten'
    BY <1>1 DEF ChoiceInv, BlockIsWritten
  <1>4. DisplayIsWhole'
    BY <1>2 DEF DisplayIsWhole, AsEntered
  <1>5. CASE choice.sends
    <2>1. display' = Before(0, "any", "screen", "callers", "callers", "callers", FALSE, "none", "none",
                            TRUE, "none", "none")
      <3>1. at = "block"
        BY <1>5
      <3> HIDE DEF at
      <3> QED BY <1>2, <3>1 DEF Before, AsEntered
    <2>2. /\ 0 \in 0..28
          /\ Known(0, "any", "screen", "callers", "callers", "callers", "none", "none", TRUE, "none", "none")
      BY DEF Known
    <2>3. Within'
      BY <2>1, <2>2, Enters, Zenon
    <2> QED BY <1>1, <1>3, <1>4, <1>5, <2>3 DEF ChoiceInv
  <1>6. CASE ~choice.sends
    <2>1. display'.at = "body"
      BY <1>2, <1>6
    <2> QED BY <1>3, <1>4, <2>1 DEF ChoiceInv
  <1> QED BY <1>5, <1>6

\* What the block's words are, by their number.
LEMMA WordsAre ==
  /\ Payload[1] = Op("saveRegisters")
  /\ Payload[2] = Op("readLink")
  /\ Payload[3] = Op("saveLink")
  /\ Payload[4] = Op("keepScreen")
  /\ Payload[5] = Op("loadCallee")
  /\ Payload[6] = Op("loadCallee")
  /\ Payload[7] = Op("toCounter")
  /\ Payload[8] = Op("callReady")
  /\ Payload[9] = Op("compare")
  /\ Payload[10] = BranchWord
  /\ Payload[11] = Op("loadPro")
  /\ Payload[12] = Op("choose")
  /\ Payload[13] = Op("stateMachine")
  /\ Payload[14] = Op("loadState")
  /\ Payload[15] = Op("loadState")
  /\ Payload[16] = Op("loadCallee")
  /\ Payload[17] = Op("loadCallee")
  /\ Payload[18] = Op("toCounter")
  /\ Payload[19] = Op("callChangeState")
  /\ Payload[20] = Op("restoreRegisters")
  /\ Payload[21] = Op("loadLink")
  /\ Payload[22] = Op("toLink")
  /\ Payload[23] = Op("closeFrame")
  /\ Payload[24] = Op("return")
  /\ Payload[25] = Op("restoreScreen")
  /\ Payload[26] = Op("loadLink")
  /\ Payload[27] = Op("toLink")
  /\ Payload[28] = Op("restoreRegisters")
  /\ Payload[29] = Op("toBody")
  BY DEF Payload, BranchWord

\* A word of the block runs on what the words before it left.
LEMMA ExecutesKeeps ==
  ASSUME ChoiceInv, NEW ready \in BOOLEAN, Executes(ready)
  PROVE  ChoiceInv'
  <1> DEFINE word == display.word
  <1>1. /\ display.at = "block" /\ choice' = choice /\ Within /\ word \in 0..28
        /\ Len(choice.words) = 29 /\ \A i \in 1..29 : choice.words[i] = Payload[i]
    BY DEF Executes, ChoiceInv, BlockIsWritten, Within
  <1>2. display' = Runs(Payload[word + 1], ready)
    <2>1. choice.words \in Seq(AllWords)
      BY DEF ChoiceInv, BlockIsWritten
    <2>2. DOMAIN choice.words = 1..29
      BY <1>1, <2>1, LenProperties, Zenon
    <2>3. word + 1 \in 1..29
      BY <1>1
    <2> HIDE DEF word
    <2> QED BY <1>1, <2>2, <2>3 DEF Executes, word
  <1>3. BlockIsWritten' /\ choice'.sends
    BY <1>1 DEF ChoiceInv, BlockIsWritten
  <1>4. ASSUME display'.at = "block", Within' PROVE ChoiceInv'
    BY <1>3, <1>4 DEF ChoiceInv, DisplayIsWhole
  <1>5. PICK r0, r3, r24, r28, link, equal, saved, savedLink, open, chose, state :
          display = Before(word, r0, r3, r24, r28, link, equal, saved, savedLink, open, chose, state)
    <2> WITNESS display.regs.r0, display.regs.r3, display.regs.r24, display.regs.r28,
                display.regs.link, display.regs.equal, display.saved, display.savedLink,
                display.open, display.chose, display.state
    <2> QED BY <1>1 DEF Within
  <1>6. Known(word, r0, r3, r24, r28, link, saved, savedLink, open, chose, state)
    BY <1>5, <1>1 DEF Within, Before
  <1> HIDE DEF word
  <1>7. CASE word = 0
    <2>1. display' = Runs(Op("saveRegisters"), ready)
      BY <1>2, <1>7, WordsAre
    <2>2. display' = Before(word + 1, r0, r3, r24, r28, link, equal, <<r24, r28>>, savedLink,
                 open, chose, state)
      BY <1>5, <2>1 DEF Runs, Op, Before
    <2>3. word + 1 \in 0..28 /\ Known(word + 1, r0, r3, r24, r28, link, <<r24, r28>>, savedLink,
                 open, chose, state)
      BY <1>6, <1>7 DEF Known
    <2> QED BY <1>4, <2>2, <2>3, Enters
  <1>8. CASE word = 1
    <2>1. display' = Runs(Op("readLink"), ready)
      BY <1>2, <1>8, WordsAre
    <2>2. display' = Before(word + 1, link, r3, r24, r28, link, equal, saved, savedLink, open,
                 chose, state)
      BY <1>5, <2>1 DEF Runs, Op, Before
    <2>3. word + 1 \in 0..28 /\ Known(word + 1, link, r3, r24, r28, link, saved, savedLink,
                 open, chose, state)
      BY <1>6, <1>8 DEF Known
    <2> QED BY <1>4, <2>2, <2>3, Enters
  <1>9. CASE word = 2
    <2>1. display' = Runs(Op("saveLink"), ready)
      BY <1>2, <1>9, WordsAre
    <2>2. display' = Before(word + 1, r0, r3, r24, r28, link, equal, saved, r0, open, chose,
                 state)
      BY <1>5, <2>1 DEF Runs, Op, Before
    <2>3. word + 1 \in 0..28 /\ Known(word + 1, r0, r3, r24, r28, link, saved, r0, open, chose,
                 state)
      BY <1>6, <1>9 DEF Known
    <2> QED BY <1>4, <2>2, <2>3, Enters
  <1>10. CASE word = 3
    <2>1. display' = Runs(Op("keepScreen"), ready)
      BY <1>2, <1>10, WordsAre
    <2>2. display' = Before(word + 1, r0, r3, r24, r3, link, equal, saved, savedLink, open,
                 chose, state)
      BY <1>5, <2>1 DEF Runs, Op, Before
    <2>3. word + 1 \in 0..28 /\ Known(word + 1, r0, r3, r24, r3, link, saved, savedLink, open,
                 chose, state)
      BY <1>6, <1>10 DEF Known
    <2> QED BY <1>4, <2>2, <2>3, Enters
  <1>11. CASE word = 4
    <2>1. display' = Runs(Op("loadCallee"), ready)
      BY <1>2, <1>11, WordsAre
    <2>2. display' = Before(word + 1, r0, r3, r24, r28, link, equal, saved, savedLink, open,
                 chose, state)
      BY <1>5, <2>1 DEF Runs, Op, Before
    <2>3. word + 1 \in 0..28 /\ Known(word + 1, r0, r3, r24, r28, link, saved, savedLink, open,
                 chose, state)
      BY <1>6, <1>11 DEF Known
    <2> QED BY <1>4, <2>2, <2>3, Enters
  <1>12. CASE word = 5
    <2>1. display' = Runs(Op("loadCallee"), ready)
      BY <1>2, <1>12, WordsAre
    <2>2. display' = Before(word + 1, r0, r3, r24, r28, link, equal, saved, savedLink, open,
                 chose, state)
      BY <1>5, <2>1 DEF Runs, Op, Before
    <2>3. word + 1 \in 0..28 /\ Known(word + 1, r0, r3, r24, r28, link, saved, savedLink, open,
                 chose, state)
      BY <1>6, <1>12 DEF Known
    <2> QED BY <1>4, <2>2, <2>3, Enters
  <1>13. CASE word = 6
    <2>1. display' = Runs(Op("toCounter"), ready)
      BY <1>2, <1>13, WordsAre
    <2>2. display' = Before(word + 1, r0, r3, r24, r28, link, equal, saved, savedLink, open,
                 chose, state)
      BY <1>5, <2>1 DEF Runs, Op, Before
    <2>3. word + 1 \in 0..28 /\ Known(word + 1, r0, r3, r24, r28, link, saved, savedLink, open,
                 chose, state)
      BY <1>6, <1>13 DEF Known
    <2> QED BY <1>4, <2>2, <2>3, Enters
  <1>14. CASE word = 7
    <2>1. display' = Runs(Op("callReady"), ready)
      BY <1>2, <1>14, WordsAre
    <2>2. display' = Before(word + 1, "any", IF ready THEN "ready" ELSE "zero", r24, r28,
                 "block", equal, saved, savedLink, open, chose, state)
      BY <1>5, <2>1 DEF Runs, Op, Before
    <2>3. word + 1 \in 0..28 /\ Known(word + 1, "any", IF ready THEN "ready" ELSE "zero", r24,
                 r28, "block", saved, savedLink, open, chose, state)
      BY <1>6, <1>14 DEF Known
    <2> QED BY <1>4, <2>2, <2>3, Enters
  <1>15. CASE word = 8
    <2>1. display' = Runs(Op("compare"), ready)
      BY <1>2, <1>15, WordsAre
    <2>2. display' = Before(word + 1, r0, r3, r24, r28, link, (r3 = "zero"), saved, savedLink,
                 open, chose, state)
      BY <1>5, <2>1 DEF Runs, Op, Before
    <2>3. word + 1 \in 0..28 /\ Known(word + 1, r0, r3, r24, r28, link, saved, savedLink, open,
                 chose, state)
      BY <1>6, <1>15 DEF Known
    <2> QED BY <1>4, <2>2, <2>3, Enters
  <1>16. CASE word = 9
    <2>1. display' = Runs(BranchWord, ready)
      BY <1>2, <1>16, WordsAre
    <2>2. display' = [display EXCEPT !.word = IF equal THEN 24 ELSE 10]
      <3>1. display' = [display EXCEPT !.word = display.word + (IF display.regs.equal THEN ToNotReady
                                                                                      ELSE 1)]
        BY <2>1 DEF Runs, BranchWord
      <3>2. display.word = 9 /\ display.regs.equal = equal
        BY <1>5, <1>16 DEF Before
      <3>3. ToNotReady = 15
        BY DEF ToNotReady, NotReadyWord, ReadyBranchWord
      <3> QED BY <3>1, <3>2, <3>3
    <2>3. display' = Before(IF equal THEN 24 ELSE 10, r0, r3, r24, r28, link, equal, saved,
                            savedLink, open, chose, state)
      BY <1>5, <2>2 DEF Before
    <2>4. Known(IF equal THEN 24 ELSE 10, r0, r3, r24, r28, link, saved, savedLink, open, chose, state)
      BY <1>6, <1>16 DEF Known
    <2> QED BY <1>4, <2>3, <2>4, Enters
  <1>17. CASE word = 10
    <2>1. display' = Runs(Op("loadPro"), ready)
      BY <1>2, <1>17, WordsAre
    <2>2. display' = Before(word + 1, r0, r3, "pro", r28, link, equal, saved, savedLink, open,
                 chose, state)
      BY <1>5, <2>1 DEF Runs, Op, Before
    <2>3. word + 1 \in 0..28 /\ Known(word + 1, r0, r3, "pro", r28, link, saved, savedLink,
                 open, chose, state)
      BY <1>6, <1>17 DEF Known
    <2> QED BY <1>4, <2>2, <2>3, Enters
  <1>18. CASE word = 11
    <2>1. display' = Runs(Op("choose"), ready)
      BY <1>2, <1>18, WordsAre
    <2>2. display' = Before(word + 1, r0, r3, r24, r28, link, equal, saved, savedLink, open,
                 <<r28, r24>>, state)
      BY <1>5, <2>1 DEF Runs, Op, Before
    <2>3. word + 1 \in 0..28 /\ Known(word + 1, r0, r3, r24, r28, link, saved, savedLink, open,
                 <<r28, r24>>, state)
      BY <1>6, <1>18 DEF Known
    <2> QED BY <1>4, <2>2, <2>3, Enters
  <1>19. CASE word = 12
    <2>1. display' = Runs(Op("stateMachine"), ready)
      BY <1>2, <1>19, WordsAre
    <2>2. display' = Before(word + 1, r0, r28, r24, r28, link, equal, saved, savedLink, open,
                 chose, state)
      BY <1>5, <2>1 DEF Runs, Op, Before
    <2>3. word + 1 \in 0..28 /\ Known(word + 1, r0, r28, r24, r28, link, saved, savedLink, open,
                 chose, state)
      BY <1>6, <1>19 DEF Known
    <2> QED BY <1>4, <2>2, <2>3, Enters
  <1>20. CASE word = 13
    <2>1. display' = Runs(Op("loadState"), ready)
      BY <1>2, <1>20, WordsAre
    <2>2. display' = Before(word + 1, r0, r3, r24, r28, link, equal, saved, savedLink, open,
                 chose, state)
      BY <1>5, <2>1 DEF Runs, Op, Before
    <2>3. word + 1 \in 0..28 /\ Known(word + 1, r0, r3, r24, r28, link, saved, savedLink, open,
                 chose, state)
      BY <1>6, <1>20 DEF Known
    <2> QED BY <1>4, <2>2, <2>3, Enters
  <1>21. CASE word = 14
    <2>1. display' = Runs(Op("loadState"), ready)
      BY <1>2, <1>21, WordsAre
    <2>2. display' = Before(word + 1, r0, r3, r24, r28, link, equal, saved, savedLink, open,
                 chose, state)
      BY <1>5, <2>1 DEF Runs, Op, Before
    <2>3. word + 1 \in 0..28 /\ Known(word + 1, r0, r3, r24, r28, link, saved, savedLink, open,
                 chose, state)
      BY <1>6, <1>21 DEF Known
    <2> QED BY <1>4, <2>2, <2>3, Enters
  <1>22. CASE word = 15
    <2>1. display' = Runs(Op("loadCallee"), ready)
      BY <1>2, <1>22, WordsAre
    <2>2. display' = Before(word + 1, r0, r3, r24, r28, link, equal, saved, savedLink, open,
                 chose, state)
      BY <1>5, <2>1 DEF Runs, Op, Before
    <2>3. word + 1 \in 0..28 /\ Known(word + 1, r0, r3, r24, r28, link, saved, savedLink, open,
                 chose, state)
      BY <1>6, <1>22 DEF Known
    <2> QED BY <1>4, <2>2, <2>3, Enters
  <1>23. CASE word = 16
    <2>1. display' = Runs(Op("loadCallee"), ready)
      BY <1>2, <1>23, WordsAre
    <2>2. display' = Before(word + 1, r0, r3, r24, r28, link, equal, saved, savedLink, open,
                 chose, state)
      BY <1>5, <2>1 DEF Runs, Op, Before
    <2>3. word + 1 \in 0..28 /\ Known(word + 1, r0, r3, r24, r28, link, saved, savedLink, open,
                 chose, state)
      BY <1>6, <1>23 DEF Known
    <2> QED BY <1>4, <2>2, <2>3, Enters
  <1>24. CASE word = 17
    <2>1. display' = Runs(Op("toCounter"), ready)
      BY <1>2, <1>24, WordsAre
    <2>2. display' = Before(word + 1, r0, r3, r24, r28, link, equal, saved, savedLink, open,
                 chose, state)
      BY <1>5, <2>1 DEF Runs, Op, Before
    <2>3. word + 1 \in 0..28 /\ Known(word + 1, r0, r3, r24, r28, link, saved, savedLink, open,
                 chose, state)
      BY <1>6, <1>24 DEF Known
    <2> QED BY <1>4, <2>2, <2>3, Enters
  <1>25. CASE word = 18
    <2>1. display' = Runs(Op("callChangeState"), ready)
      BY <1>2, <1>25, WordsAre
    <2>2. display' = Before(word + 1, "any", "any", r24, r28, "block", equal, saved, savedLink,
                 open, chose, r3)
      BY <1>5, <2>1 DEF Runs, Op, Before
    <2>3. word + 1 \in 0..28 /\ Known(word + 1, "any", "any", r24, r28, "block", saved,
                 savedLink, open, chose, r3)
      BY <1>6, <1>25 DEF Known
    <2> QED BY <1>4, <2>2, <2>3, Enters
  <1>26. CASE word = 19
    <2>1. display' = Runs(Op("restoreRegisters"), ready)
      BY <1>2, <1>26, WordsAre
    <2>2. display' = Before(word + 1, r0, r3, saved[1], saved[2], link, equal, saved, savedLink,
                 open, chose, state)
      BY <1>5, <2>1 DEF Runs, Op, Before
    <2>3. word + 1 \in 0..28 /\ Known(word + 1, r0, r3, saved[1], saved[2], link, saved,
                 savedLink, open, chose, state)
      BY <1>6, <1>26 DEF Known
    <2> QED BY <1>4, <2>2, <2>3, Enters
  <1>27. CASE word = 20
    <2>1. display' = Runs(Op("loadLink"), ready)
      BY <1>2, <1>27, WordsAre
    <2>2. display' = Before(word + 1, savedLink, r3, r24, r28, link, equal, saved, savedLink,
                 open, chose, state)
      BY <1>5, <2>1 DEF Runs, Op, Before
    <2>3. word + 1 \in 0..28 /\ Known(word + 1, savedLink, r3, r24, r28, link, saved, savedLink,
                 open, chose, state)
      BY <1>6, <1>27 DEF Known
    <2> QED BY <1>4, <2>2, <2>3, Enters
  <1>28. CASE word = 21
    <2>1. display' = Runs(Op("toLink"), ready)
      BY <1>2, <1>28, WordsAre
    <2>2. display' = Before(word + 1, r0, r3, r24, r28, r0, equal, saved, savedLink, open,
                 chose, state)
      BY <1>5, <2>1 DEF Runs, Op, Before
    <2>3. word + 1 \in 0..28 /\ Known(word + 1, r0, r3, r24, r28, r0, saved, savedLink, open,
                 chose, state)
      BY <1>6, <1>28 DEF Known
    <2> QED BY <1>4, <2>2, <2>3, Enters
  <1>29. CASE word = 22
    <2>1. display' = Runs(Op("closeFrame"), ready)
      BY <1>2, <1>29, WordsAre
    <2>2. display' = Before(word + 1, r0, r3, r24, r28, link, equal, saved, savedLink, FALSE,
                 chose, state)
      BY <1>5, <2>1 DEF Runs, Op, Before
    <2>3. word + 1 \in 0..28 /\ Known(word + 1, r0, r3, r24, r28, link, saved, savedLink, FALSE,
                 chose, state)
      BY <1>6, <1>29 DEF Known
    <2> QED BY <1>4, <2>2, <2>3, Enters
  <1>30. CASE word = 23
    <2>1. display' = Runs(Op("return"), ready)
      BY <1>2, <1>30, WordsAre
    <2>2. display' = [display EXCEPT !.at = "returned"]
      BY <2>1 DEF Runs, Op
    <2>3. /\ open = FALSE /\ chose = <<"screen", "pro">> /\ state = "screen"
          /\ r24 = "callers" /\ r28 = "callers" /\ link = "callers"
      BY <1>6, <1>30 DEF Known
    <2>4. DisplayIsWhole' /\ display'.at # "block"
      BY <1>5, <2>2, <2>3 DEF Before, DisplayIsWhole
    <2> QED BY <1>3, <2>4 DEF ChoiceInv
  <1>31. CASE word = 24
    <2>1. display' = Runs(Op("restoreScreen"), ready)
      BY <1>2, <1>31, WordsAre
    <2>2. display' = Before(word + 1, r0, r28, r24, r28, link, equal, saved, savedLink, open,
                 chose, state)
      BY <1>5, <2>1 DEF Runs, Op, Before
    <2>3. word + 1 \in 0..28 /\ Known(word + 1, r0, r28, r24, r28, link, saved, savedLink, open,
                 chose, state)
      BY <1>6, <1>31 DEF Known
    <2> QED BY <1>4, <2>2, <2>3, Enters
  <1>32. CASE word = 25
    <2>1. display' = Runs(Op("loadLink"), ready)
      BY <1>2, <1>32, WordsAre
    <2>2. display' = Before(word + 1, savedLink, r3, r24, r28, link, equal, saved, savedLink,
                 open, chose, state)
      BY <1>5, <2>1 DEF Runs, Op, Before
    <2>3. word + 1 \in 0..28 /\ Known(word + 1, savedLink, r3, r24, r28, link, saved, savedLink,
                 open, chose, state)
      BY <1>6, <1>32 DEF Known
    <2> QED BY <1>4, <2>2, <2>3, Enters
  <1>33. CASE word = 26
    <2>1. display' = Runs(Op("toLink"), ready)
      BY <1>2, <1>33, WordsAre
    <2>2. display' = Before(word + 1, r0, r3, r24, r28, r0, equal, saved, savedLink, open,
                 chose, state)
      BY <1>5, <2>1 DEF Runs, Op, Before
    <2>3. word + 1 \in 0..28 /\ Known(word + 1, r0, r3, r24, r28, r0, saved, savedLink, open,
                 chose, state)
      BY <1>6, <1>33 DEF Known
    <2> QED BY <1>4, <2>2, <2>3, Enters
  <1>34. CASE word = 27
    <2>1. display' = Runs(Op("restoreRegisters"), ready)
      BY <1>2, <1>34, WordsAre
    <2>2. display' = Before(word + 1, r0, r3, saved[1], saved[2], link, equal, saved, savedLink,
                 open, chose, state)
      BY <1>5, <2>1 DEF Runs, Op, Before
    <2>3. word + 1 \in 0..28 /\ Known(word + 1, r0, r3, saved[1], saved[2], link, saved,
                 savedLink, open, chose, state)
      BY <1>6, <1>34 DEF Known
    <2> QED BY <1>4, <2>2, <2>3, Enters
  <1>35. CASE word = 28
    <2>1. display' = Runs(Op("toBody"), ready)
      BY <1>2, <1>35, WordsAre
    <2>2. display' = [display EXCEPT !.at = "body"]
      BY <2>1 DEF Runs, Op
    <2>3. /\ open = TRUE /\ chose = "none"
          /\ r3 = "screen" /\ r24 = "callers" /\ r28 = "callers" /\ link = "callers"
      BY <1>6, <1>35 DEF Known
    <2>4. DisplayIsWhole' /\ display'.at # "block"
      BY <1>5, <2>2, <2>3 DEF Before, DisplayIsWhole
    <2> QED BY <1>3, <2>4 DEF ChoiceInv
  <1> QED BY <1>1, <1>7, <1>8, <1>9, <1>10, <1>11, <1>12, <1>13, <1>14, <1>15, <1>16, <1>17,
             <1>18, <1>19, <1>20, <1>21, <1>22, <1>23, <1>24, <1>25, <1>26, <1>27, <1>28,
             <1>29, <1>30, <1>31, <1>32, <1>33, <1>34, <1>35 DEF word

\* Linking the title, writing the block and calling Display keep the block's calls whole.
LEMMA ChoiceKeeps == ChoiceInv /\ [ChoiceNext]_choiceVars => ChoiceInv'
  <1> SUFFICES ASSUME ChoiceInv, [ChoiceNext]_choiceVars PROVE ChoiceInv'
    OBVIOUS
  <1>1. CASE UNCHANGED choiceVars
    BY <1>1 DEF choiceVars, ChoiceInv, BlockIsWritten, DisplayIsWhole, Within
  <1>2. CASE ChoiceNext
    BY <1>2, OnLinkedKeeps, WritesWordOfKeeps, RegistersDisplayKeeps, CallDisplayKeeps,
       ExecutesKeeps DEF ChoiceNext
  <1> QED BY <1>1, <1>2

-----------------------------------------------------------------------------
(* The census of vertex bytes.                                               *)

Shaders == Plain \cup Lit
Drawings == Seq(Shaders \X Bytes)
TallyCounts == [draws : Nat, compared : Nat, changed : Nat]
Tallies(keys, reads) ==
  [counts : [keys -> TallyCounts], frame : [keys -> Seq(reads)], previous : [keys -> Seq(reads)]]

ChangeTypes ==
  /\ changes = [plain |-> changes.plain, lit |-> changes.lit, attributes |-> changes.attributes,
                asked |-> changes.asked, taken |-> changes.taken]
  /\ changes.plain \in Tallies(Plain, Bytes) /\ changes.lit \in Tallies(Lit, Bytes)
  /\ changes.attributes \in Tallies(Pairs, Hashes)
  /\ drawn = [now |-> drawn.now, before |-> drawn.before, frame |-> drawn.frame,
              first |-> drawn.first, whole |-> drawn.whole, all |-> drawn.all,
              counts |-> drawn.counts]
  /\ drawn.now \in Drawings /\ drawn.before \in Drawings
  /\ drawn.frame \in Nat /\ drawn.first \in Nat /\ drawn.first <= drawn.frame
  /\ drawn.counts \in [Shaders -> TallyCounts]

\* A shader's tally has its draws one by one, wherever they are among the frame's.
TalliedIn(drew, tallied, shader) ==
  \E at \in Bijection(DOMAIN tallied, Of(drew, shader)) :
    \A i \in DOMAIN tallied : tallied[i] = drew[at[i]][2]

\* While a census asked for between two frames goes on, its tally has this frame's draws and,
\* from its second frame on, the frame before's.
CensusHasFrames ==
  \A s \in Lit :
    /\ TalliedIn(drawn.now, changes.lit.frame[s], s)
    /\ IF drawn.first = drawn.frame THEN changes.lit.previous[s] = <<>>
       ELSE TalliedIn(drawn.before, changes.lit.previous[s], s)

\* By attribute a tally has the same draws in the same order.
ByAttribute(one, all, a) ==
  DOMAIN one = DOMAIN all /\ \A i \in DOMAIN all : one[i] = all[i][a]

\* Where in a frame is what the frame before did not read.
Fresh(frame, previous) ==
  {i \in DOMAIN frame : ~\E j \in DOMAIN previous : previous[j] = frame[i]}

ChangesInv ==
  /\ ChangeTypes
  /\ \A s \in Plain : /\ TalliedIn(drawn.now, changes.plain.frame[s], s)
                      /\ TalliedIn(drawn.before, changes.plain.previous[s], s)
  /\ drawn.whole /\ InCensus => CensusHasFrames
  /\ \A s \in Lit, a \in Attributes :
       /\ ByAttribute(changes.attributes.frame[<<s, a>>], changes.lit.frame[s], a)
       /\ ByAttribute(changes.attributes.previous[<<s, a>>], changes.lit.previous[s], a)
  /\ ChangesAreCounted

\* A bijection by its values.
LEMMA Bijects ==
  ASSUME NEW S, NEW T, NEW f
  PROVE  f \in Bijection(S, T) <=>
           /\ f \in [S -> T]
           /\ \A a, b \in S : f[a] = f[b] => a = b
           /\ \A t \in T : \E a \in S : f[a] = t
  BY DEF Bijection, Injection, Surjection, IsInjective

\* A sequence has finitely many places.
LEMMA PlacesAreFinite ==
  ASSUME NEW values, NEW seq \in Seq(values)
  PROVE  IsFiniteSet(DOMAIN seq) /\ Cardinality(DOMAIN seq) = Len(seq)
  <1>1. DOMAIN seq = 1 .. Len(seq) /\ Len(seq) \in Nat
    BY LenProperties
  <1>2. \A n \in Nat : IsFiniteSet(1 .. n) /\ Cardinality(1 .. n) = n
    BY FS_Interval
  <1> QED BY <1>1, <1>2

\* What of a tally's frame was read the frame before, counted by the draws themselves.
LEMMA TalliesCount ==
  ASSUME NEW shader, NEW now \in Drawings, NEW before \in Drawings,
         NEW frame \in Seq(Bytes), NEW previous \in Seq(Bytes),
         TalliedIn(now, frame, shader), TalliedIn(before, previous, shader)
  PROVE  /\ Len(frame) = Cardinality(Of(now, shader)) /\ Cardinality(Of(now, shader)) \in Nat
         /\ previous = <<>> <=> Of(before, shader) = {}
         /\ LET fresh == {i \in DOMAIN frame : ~\E j \in DOMAIN previous : previous[j] = frame[i]}
                new == {i \in Of(now, shader) : \A j \in Of(before, shader) : now[i] # before[j]}
            IN Cardinality(fresh) = Cardinality(new) /\ Cardinality(new) \in Nat
  <1> DEFINE fresh == {i \in DOMAIN frame : ~\E j \in DOMAIN previous : previous[j] = frame[i]}
             new == {i \in Of(now, shader) : \A j \in Of(before, shader) : now[i] # before[j]}
  <1>1. PICK at \in Bijection(DOMAIN frame, Of(now, shader)) :
          \A i \in DOMAIN frame : frame[i] = now[at[i]][2]
    BY DEF TalliedIn
  <1>2. PICK was \in Bijection(DOMAIN previous, Of(before, shader)) :
          \A i \in DOMAIN previous : previous[i] = before[was[i]][2]
    BY DEF TalliedIn
  <1>3. /\ DOMAIN frame = 1 .. Len(frame) /\ Len(frame) \in Nat
        /\ DOMAIN previous = 1 .. Len(previous) /\ Len(previous) \in Nat
    BY LenProperties
  <1>4. IsFiniteSet(DOMAIN frame) /\ Cardinality(DOMAIN frame) = Len(frame)
    BY PlacesAreFinite
  <1>5. Cardinality(Of(now, shader)) = Len(frame)
    BY <1>1, <1>4, FS_Bijection DEF ExistsBijection
  <1>6. previous = <<>> <=> Of(before, shader) = {}
    <2>1. previous = <<>> <=> Len(previous) = 0
      BY EmptySeq
    <2>2. Len(previous) = 0 <=> DOMAIN previous = {}
      <3>1. \A n \in Nat : n = 0 <=> 1 .. n = {}
        <4>1. \A n \in Nat : n # 0 => 1 \in 1 .. n
          OBVIOUS
        <4>2. 1 .. 0 = {}
          OBVIOUS
        <4> QED BY <4>1, <4>2
      <3> QED BY <1>3, <3>1
    <2>3. DOMAIN previous = {} <=> Of(before, shader) = {}
      BY <1>2, Bijects
    <2> QED BY <2>1, <2>2, <2>3
  <1>7. \A i \in DOMAIN frame : i \in fresh <=> at[i] \in new
    <2> SUFFICES ASSUME NEW i \in DOMAIN frame PROVE i \in fresh <=> at[i] \in new
      OBVIOUS
    <2>1. at[i] \in Of(now, shader) /\ now[at[i]][1] = shader /\ now[at[i]][2] = frame[i]
      BY <1>1, Bijects DEF Of
    <2>2. at[i] \in DOMAIN now /\ now[at[i]] \in Shaders \X Bytes
      BY <2>1 DEF Of, Drawings
    <2>3. now[at[i]] = <<shader, frame[i]>>
      BY <2>1, <2>2
    <2>4. \A j \in DOMAIN previous : before[was[j]] = <<shader, previous[j]>>
      <3> SUFFICES ASSUME NEW j \in DOMAIN previous PROVE before[was[j]] = <<shader, previous[j]>>
        OBVIOUS
      <3>1. was[j] \in DOMAIN before /\ before[was[j]][1] = shader
            /\ before[was[j]][2] = previous[j]
        BY <1>2, Bijects DEF Of
      <3>2. before[was[j]] \in Shaders \X Bytes
        BY <3>1 DEF Drawings
      <3> QED BY <3>1, <3>2
    <2>5. \A j \in Of(before, shader) : \E k \in DOMAIN previous : was[k] = j
      BY <1>2, Bijects
    <2>6. \A k \in DOMAIN previous : was[k] \in Of(before, shader)
      BY <1>2, Bijects
    <2>7. (\E j \in DOMAIN previous : previous[j] = frame[i]) <=>
            (\E k \in Of(before, shader) : now[at[i]] = before[k])
      <3>1. ASSUME NEW j \in DOMAIN previous, previous[j] = frame[i]
            PROVE  \E k \in Of(before, shader) : now[at[i]] = before[k]
        BY <2>3, <2>4, <2>6, <3>1
      <3>2. ASSUME NEW k \in Of(before, shader), now[at[i]] = before[k]
            PROVE  \E j \in DOMAIN previous : previous[j] = frame[i]
        <4>1. PICK j \in DOMAIN previous : was[j] = k
          BY <2>5
        <4>2. <<shader, frame[i]>> = <<shader, previous[j]>>
          BY <2>3, <2>4, <3>2, <4>1
        <4> QED BY <4>2
      <3> QED BY <3>1, <3>2
    <2> QED BY <2>1, <2>7
  <1>8. IsFiniteSet(fresh) /\ Cardinality(fresh) \in Nat
    BY <1>4, FS_Subset, FS_CardinalityType
  <1>9. ExistsBijection(fresh, new)
    <2> DEFINE f == [i \in fresh |-> at[i]]
    <2>1. f \in [fresh -> new]
      BY <1>7
    <2>2. \A a, b \in fresh : f[a] = f[b] => a = b
      <3>1. \A a, b \in DOMAIN frame : at[a] = at[b] => a = b
        BY <1>1, Bijects
      <3> QED BY <3>1
    <2>3. \A t \in new : \E a \in fresh : f[a] = t
      BY <1>1, <1>7, Bijects
    <2>4. f \in Bijection(fresh, new)
      BY <2>1, <2>2, <2>3, Bijects
    <2> QED BY <2>4 DEF ExistsBijection
  <1>10. Cardinality(new) = Cardinality(fresh)
    BY <1>8, <1>9, FS_Bijection
  <1> QED BY <1>3, <1>5, <1>6, <1>8, <1>10

\* A draw tallied is the last of its shader's, and no other shader's.
LEMMA TalliedMore ==
  ASSUME NEW shader \in Shaders, NEW bytes \in Bytes, NEW drew \in Drawings,
         NEW tallied \in Seq(Bytes), NEW other, TalliedIn(drew, tallied, other)
  PROVE  /\ other = shader => TalliedIn(Append(drew, <<shader, bytes>>), Append(tallied, bytes), other)
         /\ other # shader => TalliedIn(Append(drew, <<shader, bytes>>), tallied, other)
  <1> DEFINE more == Append(drew, <<shader, bytes>>)
             mine == Append(tallied, bytes)
  <1>1. PICK at \in Bijection(DOMAIN tallied, Of(drew, other)) :
          \A i \in DOMAIN tallied : tallied[i] = drew[at[i]][2]
    BY DEF TalliedIn
  <1>2. /\ DOMAIN drew = 1 .. Len(drew) /\ Len(drew) \in Nat
        /\ DOMAIN more = 1 .. Len(drew) + 1
        /\ \A i \in 1 .. Len(drew) : more[i] = drew[i]
        /\ more[Len(drew) + 1] = <<shader, bytes>>
    <2>1. <<shader, bytes>> \in Shaders \X Bytes
      OBVIOUS
    <2> QED BY <2>1, AppendProperties, LenProperties DEF Drawings
  <1>3. /\ DOMAIN tallied = 1 .. Len(tallied) /\ Len(tallied) \in Nat
        /\ DOMAIN mine = 1 .. Len(tallied) + 1
        /\ \A i \in 1 .. Len(tallied) : mine[i] = tallied[i]
        /\ mine[Len(tallied) + 1] = bytes
    BY AppendProperties, LenProperties
  <1>4. /\ \A i \in DOMAIN tallied : at[i] \in Of(drew, other) /\ at[i] \in 1 .. Len(drew)
        /\ \A a, b \in DOMAIN tallied : at[a] = at[b] => a = b
        /\ \A t \in Of(drew, other) : \E a \in DOMAIN tallied : at[a] = t
    <2>1. Of(drew, other) \subseteq 1 .. Len(drew)
      BY <1>2 DEF Of
    <2>2. /\ at \in [DOMAIN tallied -> Of(drew, other)]
          /\ \A a, b \in DOMAIN tallied : at[a] = at[b] => a = b
          /\ \A t \in Of(drew, other) : \E a \in DOMAIN tallied : at[a] = t
      BY <1>1, Bijects
    <2> QED BY <2>1, <2>2
  <1> HIDE DEF more, mine
  <1>5. Of(more, other) = Of(drew, other) \cup (IF other = shader THEN {Len(drew) + 1} ELSE {})
    <2>1. ASSUME NEW i \in DOMAIN more, i # Len(drew) + 1
          PROVE  i \in Of(more, other) <=> i \in Of(drew, other)
      BY <1>2, <2>1 DEF Of
    <2>2. Len(drew) + 1 \in Of(more, other) <=> other = shader
      BY <1>2 DEF Of
    <2>3. Of(more, other) \subseteq DOMAIN more /\ Of(drew, other) \subseteq DOMAIN more
      BY <1>2 DEF Of
    <2>4. Len(drew) + 1 \notin Of(drew, other)
      BY <1>2 DEF Of
    <2> QED BY <2>1, <2>2, <2>3, <2>4
  <1>6. CASE other # shader
    <2>1. at \in Bijection(DOMAIN tallied, Of(more, other))
      BY <1>1, <1>5, <1>6
    <2>2. \A i \in DOMAIN tallied : tallied[i] = more[at[i]][2]
      BY <1>1, <1>2, <1>4
    <2> QED BY <1>6, <2>1, <2>2 DEF TalliedIn, more
  <1>7. CASE other = shader
    <2> DEFINE to == [i \in DOMAIN mine |-> IF i = Len(tallied) + 1 THEN Len(drew) + 1 ELSE at[i]]
    <2>1. to \in [DOMAIN mine -> Of(more, other)]
      BY <1>3, <1>4, <1>5, <1>7
    <2>2. \A a, b \in DOMAIN mine : to[a] = to[b] => a = b
      BY <1>2, <1>3, <1>4
    <2>3. \A t \in Of(more, other) : \E a \in DOMAIN mine : to[a] = t
      <3> SUFFICES ASSUME NEW t \in Of(more, other) PROVE \E a \in DOMAIN mine : to[a] = t
        OBVIOUS
      <3>1. CASE t = Len(drew) + 1
        BY <1>3, <3>1
      <3>2. CASE t # Len(drew) + 1
        <4>1. PICK a \in DOMAIN tallied : at[a] = t
          BY <1>4, <1>5, <1>7, <3>2
        <4>2. a \in DOMAIN mine /\ to[a] = t
          BY <1>3, <4>1
        <4> QED BY <4>2
      <3> QED BY <3>1, <3>2
    <2>4. \A i \in DOMAIN mine : mine[i] = more[to[i]][2]
      BY <1>1, <1>2, <1>3, <1>4
    <2>5. to \in Bijection(DOMAIN mine, Of(more, other))
      BY <2>1, <2>2, <2>3, Bijects
    <2> QED BY <1>7, <2>4, <2>5 DEF TalliedIn, more, mine
  <1> QED BY <1>6, <1>7

\* Nothing is tallied of nothing drawn.
LEMMA NothingTallied == ASSUME NEW s PROVE TalliedIn(<<>>, <<>>, s)
  <1>1. Of(<<>>, s) = {} /\ DOMAIN <<>> = {}
    BY DEF Of
  <1>2. [a \in {} |-> a] \in Bijection({}, {})
    BY Bijects
  <1> QED BY <1>1, <1>2 DEF TalliedIn

\* A draw is tallied to its own key only, and what the frame before read stays.
LEMMA Tallying ==
  ASSUME NEW keys, NEW reads, NEW tally \in Tallies(keys, reads), NEW key \in keys,
         NEW hash \in reads, NEW t, t = Tallied(tally, key, hash)
  PROVE  /\ t \in Tallies(keys, reads) /\ t.previous = tally.previous
         /\ t.frame[key] = Append(tally.frame[key], hash)
         /\ t.counts[key] = [tally.counts[key] EXCEPT !.draws = @ + 1]
         /\ \A k \in keys : k # key =>
              t.frame[k] = tally.frame[k] /\ t.counts[k] = tally.counts[k]
  <1>1. Append(tally.frame[key], hash) \in Seq(reads)
    BY AppendProperties DEF Tallies
  <1>2. [tally.counts[key] EXCEPT !.draws = @ + 1] \in TallyCounts
    <2> DEFINE more == tally.counts[key].draws + 1
    <2>1. tally.counts[key] \in TallyCounts /\ more \in Nat
      BY DEF Tallies, TallyCounts
    <2> HIDE DEF more
    <2>2. [tally.counts[key] EXCEPT !.draws = more] \in TallyCounts
      BY <2>1 DEF TallyCounts
    <2> QED BY <2>2 DEF more
  <1> DEFINE counts == [tally.counts EXCEPT ![key] = [tally.counts[key] EXCEPT !.draws = @ + 1]]
             frame == [tally.frame EXCEPT ![key] = Append(tally.frame[key], hash)]
  <1>3. /\ counts \in [keys -> TallyCounts] /\ counts[key] = [tally.counts[key] EXCEPT !.draws = @ + 1]
        /\ \A k \in keys : k # key => counts[k] = tally.counts[k]
    BY <1>2 DEF Tallies
  <1>4. /\ frame \in [keys -> Seq(reads)] /\ frame[key] = Append(tally.frame[key], hash)
        /\ \A k \in keys : k # key => frame[k] = tally.frame[k]
    BY <1>1 DEF Tallies
  <1>5. t = [tally EXCEPT !.counts = counts, !.frame = frame]
    BY DEF Tallied
  <1> HIDE DEF counts, frame
  <1>6. t = [counts |-> counts, frame |-> frame, previous |-> tally.previous]
    BY <1>5 DEF Tallies
  <1> QED BY <1>3, <1>4, <1>6 DEF Tallies

\* What of a frame was not read the frame before is finite.
LEMMA FreshIsCounted ==
  ASSUME NEW reads, NEW frame \in Seq(reads), NEW previous
  PROVE  /\ Len(frame) \in Nat /\ IsFiniteSet(Fresh(frame, previous))
         /\ Cardinality(Fresh(frame, previous)) \in Nat
  <1>1. Fresh(frame, previous) \in SUBSET (DOMAIN frame)
    BY DEF Fresh
  <1>2. IsFiniteSet(Fresh(frame, previous))
    BY <1>1, PlacesAreFinite, FS_Subset
  <1> QED BY <1>2, FS_CardinalityType, LenProperties

\* Counts with two fields replaced, field by field.
LEMMA CountsAre ==
  ASSUME NEW c \in TallyCounts, NEW compared \in Nat, NEW changed \in Nat
  PROVE  [c EXCEPT !.compared = compared, !.changed = changed] =
           [draws |-> c.draws, compared |-> compared, changed |-> changed]
  <1> DEFINE p == [c EXCEPT !.compared = compared, !.changed = changed]
  <1>1. /\ DOMAIN p = {"draws", "compared", "changed"} /\ p = [i \in DOMAIN p |-> p[i]]
        /\ p.draws = c.draws /\ p.compared = compared /\ p.changed = changed
    BY DEF TallyCounts
  <1> HIDE DEF p
  <1>2. p = [draws |-> c.draws, compared |-> compared, changed |-> changed]
    BY <1>1
  <1> QED BY <1>2 DEF p

\* A comparison empties the frame into the one before, and adds what it counts to where that one was.
LEMMA Comparing ==
  ASSUME NEW keys, NEW reads, NEW tally \in Tallies(keys, reads), NEW c, c = Compared(tally)
  PROVE  /\ c \in Tallies(keys, reads) /\ c.previous = tally.frame
         /\ \A k \in keys :
              /\ c.frame[k] = <<>>
              /\ tally.previous[k] = <<>> => c.counts[k] = tally.counts[k]
              /\ tally.previous[k] # <<>> =>
                   /\ c.counts[k].draws = tally.counts[k].draws
                   /\ c.counts[k].compared = tally.counts[k].compared + Len(tally.frame[k])
                   /\ c.counts[k].changed =
                        tally.counts[k].changed + Cardinality(Fresh(tally.frame[k], tally.previous[k]))
  <1> DEFINE compared(k) == tally.counts[k].compared + Len(tally.frame[k])
             changed(k) == tally.counts[k].changed
                             + Cardinality(Fresh(tally.frame[k], tally.previous[k]))
             after(k) == IF tally.previous[k] = <<>> THEN tally.counts[k]
                         ELSE [tally.counts[k] EXCEPT !.compared = compared(k), !.changed = changed(k)]
  <1>1. DOMAIN tally.counts = keys /\ DOMAIN tally.frame = keys
    BY DEF Tallies
  <1>2. c = [counts |-> [k \in keys |-> after(k)], previous |-> tally.frame,
             frame |-> [k \in keys |-> <<>>]]
    BY <1>1 DEF Compared, ReadBefore, Fresh
  <1>3. \A k \in keys : compared(k) \in Nat /\ changed(k) \in Nat /\ tally.counts[k] \in TallyCounts
    <2> SUFFICES ASSUME NEW k \in keys
                 PROVE compared(k) \in Nat /\ changed(k) \in Nat /\ tally.counts[k] \in TallyCounts
      OBVIOUS
    <2>1. /\ Len(tally.frame[k]) \in Nat
          /\ Cardinality(Fresh(tally.frame[k], tally.previous[k])) \in Nat
      BY FreshIsCounted DEF Tallies
    <2>2. tally.counts[k] \in TallyCounts
      BY DEF Tallies
    <2>3. tally.counts[k].compared \in Nat /\ tally.counts[k].changed \in Nat
      BY <2>2 DEF TallyCounts
    <2> QED BY <2>1, <2>2, <2>3
  <1> HIDE DEF compared, changed
  <1>4. \A k \in keys :
          after(k) = IF tally.previous[k] = <<>> THEN tally.counts[k]
                     ELSE [draws |-> tally.counts[k].draws, compared |-> compared(k),
                           changed |-> changed(k)]
    BY <1>3, CountsAre
  <1> HIDE DEF after
  <1>5. \A k \in keys : after(k) \in TallyCounts
    BY <1>3, <1>4 DEF TallyCounts
  <1>6. <<>> \in Seq(reads)
    OBVIOUS
  <1>7. c \in Tallies(keys, reads)
    BY <1>2, <1>5, <1>6 DEF Tallies
  <1>8. c.previous = tally.frame /\ \A k \in keys : c.frame[k] = <<>> /\ c.counts[k] = after(k)
    BY <1>2
  <1>9. \A k \in keys :
          /\ tally.previous[k] = <<>> => c.counts[k] = tally.counts[k]
          /\ tally.previous[k] # <<>> =>
               /\ c.counts[k].draws = tally.counts[k].draws
               /\ c.counts[k].compared = compared(k) /\ c.counts[k].changed = changed(k)
    BY <1>4, <1>8
  <1> QED BY <1>7, <1>8, <1>9 DEF compared, changed

\* Nothing is tallied and nothing asked for at first.
LEMMA ChangesBegin == ChangesInit => ChangesInv
  <1> SUFFICES ASSUME ChangesInit PROVE ChangesInv
    OBVIOUS
  <1>1. \A keys, reads : NoTally(keys) \in Tallies(keys, reads)
    BY DEF NoTally, NoCounts, Tallies, TallyCounts
  <1>2. /\ changes.plain = NoTally(Plain) /\ changes.lit = NoTally(Lit)
        /\ changes.attributes = NoTally(Pairs) /\ changes.asked = 0 /\ changes.taken = 0
        /\ drawn.now = <<>> /\ drawn.before = <<>> /\ drawn.frame = 1 /\ drawn.first = 0
        /\ drawn.counts = [s \in Shaders |-> NoCounts]
    BY DEF ChangesInit, Shaders
  <1>3. <<>> \in Drawings /\ drawn.counts \in [Shaders -> TallyCounts]
    BY <1>2 DEF Drawings, NoCounts, TallyCounts
  <1>4. ChangeTypes
    <2>1. /\ changes = [plain |-> changes.plain, lit |-> changes.lit,
                        attributes |-> changes.attributes,
                        asked |-> changes.asked, taken |-> changes.taken]
          /\ drawn = [now |-> drawn.now, before |-> drawn.before, frame |-> drawn.frame,
                      first |-> drawn.first, whole |-> drawn.whole, all |-> drawn.all,
                      counts |-> drawn.counts]
      BY DEF ChangesInit
    <2> QED BY <1>1, <1>2, <1>3, <2>1 DEF ChangeTypes
  <1>5. ~InCensus
    BY <1>2 DEF InCensus
  <1>6. /\ \A s \in Plain : /\ TalliedIn(drawn.now, changes.plain.frame[s], s)
                            /\ TalliedIn(drawn.before, changes.plain.previous[s], s)
                            /\ changes.plain.counts[s] = drawn.counts[s]
        /\ \A s \in Lit : changes.lit.counts[s] = drawn.counts[s]
    BY <1>2, NothingTallied DEF NoTally, Shaders
  <1>7. \A s \in Lit, a \in Attributes :
          /\ changes.attributes.frame[<<s, a>>] = <<>> /\ changes.lit.frame[s] = <<>>
          /\ changes.attributes.previous[<<s, a>>] = <<>> /\ changes.lit.previous[s] = <<>>
          /\ changes.attributes.counts[<<s, a>>] = NoCounts /\ changes.lit.counts[s] = NoCounts
    BY <1>2 DEF NoTally, Pairs
  <1>8. DOMAIN <<>> = {}
    OBVIOUS
  <1>9. ChangesAreCounted
    BY <1>6, <1>7 DEF ChangesAreCounted, PlainIsExact, AttributesAgree, CensusComparesFrames, NoCounts
  <1> QED BY <1>4, <1>5, <1>6, <1>7, <1>8, <1>9 DEF ChangesInv, ByAttribute

\* A census asked for starts with nothing tallied, and one asked for between two frames
\* misses nothing of the next.
LEMMA RequestKeeps == ASSUME ChangesInv, NEW count, PostDraws(count) PROVE ChangesInv'
  <1>1. CASE UNCHANGED changeVars
    BY <1>1 DEF changeVars, ChangesInv, ChangeTypes, TalliedIn, CensusHasFrames, InCensus, ByAttribute,
                ChangesAreCounted, PlainIsExact, AttributesAgree, CensusComparesFrames
  <1>2. CASE RequestCensus(count)
    <2> DEFINE counts == [s \in Shaders |-> IF s \in Lit THEN NoCounts ELSE drawn.counts[s]]
    <2>1. /\ changes' = [changes EXCEPT !.lit = NoTally(Lit), !.attributes = NoTally(Pairs),
                                        !.asked = count, !.taken = 0]
          /\ drawn' = [drawn EXCEPT !.first = drawn.frame, !.whole = (drawn.now = <<>>),
                                    !.counts = counts]
      BY <1>2 DEF RequestCensus, ChangesInv, ChangeTypes, Shaders
    <2>2. counts \in [Shaders -> TallyCounts]
      BY DEF ChangesInv, ChangeTypes, NoCounts, TallyCounts
    <2>3. NoTally(Lit) \in Tallies(Lit, Bytes) /\ NoTally(Pairs) \in Tallies(Pairs, Hashes)
      BY DEF NoTally, NoCounts, Tallies, TallyCounts
    <2>4. /\ \A s \in Lit : counts[s] = NoCounts
          /\ \A s \in Plain : counts[s] = drawn.counts[s]
      BY ShadersAreKnown DEF Shaders
    <2> DEFINE noLit == NoTally(Lit)
               noPairs == NoTally(Pairs)
    <2>5. /\ \A s \in Lit : noLit.frame[s] = <<>> /\ noLit.previous[s] = <<>> /\ noLit.counts[s] = NoCounts
          /\ \A p \in Pairs : noPairs.frame[p] = <<>> /\ noPairs.previous[p] = <<>>
                                /\ noPairs.counts[p] = NoCounts
      BY DEF NoTally
    <2> HIDE DEF counts, noLit, noPairs
    <2>6. /\ changes' = [plain |-> changes.plain, lit |-> noLit, attributes |-> noPairs,
                         asked |-> count, taken |-> 0]
          /\ changes'.plain = changes.plain /\ changes'.lit = noLit /\ changes'.attributes = noPairs
      BY <2>1 DEF ChangesInv, ChangeTypes, noLit, noPairs
    <2>7. /\ drawn' = [now |-> drawn.now, before |-> drawn.before, frame |-> drawn.frame,
                       first |-> drawn.frame, whole |-> (drawn.now = <<>>), all |-> drawn.all,
                       counts |-> counts]
          /\ drawn'.now = drawn.now /\ drawn'.before = drawn.before
          /\ drawn'.frame = drawn.frame /\ drawn'.first = drawn.frame
          /\ drawn'.whole <=> drawn.now = <<>> /\ drawn'.counts = counts
      BY <2>1 DEF ChangesInv, ChangeTypes
    <2>8. ChangeTypes'
      BY <2>2, <2>3, <2>6, <2>7 DEF ChangesInv, ChangeTypes, noLit, noPairs
    <2>9. \A s \in Plain : /\ TalliedIn(drawn.now, changes.plain.frame[s], s)'
                           /\ TalliedIn(drawn.before, changes.plain.previous[s], s)'
      BY <2>6, <2>7 DEF ChangesInv
    <2>10. drawn'.whole => CensusHasFrames'
      BY <2>5, <2>6, <2>7, NothingTallied DEF CensusHasFrames
    <2>11. \A s \in Lit, a \in Attributes :
             /\ ByAttribute(changes.attributes.frame[<<s, a>>], changes.lit.frame[s], a)'
             /\ ByAttribute(changes.attributes.previous[<<s, a>>], changes.lit.previous[s], a)'
      BY <2>5, <2>6 DEF ByAttribute, Pairs
    <2>12. ChangesAreCounted'
      <3>1. PlainIsExact'
        BY <2>4, <2>6, <2>7 DEF ChangesInv, ChangesAreCounted, PlainIsExact
      <3>2. AttributesAgree' /\ CensusComparesFrames'
        BY <2>4, <2>5, <2>6, <2>7 DEF AttributesAgree, CensusComparesFrames, NoCounts, Pairs
      <3> QED BY <3>1, <3>2 DEF ChangesAreCounted
    <2> QED BY <2>8, <2>9, <2>10, <2>11, <2>12 DEF ChangesInv
  <1> QED BY <1>1, <1>2 DEF PostDraws

\* A draw by attribute is tallied in each of its shader's.
LEMMA AttributesTallied ==
  ASSUME ChangeTypes, NEW shader \in Lit, NEW bytes \in Bytes,
         NEW t, t = AttributesAdded(shader, bytes)
  PROVE  /\ t \in Tallies(Pairs, Hashes) /\ t.previous = changes.attributes.previous
         /\ \A a \in Attributes :
              /\ t.frame[<<shader, a>>] = Append(changes.attributes.frame[<<shader, a>>], bytes[a])
              /\ t.counts[<<shader, a>>] = [changes.attributes.counts[<<shader, a>>] EXCEPT !.draws = @ + 1]
         /\ \A s \in Lit, a \in Attributes : s # shader =>
              /\ t.frame[<<s, a>>] = changes.attributes.frame[<<s, a>>]
              /\ t.counts[<<s, a>>] = changes.attributes.counts[<<s, a>>]
  <1> DEFINE tally == changes.attributes
             counts == [p \in Pairs |-> IF p[1] = shader THEN [tally.counts[p] EXCEPT !.draws = @ + 1]
                                        ELSE tally.counts[p]]
             frame == [p \in Pairs |-> IF p[1] = shader THEN Append(tally.frame[p], bytes[p[2]])
                                       ELSE tally.frame[p]]
  <1>1. tally \in Tallies(Pairs, Hashes)
    BY DEF ChangeTypes
  <1>2. \A p \in Pairs : p[2] \in Attributes /\ bytes[p[2]] \in Hashes
    BY DEF Pairs, Bytes
  <1>3. frame \in [Pairs -> Seq(Hashes)]
    <2>1. ASSUME NEW p \in Pairs PROVE Append(tally.frame[p], bytes[p[2]]) \in Seq(Hashes)
      BY <1>1, <1>2, AppendProperties DEF Tallies
    <2> QED BY <1>1, <2>1 DEF Tallies
  <1>4. counts \in [Pairs -> TallyCounts]
    <2>1. ASSUME NEW p \in Pairs PROVE [tally.counts[p] EXCEPT !.draws = @ + 1] \in TallyCounts
      <3> DEFINE more == tally.counts[p].draws + 1
      <3>1. tally.counts[p] \in TallyCounts /\ more \in Nat
        BY <1>1 DEF Tallies, TallyCounts
      <3> HIDE DEF more
      <3>2. [tally.counts[p] EXCEPT !.draws = more] \in TallyCounts
        BY <3>1 DEF TallyCounts
      <3> QED BY <3>2 DEF more
    <2> QED BY <1>1, <2>1 DEF Tallies
  <1>5. t = [tally EXCEPT !.counts = counts, !.frame = frame]
    BY DEF AttributesAdded
  <1>6. /\ \A a \in Attributes :
             /\ frame[<<shader, a>>] = Append(tally.frame[<<shader, a>>], bytes[a])
             /\ counts[<<shader, a>>] = [tally.counts[<<shader, a>>] EXCEPT !.draws = @ + 1]
        /\ \A s \in Lit, a \in Attributes : s # shader =>
             frame[<<s, a>>] = tally.frame[<<s, a>>] /\ counts[<<s, a>>] = tally.counts[<<s, a>>]
    BY DEF Pairs
  <1> HIDE DEF counts, frame, tally
  <1>7. t = [counts |-> counts, frame |-> frame, previous |-> tally.previous]
    BY <1>1, <1>5 DEF Tallies
  <1>8. t.counts = counts /\ t.frame = frame /\ t.previous = tally.previous
    BY <1>7
  <1>9. t \in Tallies(Pairs, Hashes)
    BY <1>1, <1>3, <1>4, <1>7 DEF Tallies
  <1> QED BY <1>6, <1>8, <1>9 DEF tally

\* The same draw appended on both sides.
LEMMA ByAttributeMore ==
  ASSUME NEW one \in Seq(Hashes), NEW all \in Seq(Bytes), NEW a \in Attributes, NEW bytes \in Bytes,
         ByAttribute(one, all, a)
  PROVE  ByAttribute(Append(one, bytes[a]), Append(all, bytes), a)
  <1>1. bytes[a] \in Hashes
    BY DEF Bytes
  <1>2. /\ DOMAIN one = 1 .. Len(one) /\ Len(one) \in Nat
        /\ DOMAIN all = 1 .. Len(all) /\ Len(all) \in Nat
    BY LenProperties
  <1>3. Len(one) = Len(all)
    <2>1. \A m, n \in Nat : 1 .. m = 1 .. n => m = n
      <3> SUFFICES ASSUME NEW m \in Nat, NEW n \in Nat, 1 .. m = 1 .. n PROVE m = n
        OBVIOUS
      <3>1. m <= n
        <4>1. m = 0 \/ m \in 1 .. m
          OBVIOUS
        <4> QED BY <4>1
      <3>2. n <= m
        <4>1. n = 0 \/ n \in 1 .. n
          OBVIOUS
        <4> QED BY <4>1
      <3> QED BY <3>1, <3>2
    <2> QED BY <1>2, <2>1 DEF ByAttribute
  <1>4. /\ DOMAIN Append(one, bytes[a]) = 1 .. Len(one) + 1
        /\ \A i \in 1 .. Len(one) : Append(one, bytes[a])[i] = one[i]
        /\ Append(one, bytes[a])[Len(one) + 1] = bytes[a]
    BY <1>1, AppendProperties, LenProperties
  <1>5. /\ DOMAIN Append(all, bytes) = 1 .. Len(all) + 1
        /\ \A i \in 1 .. Len(all) : Append(all, bytes)[i] = all[i]
        /\ Append(all, bytes)[Len(all) + 1] = bytes
    BY AppendProperties, LenProperties
  <1> QED BY <1>2, <1>3, <1>4, <1>5 DEF ByAttribute

\* A draw goes to the tallies of its shader as it goes to what the title drew.
LEMMA OnDrawKeeps ==
  ASSUME ChangesInv, NEW shader \in Shaders, NEW bytes \in Bytes, OnDraw(shader, bytes)
  PROVE  ChangesInv'
  <1> USE DEF ChangesInv
  <1> DEFINE now == Append(drawn.now, <<shader, bytes>>)
             counts == [drawn.counts EXCEPT ![shader] = [drawn.counts[shader] EXCEPT !.draws = @ + 1]]
             all == drawn.all + 1
  <1>1. now \in Drawings
    BY AppendProperties DEF ChangeTypes, Drawings
  <1>2. /\ counts \in [Shaders -> TallyCounts]
        /\ counts[shader] = [drawn.counts[shader] EXCEPT !.draws = @ + 1]
        /\ \A s \in Shaders : s # shader => counts[s] = drawn.counts[s]
        /\ \A s \in Shaders : counts[s].compared = drawn.counts[s].compared
                              /\ counts[s].changed = drawn.counts[s].changed
    <2>1. [drawn.counts[shader] EXCEPT !.draws = @ + 1] \in TallyCounts
      <3> DEFINE more == drawn.counts[shader].draws + 1
      <3>1. drawn.counts[shader] \in TallyCounts /\ more \in Nat
        BY DEF ChangeTypes, TallyCounts
      <3> HIDE DEF more
      <3>2. [drawn.counts[shader] EXCEPT !.draws = more] \in TallyCounts
        BY <3>1 DEF TallyCounts
      <3> QED BY <3>2 DEF more
    <2>2. /\ counts \in [Shaders -> TallyCounts]
          /\ counts[shader] = [drawn.counts[shader] EXCEPT !.draws = @ + 1]
          /\ \A s \in Shaders : s # shader => counts[s] = drawn.counts[s]
      BY <2>1 DEF ChangeTypes
    <2>3. /\ counts[shader].compared = drawn.counts[shader].compared
          /\ counts[shader].changed = drawn.counts[shader].changed
      <3>1. drawn.counts[shader] \in TallyCounts
        BY DEF ChangeTypes
      <3> QED BY <2>2, <3>1 DEF TallyCounts
    <2> HIDE DEF counts
    <2> QED BY <2>2, <2>3
  <1>3. drawn' = [drawn EXCEPT !.now = now, !.all = all, !.counts = counts]
    BY DEF OnDraw
  <1> HIDE DEF now, counts, all
  <1>4. /\ drawn' = [now |-> now, before |-> drawn.before, frame |-> drawn.frame,
                     first |-> drawn.first, whole |-> drawn.whole, all |-> all, counts |-> counts]
        /\ drawn'.now = now /\ drawn'.before = drawn.before /\ drawn'.frame = drawn.frame
        /\ drawn'.first = drawn.first /\ drawn'.counts = counts
    BY <1>3 DEF ChangeTypes
  <1>5. drawn'.whole = drawn.whole
    BY <1>4
  <1>6. \A other : \A tallied \in Seq(Bytes) : TalliedIn(drawn.now, tallied, other) =>
          /\ other = shader => TalliedIn(now, Append(tallied, bytes), other)
          /\ other # shader => TalliedIn(now, tallied, other)
    BY TalliedMore DEF ChangeTypes, now
  <1>7. CASE shader \in Plain
    <2> DEFINE t == Tallied(changes.plain, shader, bytes)
    <2>1. /\ changes' = [changes EXCEPT !.plain = t] /\ shader \notin Lit
      BY <1>7, ShadersAreKnown DEF OnDraw
    <2>2. /\ t \in Tallies(Plain, Bytes) /\ t.previous = changes.plain.previous
          /\ t.frame[shader] = Append(changes.plain.frame[shader], bytes)
          /\ t.counts[shader] = [changes.plain.counts[shader] EXCEPT !.draws = @ + 1]
          /\ \A k \in Plain : k # shader =>
               t.frame[k] = changes.plain.frame[k] /\ t.counts[k] = changes.plain.counts[k]
      BY <1>7, Tallying DEF ChangeTypes
    <2> HIDE DEF t
    <2>3. /\ changes' = [plain |-> t, lit |-> changes.lit, attributes |-> changes.attributes,
                         asked |-> changes.asked, taken |-> changes.taken]
          /\ changes'.plain = t /\ changes'.lit = changes.lit
          /\ changes'.attributes = changes.attributes
          /\ changes'.asked = changes.asked /\ changes'.taken = changes.taken
      BY <2>1 DEF ChangeTypes
    <2>4. ChangeTypes'
      BY <1>1, <1>2, <1>4, <2>2, <2>3 DEF ChangeTypes
    <2>5. \A s \in Plain : /\ TalliedIn(now, t.frame[s], s)
                           /\ TalliedIn(drawn.before, t.previous[s], s)
                           /\ t.counts[s] = counts[s]
      <3> SUFFICES ASSUME NEW s \in Plain
                   PROVE /\ TalliedIn(now, t.frame[s], s)
                         /\ TalliedIn(drawn.before, t.previous[s], s)
                         /\ t.counts[s] = counts[s]
        OBVIOUS
      <3>1. changes.plain.frame[s] \in Seq(Bytes) /\ s \in Shaders
        BY DEF ChangeTypes, Tallies, Shaders
      <3>2. changes.plain.counts[s] = drawn.counts[s]
        BY DEF ChangesAreCounted, PlainIsExact
      <3>3. t.counts[s] = counts[s]
        BY <1>2, <2>2, <3>1, <3>2
      <3> QED BY <1>6, <2>2, <3>1, <3>3
    <2>6. drawn.whole /\ InCensus => CensusHasFrames'
      <3>1. \A s \in Lit : s # shader /\ changes.lit.frame[s] \in Seq(Bytes)
        BY <2>1 DEF ChangeTypes, Tallies
      <3> QED BY <1>4, <1>6, <2>3, <3>1 DEF CensusHasFrames
    <2>7. InCensus' = InCensus
      BY <2>3 DEF InCensus
    <2>8. ChangesAreCounted'
      <3>1. PlainIsExact'
        BY <1>4, <2>3, <2>5 DEF PlainIsExact
      <3>2. AttributesAgree'
        BY <2>3 DEF AttributesAgree, ChangesAreCounted
      <3>3. drawn.whole => CensusComparesFrames'
        BY <1>2, <1>4, <2>3 DEF CensusComparesFrames, ChangesAreCounted, Shaders
      <3> QED BY <1>5, <3>1, <3>2, <3>3 DEF ChangesAreCounted
    <2>9. \A s \in Plain : /\ TalliedIn(drawn.now, changes.plain.frame[s], s)'
                           /\ TalliedIn(drawn.before, changes.plain.previous[s], s)'
      BY <1>4, <2>3, <2>5
    <2>10. \A s \in Lit, a \in Attributes :
             /\ ByAttribute(changes.attributes.frame[<<s, a>>], changes.lit.frame[s], a)'
             /\ ByAttribute(changes.attributes.previous[<<s, a>>], changes.lit.previous[s], a)'
      BY <2>3
    <2> QED BY <1>5, <2>4, <2>6, <2>7, <2>8, <2>9, <2>10
  <1>8. CASE shader \notin Plain /\ ~InCensus
    <2>1. changes' = changes /\ shader \in Lit
      BY <1>8 DEF OnDraw, Shaders
    <2>2. ChangeTypes'
      BY <1>1, <1>2, <1>4, <2>1 DEF ChangeTypes
    <2>3. ~InCensus'
      BY <1>8, <2>1 DEF InCensus
    <2>4. \A s \in Plain : /\ TalliedIn(drawn.now, changes.plain.frame[s], s)'
                           /\ TalliedIn(drawn.before, changes.plain.previous[s], s)'
      <3>1. \A s \in Plain : changes.plain.frame[s] \in Seq(Bytes) /\ s # shader
        BY <1>8 DEF ChangeTypes, Tallies
      <3> QED BY <1>4, <1>6, <2>1, <3>1
    <2>5. ChangesAreCounted'
      <3>1. PlainIsExact'
        <4>1. \A s \in Plain : s \in Shaders /\ s # shader
          BY <1>8 DEF Shaders
        <4> QED BY <1>2, <1>4, <2>1, <4>1 DEF PlainIsExact, ChangesAreCounted
      <3>2. AttributesAgree'
        BY <2>1 DEF AttributesAgree, ChangesAreCounted
      <3>3. drawn.whole => CensusComparesFrames'
        BY <1>2, <1>4, <2>1 DEF CensusComparesFrames, ChangesAreCounted, Shaders
      <3> QED BY <1>5, <3>1, <3>2, <3>3 DEF ChangesAreCounted
    <2>6. \A s \in Lit, a \in Attributes :
             /\ ByAttribute(changes.attributes.frame[<<s, a>>], changes.lit.frame[s], a)'
             /\ ByAttribute(changes.attributes.previous[<<s, a>>], changes.lit.previous[s], a)'
      BY <2>1
    <2> QED BY <2>2, <2>3, <2>4, <2>5, <2>6
  <1>9. CASE shader \notin Plain /\ InCensus
    <2> DEFINE t == Tallied(changes.lit, shader, bytes)
               u == AttributesAdded(shader, bytes)
    <2>1. changes' = [changes EXCEPT !.lit = t, !.attributes = u] /\ shader \in Lit
      BY <1>9 DEF OnDraw, Shaders
    <2>2. /\ t \in Tallies(Lit, Bytes) /\ t.previous = changes.lit.previous
          /\ t.frame[shader] = Append(changes.lit.frame[shader], bytes)
          /\ t.counts[shader] = [changes.lit.counts[shader] EXCEPT !.draws = @ + 1]
          /\ \A k \in Lit : k # shader =>
               t.frame[k] = changes.lit.frame[k] /\ t.counts[k] = changes.lit.counts[k]
      BY <2>1, Tallying DEF ChangeTypes
    <2>3. /\ u \in Tallies(Pairs, Hashes) /\ u.previous = changes.attributes.previous
          /\ \A a \in Attributes :
               /\ u.frame[<<shader, a>>] = Append(changes.attributes.frame[<<shader, a>>], bytes[a])
               /\ u.counts[<<shader, a>>] =
                    [changes.attributes.counts[<<shader, a>>] EXCEPT !.draws = @ + 1]
          /\ \A s \in Lit, a \in Attributes : s # shader =>
               /\ u.frame[<<s, a>>] = changes.attributes.frame[<<s, a>>]
               /\ u.counts[<<s, a>>] = changes.attributes.counts[<<s, a>>]
      BY <2>1, AttributesTallied
    <2> HIDE DEF t, u
    <2>4. /\ changes' = [plain |-> changes.plain, lit |-> t, attributes |-> u,
                         asked |-> changes.asked, taken |-> changes.taken]
          /\ changes'.plain = changes.plain /\ changes'.lit = t /\ changes'.attributes = u
          /\ changes'.asked = changes.asked /\ changes'.taken = changes.taken
      BY <2>1 DEF ChangeTypes
    <2>5. ChangeTypes'
      BY <1>1, <1>2, <1>4, <2>2, <2>3, <2>4 DEF ChangeTypes
    <2>6. \A s \in Plain : /\ TalliedIn(drawn.now, changes.plain.frame[s], s)'
                           /\ TalliedIn(drawn.before, changes.plain.previous[s], s)'
      <3>1. \A s \in Plain : changes.plain.frame[s] \in Seq(Bytes) /\ s # shader
        BY <1>9 DEF ChangeTypes, Tallies
      <3> QED BY <1>4, <1>6, <2>4, <3>1
    <2>7. drawn.whole => CensusHasFrames'
      <3> SUFFICES ASSUME drawn.whole, NEW s \in Lit
                   PROVE /\ TalliedIn(now, t.frame[s], s)
                         /\ IF drawn.first = drawn.frame THEN t.previous[s] = <<>>
                            ELSE TalliedIn(drawn.before, t.previous[s], s)
        BY <1>4, <2>4 DEF CensusHasFrames
      <3>1. changes.lit.frame[s] \in Seq(Bytes) /\ TalliedIn(drawn.now, changes.lit.frame[s], s)
        BY <1>9 DEF ChangeTypes, Tallies, CensusHasFrames
      <3>2. TalliedIn(now, t.frame[s], s)
        BY <1>6, <2>2, <3>1
      <3>3. IF drawn.first = drawn.frame THEN t.previous[s] = <<>>
            ELSE TalliedIn(drawn.before, t.previous[s], s)
        BY <1>9, <2>2 DEF CensusHasFrames
      <3> QED BY <3>2, <3>3
    <2>8. \A s \in Lit, a \in Attributes :
             /\ ByAttribute(u.frame[<<s, a>>], t.frame[s], a)
             /\ ByAttribute(u.previous[<<s, a>>], t.previous[s], a)
      <3> SUFFICES ASSUME NEW s \in Lit, NEW a \in Attributes
                   PROVE /\ ByAttribute(u.frame[<<s, a>>], t.frame[s], a)
                         /\ ByAttribute(u.previous[<<s, a>>], t.previous[s], a)
        OBVIOUS
      <3>1. /\ changes.attributes.frame[<<s, a>>] \in Seq(Hashes)
            /\ changes.lit.frame[s] \in Seq(Bytes)
        BY DEF ChangeTypes, Tallies, Pairs
      <3>2. /\ ByAttribute(changes.attributes.frame[<<s, a>>], changes.lit.frame[s], a)
            /\ ByAttribute(changes.attributes.previous[<<s, a>>], changes.lit.previous[s], a)
        OBVIOUS
      <3>3. CASE s = shader
        <4>1. ByAttribute(Append(changes.attributes.frame[<<s, a>>], bytes[a]),
                          Append(changes.lit.frame[s], bytes), a)
          BY <3>1, <3>2, ByAttributeMore
        <4> QED BY <2>2, <2>3, <3>2, <3>3, <4>1
      <3>4. CASE s # shader
        BY <2>2, <2>3, <3>2, <3>4
      <3> QED BY <3>3, <3>4
    <2>9. ChangesAreCounted'
      <3>1. PlainIsExact'
        <4>1. \A s \in Plain : s \in Shaders /\ s # shader
          BY <1>9 DEF Shaders
        <4> QED BY <1>2, <1>4, <2>4, <4>1 DEF PlainIsExact, ChangesAreCounted
      <3>2. \A s \in Lit : /\ t.counts[s].compared = changes.lit.counts[s].compared
                           /\ t.counts[s].changed = changes.lit.counts[s].changed
                           /\ t.counts[s].draws = IF s = shader THEN changes.lit.counts[s].draws + 1
                                                  ELSE changes.lit.counts[s].draws
        <4>1. \A s \in Lit : changes.lit.counts[s] \in TallyCounts
          BY DEF ChangeTypes, Tallies
        <4> QED BY <2>2, <4>1 DEF TallyCounts
      <3>3. \A s \in Lit, a \in Attributes :
              LET p == <<s, a>>
              IN /\ u.counts[p].compared = changes.attributes.counts[p].compared
                 /\ u.counts[p].changed = changes.attributes.counts[p].changed
                 /\ u.counts[p].draws = IF s = shader THEN changes.attributes.counts[p].draws + 1
                                        ELSE changes.attributes.counts[p].draws
        <4>1. \A s \in Lit, a \in Attributes : changes.attributes.counts[<<s, a>>] \in TallyCounts
          BY DEF ChangeTypes, Tallies, Pairs
        <4> SUFFICES ASSUME NEW s \in Lit, NEW a \in Attributes
                     PROVE LET p == <<s, a>>
                           IN /\ u.counts[p].compared = changes.attributes.counts[p].compared
                              /\ u.counts[p].changed = changes.attributes.counts[p].changed
                              /\ u.counts[p].draws =
                                   IF s = shader THEN changes.attributes.counts[p].draws + 1
                                   ELSE changes.attributes.counts[p].draws
          OBVIOUS
        <4>2. CASE s = shader
          BY <2>3, <4>1, <4>2 DEF TallyCounts
        <4>3. CASE s # shader
          BY <2>3, <4>3
        <4> QED BY <4>2, <4>3
      <3>4. AttributesAgree'
        <4> SUFFICES ASSUME NEW s \in Lit, NEW a \in Attributes
                     PROVE LET whole == t.counts[s] one == u.counts[<<s, a>>]
                           IN /\ one.draws = whole.draws /\ one.compared = whole.compared
                              /\ one.changed <= whole.changed
          BY <2>4 DEF AttributesAgree
        <4> DEFINE whole == changes.lit.counts[s]
                   one == changes.attributes.counts[<<s, a>>]
        <4>1. one.draws = whole.draws /\ one.compared = whole.compared /\ one.changed <= whole.changed
          BY DEF AttributesAgree, ChangesAreCounted
        <4> QED BY <3>2, <3>3, <4>1
      <3>5. drawn.whole => CensusComparesFrames'
        BY <1>2, <1>4, <2>4, <3>2 DEF CensusComparesFrames, ChangesAreCounted, Shaders
      <3> QED BY <1>5, <3>1, <3>4, <3>5 DEF ChangesAreCounted
    <2>10. \A s \in Lit, a \in Attributes :
             /\ ByAttribute(changes.attributes.frame[<<s, a>>], changes.lit.frame[s], a)'
             /\ ByAttribute(changes.attributes.previous[<<s, a>>], changes.lit.previous[s], a)'
      BY <2>4, <2>8
    <2> QED BY <1>5, <2>5, <2>6, <2>7, <2>9, <2>10
  <1> QED BY <1>7, <1>8, <1>9

\* What the title drew in a frame counts to.
LEMMA CountedToIs ==
  ASSUME ChangeTypes, NEW s \in Shaders
  PROVE  LET now == Of(drawn.now, s)
             before == Of(drawn.before, s)
             new == {i \in now : \A j \in before : drawn.now[i] # drawn.before[j]}
             skips == before = {} \/ (s \in Lit /\ drawn.first = drawn.frame) \/ (s \in Lit /\ ~InCensus)
         IN /\ CountedTo(s) \in TallyCounts
            /\ CountedTo(s).draws = drawn.counts[s].draws
            /\ skips => CountedTo(s) = drawn.counts[s]
            /\ ~skips => /\ CountedTo(s).compared = drawn.counts[s].compared + Cardinality(now)
                         /\ CountedTo(s).changed = drawn.counts[s].changed + Cardinality(new)
  <1> DEFINE now == Of(drawn.now, s)
             before == Of(drawn.before, s)
             new == {i \in now : \A j \in before : drawn.now[i] # drawn.before[j]}
             skips == before = {} \/ (s \in Lit /\ drawn.first = drawn.frame) \/ (s \in Lit /\ ~InCensus)
             compared == drawn.counts[s].compared + Cardinality(now)
             changed == drawn.counts[s].changed + Cardinality(new)
  <1>1. drawn.counts[s] \in TallyCounts
    BY DEF ChangeTypes
  <1>2. Cardinality(now) \in Nat /\ Cardinality(new) \in Nat
    <2>1. drawn.now \in Seq(Shaders \X Bytes)
      BY DEF ChangeTypes, Drawings
    <2>2. IsFiniteSet(DOMAIN drawn.now)
      BY <2>1, PlacesAreFinite
    <2>3. now \in SUBSET (DOMAIN drawn.now) /\ new \in SUBSET (DOMAIN drawn.now)
      BY DEF Of
    <2> HIDE DEF now, new
    <2>4. IsFiniteSet(now) /\ IsFiniteSet(new)
      BY <2>2, <2>3, FS_Subset
    <2> QED BY <2>4, FS_CardinalityType
  <1>3. compared \in Nat /\ changed \in Nat
    <2>1. drawn.counts[s].compared \in Nat /\ drawn.counts[s].changed \in Nat
      BY <1>1 DEF TallyCounts
    <2> HIDE DEF now, new
    <2> QED BY <1>2, <2>1
  <1>4. CountedTo(s) = IF skips THEN drawn.counts[s]
                       ELSE [drawn.counts[s] EXCEPT !.compared = compared, !.changed = changed]
    BY DEF CountedTo
  <1> HIDE DEF compared, changed
  <1>5. [drawn.counts[s] EXCEPT !.compared = compared, !.changed = changed] =
          [draws |-> drawn.counts[s].draws, compared |-> compared, changed |-> changed]
    BY <1>1, <1>3, CountsAre
  <1>6. CASE skips
    BY <1>1, <1>4, <1>6
  <1>7. CASE ~skips
    <2>1. CountedTo(s) = [draws |-> drawn.counts[s].draws, compared |-> compared, changed |-> changed]
      BY <1>4, <1>5, <1>7
    <2>2. drawn.counts[s].draws \in Nat
      BY <1>1 DEF TallyCounts
    <2>3. /\ CountedTo(s) \in TallyCounts /\ CountedTo(s).draws = drawn.counts[s].draws
          /\ CountedTo(s).compared = compared /\ CountedTo(s).changed = changed
      BY <1>3, <2>1, <2>2 DEF TallyCounts
    <2> QED BY <1>7, <2>3 DEF compared, changed
  <1> QED BY <1>6, <1>7

\* A tally that has what was drawn, compared, counts what was drawn.
LEMMA ComparedIsCounted ==
  ASSUME ChangeTypes, NEW keys, NEW tally \in Tallies(keys, Bytes), NEW s \in keys, s \in Shaders,
         TalliedIn(drawn.now, tally.frame[s], s), TalliedIn(drawn.before, tally.previous[s], s),
         s \in Lit => InCensus /\ drawn.first # drawn.frame,
         tally.counts[s].compared = drawn.counts[s].compared,
         tally.counts[s].changed = drawn.counts[s].changed
  PROVE  LET c == Compared(tally)
         IN /\ c.counts[s].draws = tally.counts[s].draws
            /\ c.counts[s].compared = CountedTo(s).compared
            /\ c.counts[s].changed = CountedTo(s).changed
  <1> DEFINE frame == tally.frame[s]
             previous == tally.previous[s]
             now == Of(drawn.now, s)
             before == Of(drawn.before, s)
             new == {i \in now : \A j \in before : drawn.now[i] # drawn.before[j]}
             c == Compared(tally)
  <1>1. frame \in Seq(Bytes) /\ previous \in Seq(Bytes) /\ tally.counts[s] \in TallyCounts
    BY DEF Tallies
  <1>2. /\ Len(frame) = Cardinality(now) /\ Cardinality(now) \in Nat
        /\ previous = <<>> <=> before = {}
        /\ Cardinality(Fresh(frame, previous)) = Cardinality(new) /\ Cardinality(new) \in Nat
    BY <1>1, TalliesCount DEF ChangeTypes, Fresh
  <1>3. /\ previous = <<>> => c.counts[s] = tally.counts[s]
        /\ previous # <<>> =>
             /\ c.counts[s].draws = tally.counts[s].draws
             /\ c.counts[s].compared = tally.counts[s].compared + Len(frame)
             /\ c.counts[s].changed = tally.counts[s].changed + Cardinality(Fresh(frame, previous))
    BY Comparing
  <1> DEFINE skips == before = {} \/ (s \in Lit /\ drawn.first = drawn.frame)
                        \/ (s \in Lit /\ ~InCensus)
  <1>4. /\ skips => CountedTo(s) = drawn.counts[s]
        /\ ~skips => /\ CountedTo(s).compared = drawn.counts[s].compared + Cardinality(now)
                      /\ CountedTo(s).changed = drawn.counts[s].changed + Cardinality(new)
    BY CountedToIs
  <1>5. skips <=> before = {}
    OBVIOUS
  <1> HIDE DEF frame, previous, now, before, new, skips, c
  <1>6. CASE before = {}
    <2>1. c.counts[s] = tally.counts[s] /\ CountedTo(s) = drawn.counts[s]
      BY <1>2, <1>3, <1>4, <1>5, <1>6
    <2> QED BY <2>1 DEF c
  <1>7. CASE before # {}
    BY <1>2, <1>3, <1>4, <1>5, <1>7 DEF c
  <1> QED BY <1>6, <1>7

\* By attribute no more is fresh than of the whole draws.
LEMMA FreshByAttribute ==
  ASSUME NEW a, NEW one \in Seq(Hashes), NEW oneBefore \in Seq(Hashes),
         NEW all \in Seq(Bytes), NEW allBefore \in Seq(Bytes),
         ByAttribute(one, all, a), ByAttribute(oneBefore, allBefore, a)
  PROVE  /\ Len(one) = Len(all) /\ (oneBefore = <<>> <=> allBefore = <<>>)
         /\ Cardinality(Fresh(one, oneBefore)) <= Cardinality(Fresh(all, allBefore))
  <1>1. \A seq \in Seq(Hashes) \cup Seq(Bytes) : DOMAIN seq = 1 .. Len(seq) /\ Len(seq) \in Nat
    BY LenProperties
  <1>2. \A m, n \in Nat : 1 .. m = 1 .. n => m = n
    <2> SUFFICES ASSUME NEW m \in Nat, NEW n \in Nat, 1 .. m = 1 .. n PROVE m = n
      OBVIOUS
    <2>1. (m = 0 \/ m \in 1 .. m) /\ (n = 0 \/ n \in 1 .. n)
      OBVIOUS
    <2> QED BY <2>1
  <1>3. Len(one) = Len(all) /\ Len(oneBefore) = Len(allBefore)
    BY <1>1, <1>2 DEF ByAttribute
  <1>4. oneBefore = <<>> <=> allBefore = <<>>
    <2>1. (oneBefore = <<>> <=> Len(oneBefore) = 0) /\ (allBefore = <<>> <=> Len(allBefore) = 0)
      BY EmptySeq
    <2> QED BY <1>3, <2>1
  <1>5. Fresh(one, oneBefore) \in SUBSET Fresh(all, allBefore)
    BY DEF Fresh, ByAttribute
  <1>6. IsFiniteSet(Fresh(all, allBefore))
    BY FreshIsCounted
  <1> QED BY <1>3, <1>4, <1>5, <1>6, FS_Subset

\* The end of a frame compares in each tally what it was that the title drew.
LEMMA FrameKeepsChanges == ASSUME ChangesInv, DrawFrameComplete PROVE ChangesInv'
  <1> USE DEF ChangesInv
  <1> DEFINE counts == [s \in Shaders |-> CountedTo(s)]
             p == Compared(changes.plain)
             l == Compared(changes.lit)
             u == Compared(changes.attributes)
             frame == drawn.frame + 1
  <1>1. drawn' = [drawn EXCEPT !.now = <<>>, !.before = drawn.now, !.frame = frame, !.counts = counts]
    BY DEF DrawFrameComplete, Shaders
  <1>2. counts \in [Shaders -> TallyCounts] /\ frame \in Nat /\ drawn.first < frame
    <2>1. drawn.frame \in Nat /\ drawn.first \in Nat /\ drawn.first <= drawn.frame /\ ChangeTypes
      BY DEF ChangeTypes
    <2>2. \A s \in Shaders : CountedTo(s) \in TallyCounts
      BY <2>1, CountedToIs
    <2> QED BY <2>1, <2>2
  <1>3. \A s \in Shaders : counts[s] = CountedTo(s)
    OBVIOUS
  <1>4. /\ p \in Tallies(Plain, Bytes) /\ p.previous = changes.plain.frame
        /\ \A s \in Plain : p.frame[s] = <<>>
    BY Comparing DEF ChangeTypes
  <1>5. \A s \in Plain : p.counts[s] = counts[s]
    <2> SUFFICES ASSUME NEW s \in Plain PROVE p.counts[s] = CountedTo(s)
      BY DEF Shaders
    <2>1. s \in Shaders /\ s \notin Lit
      BY ShadersAreKnown DEF Shaders
    <2>2. changes.plain.counts[s] = drawn.counts[s]
      BY DEF ChangesAreCounted, PlainIsExact
    <2>3. /\ p.counts[s].draws = changes.plain.counts[s].draws
          /\ p.counts[s].compared = CountedTo(s).compared
          /\ p.counts[s].changed = CountedTo(s).changed
      BY <2>1, <2>2, ComparedIsCounted DEF ChangeTypes
    <2>4. CountedTo(s) \in TallyCounts /\ CountedTo(s).draws = drawn.counts[s].draws
      BY <2>1, CountedToIs
    <2>5. p.counts[s] \in TallyCounts
      BY <1>4 DEF Tallies
    <2>6. \A c, d \in TallyCounts : c.draws = d.draws /\ c.compared = d.compared /\ c.changed = d.changed => c = d
      BY DEF TallyCounts
    <2> HIDE DEF p
    <2> QED BY <2>2, <2>3, <2>4, <2>5, <2>6
  <1> HIDE DEF counts, p, l, u, frame
  <1>6. /\ drawn' = [now |-> <<>>, before |-> drawn.now, frame |-> frame, first |-> drawn.first,
                     whole |-> drawn.whole, all |-> drawn.all, counts |-> counts]
        /\ drawn'.now = <<>> /\ drawn'.before = drawn.now /\ drawn'.frame = frame
        /\ drawn'.first = drawn.first /\ drawn'.counts = counts
    BY <1>1 DEF ChangeTypes
  <1>7. drawn'.whole = drawn.whole
    BY <1>6
  <1>8. <<>> \in Drawings
    BY DEF Drawings
  <1>9. CASE ~InCensus
    <2>1. changes' = [changes EXCEPT !.plain = p]
      BY <1>9 DEF DrawFrameComplete, p
    <2>2. /\ changes' = [plain |-> p, lit |-> changes.lit, attributes |-> changes.attributes,
                         asked |-> changes.asked, taken |-> changes.taken]
          /\ changes'.plain = p /\ changes'.lit = changes.lit
          /\ changes'.attributes = changes.attributes
          /\ changes'.asked = changes.asked /\ changes'.taken = changes.taken
      BY <2>1 DEF ChangeTypes
    <2>3. ChangeTypes'
      BY <1>2, <1>4, <1>6, <1>8, <2>2 DEF ChangeTypes
    <2>4. ~InCensus'
      BY <1>9, <2>2 DEF InCensus
    <2>5. \A s \in Plain : /\ TalliedIn(drawn'.now, changes'.plain.frame[s], s)
                           /\ TalliedIn(drawn'.before, changes'.plain.previous[s], s)
      BY <1>4, <1>6, <2>2, NothingTallied
    <2>6. \A s \in Lit, a \in Attributes :
             /\ ByAttribute(changes'.attributes.frame[<<s, a>>], changes'.lit.frame[s], a)
             /\ ByAttribute(changes'.attributes.previous[<<s, a>>], changes'.lit.previous[s], a)
      BY <2>2
    <2>7. \A s \in Lit : counts[s] = drawn.counts[s]
      BY <1>3, <1>9, CountedToIs DEF Shaders
    <2>8. PlainIsExact'
      BY <1>5, <1>6, <2>2 DEF PlainIsExact
    <2>9. AttributesAgree'
      BY <2>2 DEF AttributesAgree, ChangesAreCounted
    <2>10. drawn.whole => CensusComparesFrames'
      BY <1>6, <2>2, <2>7 DEF CensusComparesFrames, ChangesAreCounted
    <2>11. ChangesAreCounted'
      BY <1>7, <2>8, <2>9, <2>10 DEF ChangesAreCounted
    <2> QED BY <2>3, <2>4, <2>5, <2>6, <2>11
  <1>10. CASE InCensus
    <2> DEFINE taken == changes.taken + 1
    <2>1. changes' = [changes EXCEPT !.plain = p, !.lit = l, !.attributes = u, !.taken = taken]
      BY <1>10 DEF DrawFrameComplete, p, l, u
    <2> HIDE DEF taken
    <2>2. /\ changes' = [plain |-> p, lit |-> l, attributes |-> u, asked |-> changes.asked,
                         taken |-> taken]
          /\ changes'.plain = p /\ changes'.lit = l /\ changes'.attributes = u
      BY <2>1 DEF ChangeTypes
    <2>3. /\ l \in Tallies(Lit, Bytes) /\ l.previous = changes.lit.frame
          /\ \A s \in Lit : l.frame[s] = <<>>
      BY Comparing DEF ChangeTypes, l
    <2>4. /\ u \in Tallies(Pairs, Hashes) /\ u.previous = changes.attributes.frame
          /\ \A s \in Lit, a \in Attributes : u.frame[<<s, a>>] = <<>>
      BY Comparing DEF ChangeTypes, u, Pairs
    <2>5. ChangeTypes'
      BY <1>2, <1>4, <1>6, <1>8, <2>2, <2>3, <2>4 DEF ChangeTypes
    <2>6. \A s \in Plain : /\ TalliedIn(drawn'.now, changes'.plain.frame[s], s)
                           /\ TalliedIn(drawn'.before, changes'.plain.previous[s], s)
      BY <1>4, <1>6, <2>2, NothingTallied
    <2>7. drawn.whole => CensusHasFrames'
      BY <1>2, <1>6, <1>10, <2>2, <2>3, NothingTallied DEF CensusHasFrames
    <2>8. \A s \in Lit, a \in Attributes :
             /\ ByAttribute(changes'.attributes.frame[<<s, a>>], changes'.lit.frame[s], a)
             /\ ByAttribute(changes'.attributes.previous[<<s, a>>], changes'.lit.previous[s], a)
      <3>1. \A a : ByAttribute(<<>>, <<>>, a)
        BY DEF ByAttribute
      <3> QED BY <2>2, <2>3, <2>4, <3>1
    <2>9. PlainIsExact'
      BY <1>5, <1>6, <2>2 DEF PlainIsExact
    <2>10. AttributesAgree'
      <3> SUFFICES ASSUME NEW s \in Lit, NEW a \in Attributes
                   PROVE LET whole == l.counts[s] one == u.counts[<<s, a>>]
                         IN /\ one.draws = whole.draws /\ one.compared = whole.compared
                            /\ one.changed <= whole.changed
        BY <2>2 DEF AttributesAgree
      <3> DEFINE k == <<s, a>>
                 whole == changes.lit.counts[s]
                 one == changes.attributes.counts[k]
                 freshWhole == Fresh(changes.lit.frame[s], changes.lit.previous[s])
                 freshOne == Fresh(changes.attributes.frame[k], changes.attributes.previous[k])
      <3>1. k \in Pairs
        BY DEF Pairs
      <3>2. /\ one \in TallyCounts /\ whole \in TallyCounts
            /\ changes.lit.frame[s] \in Seq(Bytes) /\ changes.lit.previous[s] \in Seq(Bytes)
            /\ changes.attributes.frame[k] \in Seq(Hashes)
            /\ changes.attributes.previous[k] \in Seq(Hashes)
        BY <3>1 DEF ChangeTypes, Tallies
      <3>3. one.draws = whole.draws /\ one.compared = whole.compared /\ one.changed <= whole.changed
        BY DEF AttributesAgree, ChangesAreCounted
      <3>4. /\ Len(changes.attributes.frame[k]) = Len(changes.lit.frame[s])
            /\ changes.attributes.previous[k] = <<>> <=> changes.lit.previous[s] = <<>>
            /\ Cardinality(freshOne) <= Cardinality(freshWhole)
        <4> DEFINE ones == changes.attributes.frame[k]
                   onesBefore == changes.attributes.previous[k]
                   alls == changes.lit.frame[s]
                   allsBefore == changes.lit.previous[s]
        <4>1. /\ ones \in Seq(Hashes) /\ onesBefore \in Seq(Hashes)
              /\ alls \in Seq(Bytes) /\ allsBefore \in Seq(Bytes)
          BY <3>2
        <4>2. ByAttribute(ones, alls, a) /\ ByAttribute(onesBefore, allsBefore, a)
          BY DEF ChangesInv
        <4> HIDE DEF ones, onesBefore, alls, allsBefore
        <4>3. /\ Len(ones) = Len(alls) /\ (onesBefore = <<>> <=> allsBefore = <<>>)
              /\ Cardinality(Fresh(ones, onesBefore)) <= Cardinality(Fresh(alls, allsBefore))
          BY <4>1, <4>2, FreshByAttribute
        <4> QED BY <4>3 DEF ones, onesBefore, alls, allsBefore
      <3>5. /\ Len(changes.lit.frame[s]) \in Nat /\ Cardinality(freshWhole) \in Nat
            /\ Cardinality(freshOne) \in Nat
        BY <3>2, FreshIsCounted
      <3>6. /\ changes.lit.previous[s] = <<>> => l.counts[s] = whole
            /\ changes.lit.previous[s] # <<>> =>
                 /\ l.counts[s].draws = whole.draws
                 /\ l.counts[s].compared = whole.compared + Len(changes.lit.frame[s])
                 /\ l.counts[s].changed = whole.changed + Cardinality(freshWhole)
        BY Comparing DEF ChangeTypes, l
      <3>7. /\ changes.attributes.previous[k] = <<>> => u.counts[k] = one
            /\ changes.attributes.previous[k] # <<>> =>
                 /\ u.counts[k].draws = one.draws
                 /\ u.counts[k].compared = one.compared + Len(changes.attributes.frame[k])
                 /\ u.counts[k].changed = one.changed + Cardinality(freshOne)
        BY <3>1, Comparing DEF ChangeTypes, u
      <3> HIDE DEF k, whole, one, freshWhole, freshOne
      <3>8. CASE changes.lit.previous[s] = <<>>
        <4>1. l.counts[s] = whole /\ u.counts[k] = one
          BY <3>4, <3>6, <3>7, <3>8
        <4> QED BY <3>3, <4>1 DEF k
      <3>9. CASE changes.lit.previous[s] # <<>>
        <4>1. changes.attributes.previous[k] # <<>>
          BY <3>4, <3>9
        <4>2. /\ l.counts[s].draws = whole.draws
              /\ l.counts[s].compared = whole.compared + Len(changes.lit.frame[s])
              /\ l.counts[s].changed = whole.changed + Cardinality(freshWhole)
          BY <3>6, <3>9
        <4>4. /\ u.counts[k].draws = one.draws
              /\ u.counts[k].compared = one.compared + Len(changes.lit.frame[s])
              /\ u.counts[k].changed = one.changed + Cardinality(freshOne)
          BY <3>4, <3>7, <4>1
        <4>3. one.changed \in Nat /\ whole.changed \in Nat
          BY <3>2 DEF TallyCounts
        <4> QED BY <3>3, <3>4, <3>5, <4>2, <4>3, <4>4 DEF k
      <3> QED BY <3>8, <3>9
    <2>11. ASSUME drawn.whole PROVE CensusComparesFrames'
      <3> SUFFICES ASSUME NEW s \in Lit
                   PROVE /\ l.counts[s].compared = counts[s].compared
                         /\ l.counts[s].changed = counts[s].changed
        BY <1>6, <2>2 DEF CensusComparesFrames
      <3>1. s \in Shaders /\ counts[s] = CountedTo(s)
        BY <1>3 DEF Shaders
      <3>2. /\ changes.lit.counts[s].compared = drawn.counts[s].compared
            /\ changes.lit.counts[s].changed = drawn.counts[s].changed
        BY <2>11 DEF ChangesAreCounted, CensusComparesFrames
      <3>3. CASE drawn.first = drawn.frame
        <4>1. CountedTo(s) = drawn.counts[s]
          BY <3>1, <3>3, CountedToIs
        <4>2. l.counts[s] = changes.lit.counts[s]
          BY <1>10, <2>11, <3>3, Comparing DEF ChangeTypes, CensusHasFrames, l
        <4> QED BY <3>1, <3>2, <4>1, <4>2
      <3>4. CASE drawn.first # drawn.frame
        <4>1. /\ TalliedIn(drawn.now, changes.lit.frame[s], s)
              /\ TalliedIn(drawn.before, changes.lit.previous[s], s)
          BY <1>10, <2>11, <3>4 DEF CensusHasFrames
        <4>2. /\ l.counts[s].compared = CountedTo(s).compared
              /\ l.counts[s].changed = CountedTo(s).changed
          BY <1>10, <3>1, <3>2, <3>4, <4>1, ComparedIsCounted DEF ChangeTypes, l
        <4> QED BY <3>1, <4>2
      <3> QED BY <3>3, <3>4
    <2>12. ChangesAreCounted'
      BY <1>7, <2>9, <2>10, <2>11 DEF ChangesAreCounted
    <2> QED BY <1>7, <2>5, <2>6, <2>7, <2>8, <2>12
  <1> QED BY <1>9, <1>10

\* Draws, frames and requests keep what the tallies and the census have of the frames.
LEMMA ChangesKeep == ChangesInv /\ [ChangesNext]_changeVars => ChangesInv'
  <1>1. ChangesInv /\ UNCHANGED changeVars => ChangesInv'
    BY DEF changeVars, ChangesInv, ChangeTypes, CensusHasFrames, InCensus,
           ChangesAreCounted, PlainIsExact, AttributesAgree, CensusComparesFrames
  <1> QED BY <1>1, OnDrawKeeps, FrameKeepsChanges, RequestKeeps DEF ChangesNext, Shaders

-----------------------------------------------------------------------------
(* The requests together: each has state of its own, which no other touches. *)

ReqInv == PadInv /\ GrantInv /\ ChoiceInv /\ IInv /\ ChangesInv

\* A step of one request is a step of its own, and leaves the others' state alone.
LEMMA StepsAreSteps ==
  ASSUME [Next]_vars
  PROVE  /\ [InputNext]_inputVars /\ [GrantNext]_grantVars /\ [ChoiceNext]_choiceVars
         /\ [WarpNext]_warpVars /\ [ChangesNext]_changeVars
  BY DEF Next, Moves, vars

\* The pad, the item, the block of code, the stage request and the census stay as their
\* invariants say,
\* for every number of requests, of the title's changes and of the reads of its pad.
THEOREM InductiveInvariant == Spec => []ReqInv
  <1>1. Init => ReqInv
    BY PadBegins, GrantBegins, ChoiceBegins, InitHolds, ChangesBegin DEF Init, ReqInv
  <1>2. ReqInv /\ [Next]_vars => ReqInv'
    BY StepsAreSteps, PadKeeps, GrantKeeps, ChoiceKeeps, WarpKeeps, ChangesKeep DEF ReqInv
  <1> QED BY <1>1, <1>2, PTL DEF Spec

\* What a request writes into the running title is never acted on half written: the stage
\* request the play scene sees is one asker's, an item's button has the item, the block of
\* code is run only when it is all there and leaves Display as it was entered.
THEOREM GuestSeesWhole == Spec => []GuestSeesItWhole
  <1>1. ReqInv => GuestSeesItWhole
    BY GivenHolds DEF ReqInv, ChoiceInv, IInv, GuestSeesItWhole
  <1> QED BY <1>1, InductiveInvariant, PTL

\* A press lasts the reads it was asked for and is let go after them, and a pad handed back
\* to the player stays so until something is asked of it.
THEOREM PadAsAsked == Spec => []PadIsAsAsked
  <1>1. ReqInv => PadIsAsAsked
    BY DEF ReqInv, PadInv, PadIsAsAsked
  <1> QED BY <1>1, InductiveInvariant, PTL

\* The tallies count what the title drew and rewrote: those of the shaders without uniforms since
\* the start, a census asked for between two frames from then on, by attribute as by the whole.
THEOREM ChangesCounted == Spec => []ChangesAreCounted
  <1>1. ReqInv => ChangesAreCounted
    BY DEF ReqInv, ChangesInv
  <1> QED BY <1>1, InductiveInvariant, PTL
=============================================================================
