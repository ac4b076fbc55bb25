------------------------------ MODULE ToolsProofs ------------------------------
(***************************************************************************)
(* What the runtime tells a tool of the guest and of its frames, for any    *)
(* number of frames, of draws, of presents and of requests: the recordings, *)
(* the snapshot of them and its framing for the wire, the shapes kept, the  *)
(* pacing of presents and its summary, the images captured, and what is     *)
(* read of the guest's memory.                                              *)
(***************************************************************************)
EXTENDS MCRequests, NaturalsInduction, WellFoundedInduction, SequenceTheorems, FiniteSetTheorems, TLAPS

(* Naturals, least naturals and functions defined step by step, by induction *)
(* on the naturals: a well-founded order has a least element of every set.   *)

\* A set of naturals with 0 and with every successor is all of them.
LEMMA NaturalsByOne ==
  ASSUME NEW S \in SUBSET Nat, 0 \in S, \A n \in S : n + 1 \in S
  PROVE  S = Nat
  <1> DEFINE T == Nat \ S
             less == OpToRel(<, Nat)
  <1>1. IsWellFoundedOn(less, Nat)
    BY NatLessThanWellFounded
  <1>2. ASSUME T # {} PROVE FALSE
    <2>1. PICK x \in T : \A y \in T : ~ (<<y, x>> \in less)
      BY <1>1, <1>2, WFMin
    <2>2. x \in Nat /\ x - 1 \in T
      OBVIOUS
    <2>3. <<x - 1, x>> \in less
      BY <2>2 DEF OpToRel
    <2> QED BY <2>1, <2>2, <2>3
  <1> QED BY <1>2

\* The least of the naturals of a set.
LEMMA LeastNatural ==
  ASSUME NEW S \in SUBSET Nat, S # {}
  PROVE  \E least \in S : \A n \in S : least <= n
  <1> DEFINE less == OpToRel(<, Nat)
  <1>1. PICK x \in S : \A y \in S : ~ (<<y, x>> \in less)
    BY NatLessThanWellFounded, WFMin
  <1>2. ASSUME NEW y \in S, y < x PROVE <<y, x>> \in less
    <2>1. y \in Nat /\ x \in Nat
      OBVIOUS
    <2> QED BY <1>2, <2>1 DEF OpToRel
  <1> HIDE DEF less
  <1>3. ASSUME NEW y \in S PROVE x <= y
    <2>1. ~(y < x) /\ y \in Nat /\ x \in Nat
      BY <1>1, <1>2
    <2> QED BY <2>1
  <1> QED BY <1>3

\* From a start, a step taken n times over.
Steps(f, start, step, n) ==
  f = [i \in 0..n |-> f[i]] /\ f[0] = start /\ \A i \in 1..n : f[i] = step[<<i, f[i - 1]>>]

\* As many steps can be taken as are asked for, from where one starts.
LEMMA StepsTaken ==
  ASSUME NEW X, NEW start \in X, NEW step \in [Nat \X X -> X], NEW n \in Nat
  PROVE  \E f : Steps(f, start, step, n) /\ \A i \in 0..n : f[i] \in X
  <1> DEFINE Goes(m, f) == /\ f \in [0..m -> X] /\ f[0] = start
                            /\ \A i \in 1..m : f[i] = step[<<i, f[i - 1]>>]
             S == {m \in Nat : \E f : Goes(m, f)}
  <1>1. 0 \in S
    <2>1. Goes(0, [i \in 0..0 |-> start])
      OBVIOUS
    <2> QED BY <2>1
  <1>2. ASSUME NEW m \in S PROVE m + 1 \in S
    <2>1. PICK f : Goes(m, f)
      OBVIOUS
    <2> DEFINE g == [i \in 0..m + 1 |-> IF i = m + 1 THEN step[<<i, f[m]>>] ELSE f[i]]
    <2>2. step[<<m + 1, f[m]>>] \in X
      <3>1. m \in 0..m /\ <<m + 1, f[m]>> \in Nat \X X
        BY <2>1
      <3> QED BY <3>1
    <2>3. g \in [0..m + 1 -> X] /\ g[0] = start
      BY <2>1, <2>2
    <2>4. ASSUME NEW i \in 1..m + 1 PROVE g[i] = step[<<i, g[i - 1]>>]
      <3>1. i \in 0..m + 1 /\ i - 1 \in 0..m + 1 /\ i - 1 # m + 1 /\ g[i - 1] = f[i - 1]
        OBVIOUS
      <3>2. CASE i = m + 1
        BY <3>1, <3>2
      <3>3. CASE i # m + 1
        BY <2>1, <3>1, <3>3
      <3> QED BY <3>2, <3>3
    <2>5. Goes(m + 1, g)
      BY <2>3, <2>4
    <2>6. m + 1 \in Nat
      OBVIOUS
    <2> HIDE DEF Goes, g
    <2> QED BY <2>5, <2>6
  <1>3. S = Nat
    <2> HIDE DEF Goes
    <2> QED BY <1>1, <1>2, NaturalsByOne
  <1>4. \E f : Goes(n, f)
    BY <1>3
  <1> QED BY <1>4 DEF Steps

\* Two that start alike and go on alike from alike are the same.
LEMMA StepByStep ==
  ASSUME NEW n \in Nat, NEW f, NEW g, f[0] = g[0],
         \A i \in 1..n : f[i - 1] = g[i - 1] => f[i] = g[i]
  PROVE  \A i \in 0..n : f[i] = g[i]
  <1> DEFINE S == {i \in Nat : i <= n => f[i] = g[i]}
  <1>1. 0 \in S
    OBVIOUS
  <1>2. ASSUME NEW i \in S PROVE i + 1 \in S
    <2>1. CASE i + 1 <= n
      <3>1. i + 1 \in 1..n /\ (i + 1) - 1 = i /\ f[i] = g[i]
        BY <2>1
      <3> QED BY <3>1
    <2>2. CASE ~(i + 1 <= n)
      BY <2>2
    <2> QED BY <2>1, <2>2
  <1>3. S = Nat
    <2> HIDE DEF S
    <2> QED BY <1>1, <1>2, NaturalsByOne DEF S
  <1> QED BY <1>3

-----------------------------------------------------------------------------
(* What the guest's memory answers.                                         *)

Links == {1, 2}
Walks == [frame : Frames \cup {Frame0}, chain : Seq(Links), ended : BOOLEAN]

ReadsInv ==
  /\ guest.stack \in [Frames -> FrameWords]
  /\ ChainIsBackChain /\ BytesAreTheRange /\ NameIsFree

\* The frame n callers up is the caller of the one below it.
LEMMA UpByOne ==
  ASSUME guest.stack \in [Frames -> FrameWords], NEW frame \in Frames \cup {Frame0}
  PROVE  /\ Up(frame, 0) = frame
         /\ \A n \in Nat : /\ Up(frame, n) \in Frames \cup {Frame0}
                           /\ Up(frame, n + 1) = IF Mapped(Up(frame, n))
                                                 THEN guest.stack[Up(frame, n)][1] ELSE Frame0
  <1> DEFINE X == Frames \cup {Frame0}
             over(f) == IF Mapped(f) THEN guest.stack[f][1] ELSE Frame0
             Def(n, h) == [i \in 0..n |-> IF i = 0 THEN frame ELSE over(h[i - 1])]
             up(n) == CHOOSE h : h = Def(n, h)
             step == [s \in Nat \X X |-> over(s[2])]
  <1>1. \A f \in X : over(f) \in X
    BY DEF Mapped, FrameWords, Unmapped
  <1>2. step \in [Nat \X X -> X]
    BY <1>1
  <1>3. ASSUME NEW n \in Nat
        PROVE  /\ up(n) = Def(n, up(n)) /\ up(n) \in [0..n -> X] /\ Up(frame, n) = up(n)[n]
               /\ up(n)[0] = frame /\ \A i \in 1..n : up(n)[i] = over(up(n)[i - 1])
    <2> HIDE DEF over
    <2>1. PICK g : Steps(g, frame, step, n) /\ \A i \in 0..n : g[i] \in X
      <3> HIDE DEF step
      <3> QED BY <1>2, StepsTaken
    <2>2. \A i \in 1..n : g[i] = over(g[i - 1])
      <3>1. \A i \in 1..n : i \in Nat /\ i - 1 \in 0..n /\ g[i - 1] \in X
        BY <2>1
      <3> QED BY <2>1, <3>1 DEF Steps
    <2>3. g = Def(n, g)
      <3>1. g = [i \in 0..n |-> g[i]] /\ g[0] = frame
        BY <2>1 DEF Steps
      <3>2. \A i \in 0..n : g[i] = IF i = 0 THEN frame ELSE over(g[i - 1])
        <4>1. \A i \in 0..n : i = 0 \/ i \in 1..n
          OBVIOUS
        <4>2. g[0] = frame
          BY <2>1 DEF Steps
        <4> QED BY <2>2, <4>1, <4>2
      <3>3. [i \in 0..n |-> g[i]] = Def(n, g)
        BY <3>2
      <3> QED BY <3>1, <3>3
    <2>4. up(n) = Def(n, up(n))
      BY <2>3
    <2>5. Up(frame, n) = up(n)[n]
      BY DEF Up, over
    <2> HIDE DEF up
    <2>6. up(n)[0] = frame /\ \A i \in 1..n : up(n)[i] = over(up(n)[i - 1])
      BY <2>4
    <2>7. \A i \in 0..n : up(n)[i] = g[i]
      <3>1. g[0] = frame
        BY <2>3
      <3>2. \A i \in 1..n : up(n)[i - 1] = g[i - 1] => up(n)[i] = g[i]
        BY <2>2, <2>6
      <3>3. up(n)[0] = g[0]
        BY <2>6, <3>1
      <3> QED BY <3>2, <3>3, StepByStep
    <2>8. up(n) \in [0..n -> X]
      BY <2>1, <2>4, <2>7
    <2> QED BY <2>4, <2>5, <2>6, <2>8
  <1> HIDE DEF over, up, Def
  <1>4. ASSUME NEW n \in Nat PROVE Up(frame, n + 1) = over(Up(frame, n))
    <2>1. /\ up(n)[0] = frame /\ \A i \in 1..n : up(n)[i] = over(up(n)[i - 1])
          /\ up(n + 1)[0] = frame /\ \A i \in 1..n + 1 : up(n + 1)[i] = over(up(n + 1)[i - 1])
          /\ Up(frame, n) = up(n)[n] /\ Up(frame, n + 1) = up(n + 1)[n + 1]
      BY <1>3
    <2>2. \A i \in 0..n : up(n)[i] = up(n + 1)[i]
      <3>1. \A i \in 1..n : up(n)[i - 1] = up(n + 1)[i - 1] => up(n)[i] = up(n + 1)[i]
        BY <2>1
      <3> QED BY <2>1, <3>1, StepByStep
    <2>3. up(n + 1)[n + 1] = over(up(n + 1)[n])
      <3>1. n + 1 \in 1..n + 1 /\ (n + 1) - 1 = n
        OBVIOUS
      <3> QED BY <2>1, <3>1
    <2>4. n \in 0..n
      OBVIOUS
    <2> QED BY <2>1, <2>2, <2>3, <2>4
  <1>5. Up(frame, 0) = frame
    BY <1>3
  <1>6. \A n \in Nat : Up(frame, n) \in X
    <2>1. \A n \in Nat : n \in 0..n
      OBVIOUS
    <2> QED BY <1>3, <2>1
  <1> QED BY <1>4, <1>5, <1>6 DEF over

\* A walk has the links of the callers that read, as far up as all of them do.
LEMMA ChainIsOfCallers ==
  ASSUME guest.stack \in [Frames -> FrameWords], NEW frame \in Frames \cup {Frame0},
         NEW from \in Links
  PROVE  LET chain == ChainOf(frame, from)
         IN /\ chain[1] = from
            /\ \A d \in 2..ChainDepth :
                 chain[d] = IF \A n \in 0..d - 1 : Mapped(Up(frame, n))
                            THEN guest.stack[Up(frame, d - 1)][2] ELSE 0
  <1> DEFINE last == ChainDepth - 1
             start == [frame |-> frame, chain |-> <<from>>, ended |-> FALSE]
             Def(h) == [i \in 0..last |-> IF i = 0 THEN start ELSE NextLink(h[i - 1])]
             walk == CHOOSE h : h = Def(h)
             step == [s \in Nat \X Walks |-> NextLink(s[2])]
             AllRead(d) == \A n \in 0..d - 1 : Mapped(Up(frame, n))
             Link(d) == IF d = 1 THEN from ELSE guest.stack[Up(frame, d - 1)][2]
  <1>1. \A f : Mapped(f) => /\ f \in Frames /\ guest.stack[f][1] \in Frames \cup {Frame0}
                             /\ guest.stack[f][2] \in Links
    BY DEF Mapped, FrameWords, Unmapped, Links
  <1>2. last \in Nat
    BY ReadsAreBounded
  <1>3. \A at \in Walks : NextLink(at) \in Walks
    <2> SUFFICES ASSUME NEW at \in Walks PROVE NextLink(at) \in Walks
      OBVIOUS
    <2>1. CASE at.ended
      BY <2>1 DEF NextLink, Walks
    <2>2. CASE ~at.ended
      <3> DEFINE back == guest.stack[at.frame][1]
      <3>1. CASE Mapped(at.frame) /\ Mapped(back)
        <4>1. NextLink(at) = [frame |-> back, chain |-> Append(at.chain, guest.stack[back][2]),
                              ended |-> FALSE]
          BY <2>2, <3>1 DEF NextLink
        <4>2. Append(at.chain, guest.stack[back][2]) \in Seq(Links)
          BY <1>1, <3>1, AppendProperties DEF Walks
        <4> HIDE DEF back
        <4> QED BY <1>1, <3>1, <4>1, <4>2 DEF Walks
      <3>2. CASE ~(Mapped(at.frame) /\ Mapped(back))
        <4>1. NextLink(at) = [at EXCEPT !.ended = TRUE]
          BY <2>2, <3>2 DEF NextLink
        <4> QED BY <4>1 DEF Walks
      <3> QED BY <3>1, <3>2
    <2> QED BY <2>1, <2>2
  <1>4. start \in Walks
    BY DEF Walks, Links
  <1>5. walk = Def(walk)
    <2>1. step \in [Nat \X Walks -> Walks]
      BY <1>3
    <2>2. PICK g : Steps(g, start, step, last) /\ \A i \in 0..last : g[i] \in Walks
      <3> HIDE DEF step, start, last
      <3> QED BY <1>2, <1>4, <2>1, StepsTaken
    <2>3. \A i \in 1..last : g[i] = NextLink(g[i - 1])
      <3>1. \A i \in 1..last : i \in Nat /\ i - 1 \in 0..last /\ g[i - 1] \in Walks
        BY <1>2, <2>2
      <3> QED BY <2>2, <3>1 DEF Steps
    <2>4. g = Def(g)
      <3> HIDE DEF start
      <3>1. g = [i \in 0..last |-> g[i]] /\ g[0] = start
        BY <2>2 DEF Steps
      <3>2. \A i \in 0..last : g[i] = IF i = 0 THEN start ELSE NextLink(g[i - 1])
        <4>1. \A i \in 0..last : i = 0 \/ i \in 1..last
          BY <1>2
        <4>2. g[0] = start
          BY <2>2 DEF Steps
        <4> QED BY <2>3, <4>1, <4>2
      <3>3. [i \in 0..last |-> g[i]] = Def(g)
        BY <3>2
      <3> QED BY <3>1, <3>3
    <2> QED BY <2>4
  <1>6. ChainOf(frame, from) =
          [i \in 1..ChainDepth |-> IF i <= Len(walk[last].chain) THEN walk[last].chain[i] ELSE 0]
    BY DEF ChainOf
  <1> HIDE DEF walk
  <1>7. walk[0] = start /\ \A i \in 1..last : walk[i] = NextLink(walk[i - 1])
    <2> HIDE DEF start
    <2> QED BY <1>2, <1>5
  <1> DEFINE Right(d, at) ==
               /\ at \in Walks /\ 1 <= Len(at.chain)
               /\ ~at.ended => at.frame = Up(frame, d) /\ Len(at.chain) = d + 1
               /\ at.ended => Len(at.chain) <= d /\ ~AllRead(Len(at.chain) + 1)
               /\ \A i \in 1..Len(at.chain) : at.chain[i] = Link(i) /\ (i = 1 \/ AllRead(i))
             S == {d \in Nat : d <= last => Right(d, walk[d])}
  <1>8. Right(0, start)
    <2>1. Len(<<from>>) = 1 /\ <<from>>[1] = from
      OBVIOUS
    <2> HIDE DEF AllRead
    <2> QED BY <1>4, <2>1, UpByOne
  <1>9. ASSUME NEW d \in Nat, NEW at, Right(d, at) PROVE Right(d + 1, NextLink(at))
    <2> DEFINE back == guest.stack[at.frame][1]
    <2>1. at \in Walks /\ NextLink(at) \in Walks
      BY <1>3, <1>9
    <2>2. CASE at.ended
      <3>1. NextLink(at) = at
        BY <2>1, <2>2 DEF NextLink, Walks
      <3>2. Len(at.chain) \in Nat
        BY <2>1, LenProperties DEF Walks
      <3> HIDE DEF AllRead, Link
      <3> QED BY <1>9, <2>2, <3>1, <3>2
    <2>3. CASE ~at.ended /\ Mapped(at.frame) /\ Mapped(back)
      <3>1. NextLink(at) = [frame |-> back, chain |-> Append(at.chain, guest.stack[back][2]),
                            ended |-> FALSE]
        BY <2>3 DEF NextLink
      <3>2. at.frame = Up(frame, d) /\ back = Up(frame, d + 1) /\ Len(at.chain) = d + 1
        <4>1. at.frame = Up(frame, d) /\ Len(at.chain) = d + 1
          BY <1>9, <2>3
        <4>2. Mapped(Up(frame, d)) => Up(frame, d + 1) = guest.stack[Up(frame, d)][1]
          BY UpByOne
        <4> QED BY <2>3, <4>1, <4>2
      <3>3. guest.stack[back][2] \in Links /\ at.chain \in Seq(Links)
        BY <1>1, <2>1, <2>3 DEF Walks
      <3>4. /\ Len(NextLink(at).chain) = d + 2 /\ NextLink(at).chain[d + 2] = guest.stack[back][2]
            /\ \A i \in 1..d + 1 : NextLink(at).chain[i] = at.chain[i]
        BY <3>1, <3>2, <3>3, AppendProperties
      <3>5. AllRead(d + 2)
        <4>1. AllRead(d + 1)
          <5>1. CASE d = 0
            BY <2>3, <3>2, <5>1
          <5>2. CASE d # 0
            <6>1. d + 1 \in 1..Len(at.chain) /\ d + 1 # 1
              BY <3>2, <5>2
            <6> HIDE DEF AllRead
            <6> QED BY <1>9, <6>1
          <5> QED BY <5>1, <5>2
        <4> QED BY <2>3, <3>2, <4>1
      <3>6. guest.stack[back][2] = Link(d + 2)
        BY <3>2
      <3> HIDE DEF AllRead, Link, back
      <3>7. \A i \in 1..d + 2 : NextLink(at).chain[i] = Link(i) /\ (i = 1 \/ AllRead(i))
        <4> SUFFICES ASSUME NEW i \in 1..d + 2
                     PROVE NextLink(at).chain[i] = Link(i) /\ (i = 1 \/ AllRead(i))
          OBVIOUS
        <4>1. CASE i = d + 2
          BY <3>4, <3>5, <3>6, <4>1
        <4>2. CASE i # d + 2
          <5>1. i \in 1..d + 1 /\ i \in 1..Len(at.chain)
            BY <3>2, <4>2
          <5> QED BY <1>9, <3>4, <5>1
        <4> QED BY <4>1, <4>2
      <3> QED BY <2>1, <3>1, <3>2, <3>4, <3>7
    <2>4. CASE ~at.ended /\ ~(Mapped(at.frame) /\ Mapped(back))
      <3>1. NextLink(at) = [at EXCEPT !.ended = TRUE]
        BY <2>4 DEF NextLink
      <3>2. /\ NextLink(at).chain = at.chain /\ NextLink(at).ended /\ Len(at.chain) = d + 1
            /\ at.frame = Up(frame, d)
        BY <1>9, <2>1, <2>4, <3>1 DEF Walks
      <3>3. ~AllRead(d + 2)
        <4>1. Mapped(Up(frame, d)) => Up(frame, d + 1) = back
          BY <3>2, UpByOne
        <4>2. d \in 0..(d + 2) - 1 /\ d + 1 \in 0..(d + 2) - 1
          OBVIOUS
        <4> QED BY <2>4, <3>2, <4>1, <4>2
      <3> HIDE DEF AllRead, Link, back
      <3> QED BY <1>9, <2>1, <3>2, <3>3
    <2> QED BY <2>2, <2>3, <2>4
  <1>10. S = Nat
    <2> HIDE DEF Right
    <2>1. 0 \in S
      BY <1>7, <1>8
    <2>2. ASSUME NEW d \in S PROVE d + 1 \in S
      <3>1. CASE d + 1 <= last
        <4>1. d + 1 \in 1..last /\ (d + 1) - 1 = d /\ Right(d, walk[d]) /\ d \in Nat
          BY <1>2, <3>1
        <4>2. walk[d + 1] = NextLink(walk[d])
          BY <1>7, <4>1
        <4> QED BY <1>9, <4>1, <4>2
      <3>2. CASE ~(d + 1 <= last)
        BY <3>2
      <3> QED BY <3>1, <3>2
    <2> HIDE DEF S
    <2> QED BY <2>1, <2>2, NaturalsByOne DEF S
  <1>11. Right(last, walk[last])
    <2> HIDE DEF Right
    <2> QED BY <1>2, <1>10
  <1> DEFINE at == walk[last]
  <1>12. /\ Len(at.chain) \in Nat /\ 1 <= Len(at.chain) /\ Len(at.chain) <= ChainDepth
         /\ at.ended \/ Len(at.chain) = ChainDepth
         /\ \A i \in 1..Len(at.chain) : at.chain[i] = Link(i) /\ (i = 1 \/ AllRead(i))
         /\ at.ended => ~AllRead(Len(at.chain) + 1)
    <2>1. Len(at.chain) \in Nat
      BY <1>11, LenProperties DEF Walks
    <2>2. /\ 1 <= Len(at.chain) /\ (~at.ended => Len(at.chain) = last + 1)
          /\ at.ended => Len(at.chain) <= last /\ ~AllRead(Len(at.chain) + 1)
          /\ \A i \in 1..Len(at.chain) : at.chain[i] = Link(i) /\ (i = 1 \/ AllRead(i))
      BY <1>11
    <2>3. last + 1 = ChainDepth /\ last \in Nat /\ ChainDepth \in Nat
      BY ReadsAreBounded
    <2> HIDE DEF AllRead, Link, at, last, Right
    <2> QED BY <2>1, <2>2, <2>3
  <1> HIDE DEF at, Right, S
  <1>13. ChainOf(frame, from) = [i \in 1..ChainDepth |-> IF i <= Len(at.chain) THEN at.chain[i] ELSE 0]
    BY <1>6 DEF at
  <1>14. ChainOf(frame, from)[1] = from
    <2> HIDE DEF AllRead
    <2> QED BY <1>12, <1>13, ReadsAreBounded
  <1>15. ASSUME NEW d \in 2..ChainDepth
         PROVE ChainOf(frame, from)[d] = IF AllRead(d) THEN guest.stack[Up(frame, d - 1)][2] ELSE 0
    <2>1. CASE d <= Len(at.chain)
      <3> HIDE DEF AllRead
      <3> QED BY <1>12, <1>13, <2>1, ReadsAreBounded
    <2>2. CASE ~(d <= Len(at.chain))
      <3>1. Len(at.chain) + 1 <= d /\ at.ended
        BY <1>12, <2>2, ReadsAreBounded
      <3>2. ~AllRead(d)
        <4>1. ~AllRead(Len(at.chain) + 1)
          BY <1>12, <3>1
        <4> QED BY <1>12, <3>1, <4>1
      <3>3. ChainOf(frame, from)[d] = 0
        BY <1>13, <2>2
      <3> QED BY <3>2, <3>3
    <2> QED BY <2>1, <2>2
  <1> QED BY <1>14, <1>15

\* Nothing is answered at first, whatever is in the guest's memory.
LEMMA ReadsBegin ==
  ASSUME guest.stack \in [Frames -> FrameWords], answer = [of |-> "none"]
  PROVE  ReadsInv
  BY DEF ReadsInv, ChainIsBackChain, BytesAreTheRange, NameIsFree

\* A call answered with its chain of callers.
LEMMA ChainAnswered ==
  ASSUME ReadsInv, NEW frame \in Frames \cup {Frame0}, NEW from \in Links, OnGuestCall(frame, from)
  PROVE  ReadsInv'
  <1> DEFINE chain == ChainOf(frame, from)
  <1>1. guest.stack \in [Frames -> FrameWords] /\ guest' = guest
    BY DEF ReadsInv, OnGuestCall
  <1>2. answer' = [of |-> "chain", frame |-> frame, from |-> from, chain |-> chain]
    BY DEF OnGuestCall
  <1>3. /\ chain[1] = from
        /\ \A d \in 2..ChainDepth :
             chain[d] = IF \A n \in 0..d - 1 : Mapped(Up(frame, n))
                        THEN guest.stack[Up(frame, d - 1)][2] ELSE 0
    BY <1>1, ChainIsOfCallers
  <1> HIDE DEF chain
  <1>4. ChainIsBackChain'
    <2>1. /\ answer'.of = "chain" /\ answer'.frame = frame /\ answer'.from = from
          /\ answer'.chain = chain
      BY <1>2
    <2>2. ASSUME NEW f, NEW n PROVE Up(f, n) = Up(f, n)' /\ (Mapped(f) <=> Mapped(f)')
      BY <1>1 DEF Up, Mapped
    <2>3. \A d \in 2..ChainDepth :
            answer'.chain[d] = IF \A n \in 0..d - 1 : Mapped(Up(frame, n))'
                               THEN guest'.stack[Up(frame, d - 1)'][2] ELSE 0
      BY <1>1, <1>3, <2>1, <2>2 DEF Mapped
    <2>4. ASSUME NEW f, answer'.frame = f PROVE f = frame
      BY <2>1, <2>4
    <2> QED BY <2>1, <1>3, <2>3, <2>4 DEF ChainIsBackChain
  <1> QED BY <1>1, <1>2, <1>4 DEF ReadsInv, BytesAreTheRange, NameIsFree

\* A range of memory answered or refused.
LEMMA RangeAnswered ==
  ASSUME ReadsInv, NEW address \in 0..Addresses - 1, NEW size, GetMemory(address, size)
  PROVE  ReadsInv'
  <1> DEFINE bytes == {(address + i) % Addresses : i \in 0..size - 1}
  <1>1. guest' = guest
    BY DEF GetMemory
  <1>2. CASE answer' = [of |-> "refused"]
    BY <1>1, <1>2 DEF ReadsInv, ChainIsBackChain, BytesAreTheRange, NameIsFree
  <1>3. CASE /\ Parses(address, size) /\ GuestBytes(address, size)
             /\ answer' = [of |-> "bytes", bytes |-> bytes, first |-> address, size |-> size]
    <2>1. /\ size \in Nat /\ size >= 1 /\ address \in Nat /\ Addresses \in Nat \ {0}
          /\ address + size < Addresses
      BY <1>3, ReadsAreBounded DEF Parses
    <2>2. \A i \in 0..size - 1 : (address + i) % Addresses = address + i
      <3>1. \A m \in Nat \ {0}, a \in Nat : a < m => a % m = a
        OBVIOUS
      <3> QED BY <2>1, <3>1
    <2>3. bytes = {address + i : i \in 0..size - 1}
      BY <2>2
    <2>4. bytes = address .. (address + size - 1)
      <3>1. \A b \in address .. (address + size - 1) : b - address \in 0..size - 1 /\ b = address + (b - address)
        BY <2>1
      <3>2. \A i \in 0..size - 1 : address + i \in address .. (address + size - 1)
        BY <2>1
      <3> HIDE DEF bytes
      <3> QED BY <2>3, <3>1, <3>2
    <2>5. bytes \subseteq guest.mapped
      BY <1>3 DEF GuestBytes
    <2> HIDE DEF bytes
    <2>6. Cardinality(bytes) = size
      BY <2>1, <2>4, FS_Interval
    <2>7. bytes = {b \in 0..Addresses - 1 : address <= b /\ b < address + size}
      BY <2>1, <2>4
    <2>8. /\ answer'.of = "bytes" /\ answer'.bytes = bytes /\ answer'.first = address
          /\ answer'.size = size
      BY <1>3
    <2>9. BytesAreTheRange'
      BY <1>1, <2>5, <2>6, <2>7, <2>8 DEF BytesAreTheRange
    <2> QED BY <1>1, <2>8, <2>9 DEF ReadsInv, ChainIsBackChain, NameIsFree
  <1> QED BY <1>2, <1>3 DEF GetMemory

\* The first choice no quest log has is there when they do not have them all.
LEMMA ChoosesFree ==
  ASSUME NEW logs, Taken(logs, Choose(logs)), NEW i \in DOMAIN KeyboardNames
  PROVE  Taken(logs, KeyboardNames[i])
  <1> SUFFICES ASSUME ~ Taken(logs, KeyboardNames[i]) PROVE FALSE
    OBVIOUS
  <1> DEFINE free == {j \in DOMAIN KeyboardNames : ~ Taken(logs, KeyboardNames[j])}
             First(j) == /\ ~ Taken(logs, KeyboardNames[j])
                         /\ \A k \in 1..j - 1 : Taken(logs, KeyboardNames[k])
  <1>1. /\ KeyboardNames \in Seq({Names[j] : j \in DOMAIN Names})
        /\ DOMAIN KeyboardNames = 1..Len(KeyboardNames) /\ Len(KeyboardNames) \in Nat
    <2>1. KeyboardNames \in Seq({Names[j] : j \in DOMAIN Names})
      BY ThereAreChoices, SubSeqProperties DEF KeyboardNames
    <2> QED BY <2>1, LenProperties
  <1>2. PICK least \in free : \A j \in free : least <= j
    <2>1. free \in SUBSET Nat /\ free # {}
      BY <1>1
    <2> HIDE DEF free
    <2> QED BY <2>1, LeastNatural
  <1>3. least \in DOMAIN KeyboardNames /\ First(least)
    <2> SUFFICES ASSUME NEW k \in 1..least - 1 PROVE Taken(logs, KeyboardNames[k])
      BY <1>2
    <2>1. k \in DOMAIN KeyboardNames /\ ~(least <= k)
      BY <1>1, <1>2
    <2> QED BY <1>2, <2>1
  <1>4. Choose(logs) = KeyboardNames[CHOOSE j \in DOMAIN KeyboardNames : First(j)]
    BY DEF Choose
  <1>5. First(CHOOSE j \in DOMAIN KeyboardNames : First(j))
    BY <1>3
  <1> QED BY <1>4, <1>5

\* The keyboard filled with a name.
LEMMA NameAnswered ==
  ASSUME ReadsInv, NEW onNameStage, NEW hasSave, Provide(onNameStage, hasSave)
  PROVE  ReadsInv'
  <1>1. guest' = guest
    BY DEF Provide
  <1>2. NameIsFree'
    <2>1. CASE onNameStage /\ hasSave
      <3>1. answer'.name = Choose(guest.logs) /\ answer'.logs = guest.logs
        BY <2>1 DEF Provide
      <3> QED BY <3>1, ChoosesFree DEF NameIsFree
    <2>2. CASE onNameStage /\ ~ hasSave
      <3>1. answer'.logs = <<>>
        BY <2>2 DEF Provide
      <3>2. \A name : ~ Taken(<<>>, name)
        BY DEF Taken
      <3> QED BY <3>1, <3>2 DEF NameIsFree
    <2>3. CASE ~ onNameStage
      BY <2>3 DEF Provide, NameIsFree
    <2> QED BY <2>1, <2>2, <2>3
  <1>3. answer'.of \in {"name", "no name"}
    BY DEF Provide
  <1> QED BY <1>1, <1>2, <1>3 DEF ReadsInv, ChainIsBackChain, BytesAreTheRange

\* What is answered stays the guest's, whatever is asked and whatever the player saves.
LEMMA ReadsKeep == ReadsInv /\ [ReadsNext]_readVars => ReadsInv'
  <1>1. ASSUME ReadsInv, UNCHANGED readVars PROVE ReadsInv'
    <2>1. guest' = guest /\ answer' = answer
      BY <1>1 DEF readVars
    <2>2. ASSUME NEW f, NEW n PROVE Up(f, n) = Up(f, n)' /\ (Mapped(f) <=> Mapped(f)')
      BY <2>1 DEF Up, Mapped
    <2>3. ChainIsBackChain'
      BY <1>1, <2>1, <2>2 DEF ReadsInv, ChainIsBackChain, Mapped
    <2> QED BY <1>1, <2>1, <2>3 DEF ReadsInv, BytesAreTheRange, NameIsFree
  <1>2. ASSUME ReadsInv, NEW slot, SavesUnderName(slot) PROVE ReadsInv'
    <2>1. answer' = [of |-> "none"] /\ guest' = [guest EXCEPT !.logs[slot] = [inUse |-> TRUE, name |-> answer.name]]
      BY <1>2 DEF SavesUnderName
    <2>2. guest'.stack = guest.stack
      BY <2>1
    <2> QED BY <1>2, <2>1, <2>2 DEF ReadsInv, ChainIsBackChain, BytesAreTheRange, NameIsFree
  <1> QED BY <1>1, <1>2, ChainAnswered, RangeAnswered, NameAnswered DEF ReadsNext, Links

-----------------------------------------------------------------------------
(* The images.                                                              *)

Asked == [first : Nat, count : Nat, next : Nat, from : Nat]
Images == [present : Nat, arm : Nat]

CaptureTypes ==
  /\ captures = [slots |-> captures.slots, requested |-> captures.requested,
                 refused |-> captures.refused, received |-> captures.received]
  /\ captures.slots \in [0..SlotCount - 1 -> Images]
  /\ fork = [armed |-> fork.armed, flights |-> fork.flights, presents |-> fork.presents,
             asked |-> fork.asked]
  /\ fork.asked \in Seq(Asked) /\ fork.presents \in Nat /\ fork.flights \subseteq Images
  /\ fork.armed \in 0..Len(fork.asked)

\* A request is of slots there are, and while it is armed or in flight it has images left.
ArmsHaveRoom ==
  \A a \in 1..Len(fork.asked) :
    LET arm == fork.asked[a]
    IN /\ arm.first + arm.count <= SlotCount /\ arm.from <= fork.presents
       /\ arm.next <= arm.count
       /\ fork.armed = a => arm.next < arm.count
       /\ \A image \in fork.flights : image.arm = a => arm.next < arm.count

\* One image of a request is out at a time: armed for the next present, or in flight.
OneIsOut ==
  \A image \in fork.flights :
    /\ image.arm \in 1..Len(fork.asked) /\ image.arm # fork.armed
    /\ fork.asked[image.arm].from < image.present /\ image.present <= fork.presents
    /\ \A other \in fork.flights : other.arm = image.arm => other = image

\* What landed is in the slots its request has come to, in the order presented, before what is in flight.
LandedInOrder ==
  \A s \in 0..SlotCount - 1 :
    LET image == captures.slots[s]
    IN image # NoImage =>
         /\ image.arm \in 1..Len(fork.asked)
         /\ fork.asked[image.arm].first <= s
         /\ s < fork.asked[image.arm].first + fork.asked[image.arm].next
         /\ fork.asked[image.arm].from < image.present /\ image.present <= fork.presents
         /\ \A other \in fork.flights : other.arm = image.arm => image.present < other.present
         /\ \A t \in 0..s - 1 : captures.slots[t].arm = image.arm =>
                                  captures.slots[t].present < image.present

CaptureInv == CaptureTypes /\ ArmsHaveRoom /\ OneIsOut /\ LandedInOrder

\* No image is asked for at first, and none has landed.
LEMMA CaptureBegins == CaptureInit => CaptureInv
  <1> SUFFICES ASSUME CaptureInit PROVE CaptureInv
    OBVIOUS
  <1>1. CaptureTypes
    BY CapturesAreBounded DEF CaptureInit, CaptureTypes, Images, NoImage, Unarmed
  <1>2. ArmsHaveRoom /\ OneIsOut /\ LandedInOrder
    BY DEF CaptureInit, ArmsHaveRoom, OneIsOut, LandedInOrder
  <1> QED BY <1>1, <1>2 DEF CaptureInv

\* A request taken is armed with its slots, none of which has landed.
LEMMA RequestArms ==
  ASSUME CaptureInv, NEW slot \in Nat, NEW count \in Nat \ {0}, NEW asked, slot + count <= SlotCount,
         Requests(Arm(slot, count), asked)
  PROVE  CaptureInv'
  <1> DEFINE arm == Arm(slot, count)
             n == Len(fork.asked)
  <1>1. /\ CaptureTypes /\ fork.asked \in Seq(Asked) /\ n \in Nat /\ fork.presents \in Nat
        /\ arm \in Asked /\ arm = [first |-> slot, count |-> count, next |-> 0, from |-> fork.presents]
    BY LenProperties DEF CaptureInv, CaptureTypes, Arm, Asked
  <1>2. /\ captures'.slots = captures.slots
        /\ captures' = [slots |-> captures'.slots, requested |-> captures'.requested,
                        refused |-> captures'.refused, received |-> captures'.received]
    BY <1>1 DEF Requests, Counts, CaptureTypes
  <1>3. CASE ~Takes
    <2>1. fork' = fork
      BY <1>3 DEF Requests
    <2> QED BY <1>1, <1>2, <2>1 DEF CaptureInv, CaptureTypes, ArmsHaveRoom, OneIsOut, LandedInOrder
  <1>4. CASE Takes
    <2>1. fork' = [fork EXCEPT !.asked = Append(@, arm), !.armed = n + 1]
      BY <1>4 DEF Requests
    <2> HIDE DEF arm
    <2>2. fork' = [armed |-> n + 1, flights |-> fork.flights, presents |-> fork.presents,
                   asked |-> Append(fork.asked, arm)]
      BY <1>1, <2>1 DEF CaptureTypes
    <2>3. /\ Append(fork.asked, arm) \in Seq(Asked) /\ Len(Append(fork.asked, arm)) = n + 1
          /\ Append(fork.asked, arm)[n + 1] = arm
          /\ \A a \in 1..n : Append(fork.asked, arm)[a] = fork.asked[a]
      BY <1>1, AppendProperties
    <2>4. CaptureTypes'
      BY <1>1, <1>2, <2>2, <2>3 DEF CaptureTypes
    <2>5. /\ \A image \in fork.flights : image.arm \in 1..n
          /\ \A s \in 0..SlotCount - 1 : captures.slots[s] # NoImage => captures.slots[s].arm \in 1..n
          /\ fork.armed = 0
      BY <1>4 DEF CaptureInv, OneIsOut, LandedInOrder, Takes, Unarmed
    <2>6. ArmsHaveRoom'
      <3> SUFFICES ASSUME NEW a \in 1..n + 1
                   PROVE LET it == fork'.asked[a]
                         IN /\ it.first + it.count <= SlotCount /\ it.from <= fork'.presents
                            /\ it.next <= it.count
                            /\ fork'.armed = a => it.next < it.count
                            /\ \A image \in fork'.flights : image.arm = a => it.next < it.count
        BY <2>2, <2>3 DEF ArmsHaveRoom
      <3>1. CASE a = n + 1
        BY <1>1, <2>2, <2>3, <2>5, <3>1
      <3>2. CASE a \in 1..n
        BY <1>1, <2>2, <2>3, <3>2 DEF CaptureInv, ArmsHaveRoom
      <3> QED BY <1>1, <3>1, <3>2
    <2>7. OneIsOut'
      BY <1>1, <2>2, <2>3, <2>5 DEF CaptureInv, OneIsOut
    <2>8. LandedInOrder'
      BY <1>1, <1>2, <2>2, <2>3, <2>5 DEF CaptureInv, LandedInOrder
    <2> QED BY <2>4, <2>6, <2>7, <2>8 DEF CaptureInv
  <1> QED BY <1>3, <1>4

\* A capture asked for, armed or refused.
LEMMA PostCaptureKeeps ==
  ASSUME CaptureInv, NEW slot \in AskedSlots, NEW count \in 1..2, PostCapture(slot, count)
  PROVE  CaptureInv'
  <1>1. slot \in Nat /\ count \in Nat \ {0}
    BY CapturesAreBounded
  <1>2. ASSUME Counts(1, 1), UNCHANGED fork PROVE CaptureInv'
    <2>1. /\ captures'.slots = captures.slots
          /\ captures' = [slots |-> captures'.slots, requested |-> captures'.requested,
                          refused |-> captures'.refused, received |-> captures'.received]
      BY <1>2 DEF Counts, CaptureInv, CaptureTypes
    <2> QED BY <1>2, <2>1 DEF CaptureInv, CaptureTypes, ArmsHaveRoom, OneIsOut, LandedInOrder
  <1>3. CASE count <= 1
    <2>1. count = 1 /\ ArmOnce(slot)
      BY <1>1, <1>3 DEF PostCapture
    <2>2. CASE slot >= SlotCount
      BY <1>2, <2>1, <2>2 DEF ArmOnce
    <2>3. CASE ~(slot >= SlotCount)
      <3>1. slot + 1 <= SlotCount /\ Requests(Arm(slot, 1), 1)
        BY <1>1, <2>1, <2>3, CapturesAreBounded DEF ArmOnce
      <3> QED BY <1>1, <3>1, RequestArms
    <2> QED BY <2>2, <2>3
  <1>4. CASE ~(count <= 1)
    <2>1. ArmRun(slot, count)
      BY <1>4 DEF PostCapture
    <2>2. CASE slot + count > SlotCount
      BY <1>2, <2>1, <2>2 DEF ArmRun
    <2>3. CASE ~(slot + count > SlotCount)
      <3>1. slot + count <= SlotCount /\ Requests(Arm(slot, count), 0)
        BY <1>1, <2>1, <2>3, CapturesAreBounded DEF ArmRun
      <3> QED BY <1>1, <3>1, RequestArms
    <2> QED BY <2>2, <2>3
  <1> QED BY <1>3, <1>4

\* A present takes what is armed, which has no image in flight, and is later than all that landed.
LEMMA PresentKeeps == CaptureInv /\ Present => CaptureInv'
  <1> SUFFICES ASSUME CaptureInv, Present PROVE CaptureInv'
    OBVIOUS
  <1> DEFINE n == fork.presents + 1
             image == [present |-> n, arm |-> fork.armed]
  <1>1. /\ CaptureTypes /\ fork.presents \in Nat /\ n \in Nat /\ n > fork.presents
        /\ fork.asked \in Seq(Asked) /\ Len(fork.asked) \in Nat
    BY LenProperties DEF CaptureInv, CaptureTypes
  <1>2. captures' = captures
    BY DEF Present
  <1>3. fork' = [armed |-> 0, presents |-> n, asked |-> fork.asked,
                 flights |-> IF fork.armed = 0 THEN fork.flights ELSE fork.flights \cup {image}]
    BY <1>1 DEF Present, CaptureTypes, Unarmed
  <1>4. image \in Images /\ image.present = n /\ image.arm = fork.armed
    BY <1>1 DEF Images, CaptureTypes
  <1> HIDE DEF image, n
  <1>5. CaptureTypes'
    BY <1>1, <1>2, <1>3, <1>4 DEF CaptureTypes
  <1>6. \A other \in fork'.flights : other \in fork.flights \/ (other = image /\ fork.armed # 0)
    BY <1>3
  <1>7. \A a \in 1..Len(fork.asked) : fork.asked[a].from \in Nat
    <2>1. ASSUME NEW a \in 1..Len(fork.asked) PROVE fork.asked[a] \in Asked
      BY <1>1, ElementOfSeq
    <2> QED BY <2>1 DEF Asked
  <1>8. ArmsHaveRoom'
    <2> SUFFICES ASSUME NEW a \in 1..Len(fork.asked)
                 PROVE LET it == fork.asked[a]
                       IN /\ it.first + it.count <= SlotCount /\ it.from <= n
                          /\ it.next <= it.count
                          /\ \A other \in fork'.flights : other.arm = a => it.next < it.count
      BY <1>1, <1>3 DEF ArmsHaveRoom
    <2> QED BY <1>1, <1>4, <1>6, <1>7 DEF CaptureInv, ArmsHaveRoom
  <1>9. OneIsOut'
    <2> SUFFICES ASSUME NEW it \in fork'.flights
                 PROVE /\ it.arm \in 1..Len(fork.asked) /\ it.arm # 0
                       /\ fork.asked[it.arm].from < it.present /\ it.present <= n
                       /\ \A other \in fork'.flights : other.arm = it.arm => other = it
      BY <1>3 DEF OneIsOut
    <2>0. it.present \in Nat /\ fork.armed \in 0..Len(fork.asked)
      BY <1>1, <1>4, <1>6 DEF CaptureTypes, Images
    <2>1. CASE it \in fork.flights
      <3>1. it.arm \in 1..Len(fork.asked) /\ it.arm # fork.armed
        BY <2>1 DEF CaptureInv, OneIsOut
      <3> QED BY <1>1, <1>4, <1>6, <1>7, <2>0, <2>1, <3>1 DEF CaptureInv, OneIsOut
    <2>2. CASE it = image /\ fork.armed # 0
      <3>1. it.arm = fork.armed /\ it.arm \in 1..Len(fork.asked) /\ it.present = n
        BY <1>4, <2>0, <2>2
      <3>2. fork.asked[it.arm].from <= fork.presents
        BY <3>1 DEF CaptureInv, ArmsHaveRoom
      <3>3. \A other \in fork.flights : other.arm # fork.armed
        BY DEF CaptureInv, OneIsOut
      <3> QED BY <1>1, <1>6, <1>7, <2>2, <3>1, <3>2, <3>3
    <2> QED BY <1>6, <2>1, <2>2
  <1>10. LandedInOrder'
    <2> SUFFICES ASSUME NEW s \in 0..SlotCount - 1, captures.slots[s] # NoImage
                 PROVE LET it == captures.slots[s]
                       IN /\ it.arm \in 1..Len(fork.asked)
                          /\ fork.asked[it.arm].first <= s
                          /\ s < fork.asked[it.arm].first + fork.asked[it.arm].next
                          /\ fork.asked[it.arm].from < it.present /\ it.present <= n
                          /\ \A other \in fork'.flights : other.arm = it.arm => it.present < other.present
                          /\ \A t \in 0..s - 1 : captures.slots[t].arm = it.arm =>
                                                   captures.slots[t].present < it.present
      BY <1>2, <1>3 DEF LandedInOrder
    <2> DEFINE it == captures.slots[s]
    <2>1. it.present \in Nat
      BY <1>1 DEF CaptureTypes, Images
    <2>2. /\ it.arm \in 1..Len(fork.asked) /\ fork.asked[it.arm].first <= s
          /\ s < fork.asked[it.arm].first + fork.asked[it.arm].next
          /\ fork.asked[it.arm].from < it.present /\ it.present <= fork.presents
          /\ \A other \in fork.flights : other.arm = it.arm => it.present < other.present
          /\ \A t \in 0..s - 1 : captures.slots[t].arm = it.arm => captures.slots[t].present < it.present
      BY DEF CaptureInv, LandedInOrder
    <2> HIDE DEF it
    <2>3. it.present <= n /\ it.present < n
      BY <1>1, <2>1, <2>2
    <2>4. \A other \in fork'.flights : other.arm = it.arm => it.present < other.present
      BY <1>4, <1>6, <2>2, <2>3
    <2> QED BY <2>2, <2>3, <2>4 DEF it
  <1> QED BY <1>5, <1>8, <1>9, <1>10 DEF CaptureInv

\* An image lands in its request's next slot, after those that landed before it.
LEMMA LandKeeps == ASSUME CaptureInv, NEW image \in fork.flights, Land(image) PROVE CaptureInv'
  <1> DEFINE a == image.arm
             arm == fork.asked[a]
             landed == [arm EXCEPT !.next = @ + 1]
             asked == [fork.asked EXCEPT ![a] = landed]
             slot == arm.first + arm.next
             armed == IF Rearmed(arm) THEN a ELSE fork.armed
  <1>1. /\ CaptureTypes /\ fork.presents \in Nat /\ fork.asked \in Seq(Asked) /\ Len(fork.asked) \in Nat
        /\ a \in 1..Len(fork.asked) /\ arm \in Asked /\ image \in Images /\ fork.armed \in 0..Len(fork.asked)
    <2>1. a \in 1..Len(fork.asked)
      BY DEF CaptureInv, OneIsOut
    <2> QED BY <2>1, LenProperties, ElementOfSeq DEF CaptureInv, CaptureTypes
  <1>2. /\ arm.first \in Nat /\ arm.count \in Nat /\ arm.next \in Nat /\ arm.from \in Nat
        /\ arm.first + arm.count <= SlotCount /\ arm.next < arm.count /\ arm.from <= fork.presents
    BY <1>1 DEF CaptureInv, ArmsHaveRoom, Asked
  <1>3. slot \in 0..SlotCount - 1 /\ slot < SlotCount
    BY <1>2, CapturesAreBounded
  <1>4. /\ landed \in Asked /\ landed.first = arm.first /\ landed.count = arm.count
        /\ landed.from = arm.from /\ landed.next = arm.next + 1
    <2>1. arm = [first |-> arm.first, count |-> arm.count, next |-> arm.next, from |-> arm.from]
      BY <1>1 DEF Asked
    <2>2. landed = [first |-> arm.first, count |-> arm.count, next |-> arm.next + 1, from |-> arm.from]
      BY <2>1
    <2> HIDE DEF landed, arm
    <2> QED BY <1>2, <2>2 DEF Asked
  <1>5. fork' = [armed |-> armed, flights |-> fork.flights \ {image}, presents |-> fork.presents,
                 asked |-> asked]
    BY <1>1 DEF Land, CaptureTypes
  <1>6. captures' = [slots |-> [captures.slots EXCEPT ![slot] = image],
                     requested |-> captures.requested, refused |-> captures.refused,
                     received |-> captures.received + 1]
    BY <1>1, <1>3 DEF Land, Receives, SlotFor, CaptureTypes
  <1> HIDE DEF landed, arm
  <1>7. /\ asked \in Seq(Asked) /\ Len(asked) = Len(fork.asked) /\ asked[a] = landed
        /\ \A b \in 1..Len(fork.asked) : b # a => asked[b] = fork.asked[b]
    BY <1>1, <1>4, ExceptSeq
  <1>8. armed \in 0..Len(fork.asked) /\ (armed = a => arm.next + 1 < arm.count)
        /\ (armed # a => armed = fork.armed) /\ (armed = a => fork.armed = 0)
    <2>1. fork.armed # a
      BY DEF CaptureInv, OneIsOut
    <2> QED BY <1>1, <2>1 DEF Rearmed, Takes, Unarmed
  <1> HIDE DEF asked, armed, slot
  <1>9. /\ \A s \in 0..SlotCount - 1 : captures'.slots[s] = IF s = slot THEN image ELSE captures.slots[s]
        /\ captures'.slots \in [0..SlotCount - 1 -> Images]
    BY <1>1, <1>3, <1>6 DEF CaptureTypes
  <1>10. CaptureTypes'
    BY <1>1, <1>5, <1>6, <1>7, <1>8, <1>9 DEF CaptureTypes
  <1>11. \A other \in fork.flights \ {image} : other.arm # a
    BY DEF CaptureInv, OneIsOut
  <1>12. ArmsHaveRoom'
    <2> SUFFICES ASSUME NEW b \in 1..Len(fork.asked)
                 PROVE LET it == asked[b]
                       IN /\ it.first + it.count <= SlotCount /\ it.from <= fork.presents
                          /\ it.next <= it.count
                          /\ armed = b => it.next < it.count
                          /\ \A other \in fork.flights \ {image} : other.arm = b => it.next < it.count
      BY <1>5, <1>7 DEF ArmsHaveRoom
    <2>1. CASE b = a
      BY <1>2, <1>4, <1>7, <1>8, <1>11, <2>1
    <2>2. CASE b # a
      BY <1>7, <1>8, <2>2 DEF CaptureInv, ArmsHaveRoom
    <2> QED BY <2>1, <2>2
  <1>13. OneIsOut'
    <2> SUFFICES ASSUME NEW it \in fork.flights \ {image}
                 PROVE /\ it.arm \in 1..Len(asked) /\ it.arm # armed
                       /\ asked[it.arm].from < it.present /\ it.present <= fork.presents
                       /\ \A other \in fork.flights \ {image} : other.arm = it.arm => other = it
      BY <1>5 DEF OneIsOut
    <2> QED BY <1>7, <1>8, <1>11 DEF CaptureInv, OneIsOut
  <1>14. LandedInOrder'
    <2> SUFFICES ASSUME NEW s \in 0..SlotCount - 1, captures'.slots[s] # NoImage
                 PROVE LET it == captures'.slots[s]
                       IN /\ it.arm \in 1..Len(asked)
                          /\ asked[it.arm].first <= s
                          /\ s < asked[it.arm].first + asked[it.arm].next
                          /\ asked[it.arm].from < it.present /\ it.present <= fork.presents
                          /\ \A other \in fork.flights \ {image} :
                               other.arm = it.arm => it.present < other.present
                          /\ \A t \in 0..s - 1 : captures'.slots[t].arm = it.arm =>
                                                   captures'.slots[t].present < it.present
      BY <1>5 DEF LandedInOrder
    <2>0. \A t \in 0..s - 1 : t \in 0..SlotCount - 1 /\ t < s
      BY CapturesAreBounded
    <2>1. CASE s = slot
      <3>1. captures'.slots[s] = image
        BY <1>9, <2>1
      <3>2. asked[a].first <= s /\ s < asked[a].first + asked[a].next
        BY <1>2, <1>4, <1>7, <2>1 DEF slot
      <3>3. asked[a].from < image.present /\ image.present <= fork.presents
        BY <1>4, <1>7 DEF CaptureInv, OneIsOut, arm
      <3>4. ASSUME NEW t \in 0..s - 1, captures'.slots[t].arm = a
            PROVE captures'.slots[t].present < image.present
        <4>1. captures'.slots[t] = captures.slots[t] /\ t \in 0..SlotCount - 1
          BY <1>9, <2>0, <2>1, CapturesAreBounded
        <4>2. captures.slots[t] # NoImage
          BY <1>1, <3>4, <4>1 DEF NoImage
        <4> QED BY <3>4, <4>1, <4>2 DEF CaptureInv, LandedInOrder
      <3> QED BY <1>1, <1>7, <1>11, <3>1, <3>2, <3>3, <3>4
    <2>2. CASE s # slot
      <3> DEFINE it == captures.slots[s]
      <3>1. captures'.slots[s] = it /\ it # NoImage
        BY <1>9, <2>2
      <3>2. /\ it.arm \in 1..Len(fork.asked) /\ fork.asked[it.arm].first <= s
            /\ s < fork.asked[it.arm].first + fork.asked[it.arm].next
            /\ fork.asked[it.arm].from < it.present /\ it.present <= fork.presents
            /\ \A other \in fork.flights : other.arm = it.arm => it.present < other.present
            /\ \A t \in 0..s - 1 : captures.slots[t].arm = it.arm => captures.slots[t].present < it.present
        BY <3>1 DEF CaptureInv, LandedInOrder
      <3>3. /\ asked[it.arm].first <= s /\ s < asked[it.arm].first + asked[it.arm].next
            /\ asked[it.arm].from < it.present
        <4>1. CASE it.arm = a
          BY <1>2, <1>4, <1>7, <3>2, <4>1 DEF arm
        <4>2. CASE it.arm # a
          BY <1>7, <3>2, <4>2
        <4> QED BY <4>1, <4>2
      <3>4. ASSUME NEW t \in 0..s - 1, captures'.slots[t].arm = it.arm
            PROVE captures'.slots[t].present < it.present
        <4>1. CASE t = slot
          <5>1. it.arm = a
            BY <1>9, <2>0, <3>4, <4>1
          <5>2. s < slot
            BY <3>2, <5>1 DEF slot, arm
          <5> QED BY <1>3, <2>0, <4>1, <5>2
        <4>2. CASE t # slot
          BY <1>9, <2>0, <3>2, <3>4, <4>2
        <4> QED BY <4>1, <4>2
      <3> HIDE DEF it
      <3> QED BY <1>7, <3>1, <3>2, <3>3, <3>4
    <2> QED BY <2>1, <2>2
  <1> QED BY <1>10, <1>12, <1>13, <1>14 DEF CaptureInv

\* Requests, presents and landings keep what is so of the images.
LEMMA CaptureKeeps == CaptureInv /\ [CaptureNext]_captureVars => CaptureInv'
  <1>1. CaptureInv /\ UNCHANGED captureVars => CaptureInv'
    BY DEF captureVars, CaptureInv, CaptureTypes, ArmsHaveRoom, OneIsOut, LandedInOrder
  <1> QED BY <1>1, PostCaptureKeeps, PresentKeeps, LandKeeps DEF CaptureNext

\* The images in the slots are those their request asked for, in order.
LEMMA CaptureAnswers == CaptureInv => ImagesAnswerTheirRequest
  <1> SUFFICES ASSUME CaptureInv, NEW s \in DOMAIN captures.slots, captures.slots[s] # NoImage
               PROVE LET image == captures.slots[s]
                         arm == fork.asked[image.arm]
                     IN /\ s \in arm.first..arm.first + arm.count - 1 /\ image.present > arm.from
                        /\ \A t \in arm.first..s - 1 :
                             captures.slots[t].arm = image.arm => captures.slots[t].present < image.present
    BY DEF ImagesAnswerTheirRequest
  <1> DEFINE image == captures.slots[s]
             arm == fork.asked[image.arm]
  <1>1. s \in 0..SlotCount - 1 /\ SlotCount \in Nat /\ image \in Images
    BY CapturesAreBounded DEF CaptureInv, CaptureTypes
  <1>2. /\ image.arm \in 1..Len(fork.asked) /\ arm.first <= s /\ s < arm.first + arm.next
        /\ arm.from < image.present
        /\ \A t \in 0..s - 1 : captures.slots[t].arm = image.arm => captures.slots[t].present < image.present
    BY <1>1 DEF CaptureInv, LandedInOrder
  <1>3. arm \in Asked /\ arm.next <= arm.count
    BY <1>2, ElementOfSeq DEF CaptureInv, CaptureTypes, ArmsHaveRoom
  <1>4. /\ s \in Int /\ arm.first \in Nat /\ arm.next \in Nat /\ arm.count \in Nat /\ arm.from \in Nat
        /\ image.present \in Nat
    BY <1>1, <1>3 DEF Asked, Images
  <1> HIDE DEF arm, image
  <1>5. s \in arm.first..arm.first + arm.count - 1 /\ image.present > arm.from
    BY <1>2, <1>3, <1>4
  <1>6. \A t \in arm.first..s - 1 : t \in 0..s - 1
    BY <1>4
  <1> QED BY <1>2, <1>5, <1>6 DEF arm, image

-----------------------------------------------------------------------------
(* The places some of a sequence have among themselves.                     *)

\* What comes last takes the last place, and moves no other.
LEMMA PlacesOfMore ==
  ASSUME NEW n \in Nat, NEW some \in SUBSET (1..n)
  PROVE  /\ IsFiniteSet(some) /\ Cardinality(some) \in Nat
         /\ \A i \in some : PlaceIn(i, some) \in 1..Cardinality(some)
         /\ Cardinality(some \cup {n + 1}) = Cardinality(some) + 1
         /\ PlaceIn(n + 1, some \cup {n + 1}) = Cardinality(some) + 1
         /\ \A i \in some : PlaceIn(i, some \cup {n + 1}) = PlaceIn(i, some)
  <1>1. IsFiniteSet(some) /\ Cardinality(some) \in Nat
    <2>1. IsFiniteSet(1..n)
      BY FS_Interval
    <2> QED BY <2>1, FS_Subset, FS_CardinalityType
  <1>2. ASSUME NEW i \in some PROVE PlaceIn(i, some) \in 1..Cardinality(some)
    <2> DEFINE upTo == {j \in some : j <= i}
    <2>1. upTo \subseteq some /\ i \in upTo
      OBVIOUS
    <2> HIDE DEF upTo
    <2>2. IsFiniteSet(upTo) /\ Cardinality(upTo) \in Nat /\ Cardinality(upTo) <= Cardinality(some)
      BY <1>1, <2>1, FS_Subset, FS_CardinalityType
    <2>3. Cardinality(upTo) # 0
      BY <2>1, <2>2, FS_EmptySet
    <2>4. PlaceIn(i, some) = Cardinality(upTo)
      BY DEF PlaceIn, upTo
    <2> QED BY <1>1, <2>2, <2>3, <2>4
  <1>3. n + 1 \notin some
    OBVIOUS
  <1>4. Cardinality(some \cup {n + 1}) = Cardinality(some) + 1
    BY <1>1, <1>3, FS_AddElement
  <1>5. PlaceIn(n + 1, some \cup {n + 1}) = Cardinality(some) + 1
    <2>1. \A j \in some \cup {n + 1} : j <= n + 1
      OBVIOUS
    <2>2. {j \in some \cup {n + 1} : j <= n + 1} = some \cup {n + 1}
      BY <2>1
    <2> QED BY <1>4, <2>2 DEF PlaceIn
  <1>6. ASSUME NEW i \in some PROVE PlaceIn(i, some \cup {n + 1}) = PlaceIn(i, some)
    <2>1. {j \in some \cup {n + 1} : j <= i} = {j \in some : j <= i}
      OBVIOUS
    <2> QED BY <2>1 DEF PlaceIn
  <1> QED BY <1>1, <1>2, <1>4, <1>5, <1>6

-----------------------------------------------------------------------------
(* What is recorded of a frame.                                             *)

Drawings == [of : Nat, bytes : Nat]

\* What a frame's draws come to, one draw more or none.
LEMMA BytesOfMore ==
  ASSUME NEW frame \in Seq(Draws)
  PROVE  /\ BytesOf(<<>>) = 0 /\ BytesOf(frame) \in Nat
         /\ \A draw \in Draws : BytesOf(Append(frame, draw)) = BytesOf(frame) + draw[2]
  <1> DEFINE Def(f, h) == [i \in 0..Len(f) |-> IF i = 0 THEN 0 ELSE h[i - 1] + f[i][2]]
             sum(f) == CHOOSE h : h = Def(f, h)
  <1>1. ASSUME NEW f \in Seq(Draws)
        PROVE  /\ BytesOf(f) = sum(f)[Len(f)] /\ sum(f)[0] = 0
               /\ \A i \in 0..Len(f) : sum(f)[i] \in Nat
               /\ \A i \in 1..Len(f) : sum(f)[i] = sum(f)[i - 1] + f[i][2]
    <2> DEFINE step == [s \in Nat \X Nat |-> IF s[1] \in 1..Len(f) THEN s[2] + f[s[1]][2] ELSE 0]
               n == Len(f)
    <2>1. n \in Nat /\ \A i \in 1..n : f[i][2] \in Nat
      <3>1. \A i \in 1..Len(f) : f[i] \in Draws
        BY ElementOfSeq
      <3>2. \A draw \in Draws : draw[2] \in Nat
        BY DrawsAreOfBytes
      <3> QED BY <3>1, <3>2, LenProperties
    <2>2. step \in [Nat \X Nat -> Nat]
      BY <2>1
    <2>3. PICK g : Steps(g, 0, step, n) /\ \A i \in 0..n : g[i] \in Nat
      <3> HIDE DEF step, n
      <3> QED BY <2>1, <2>2, StepsTaken
    <2>4. \A i \in 1..n : g[i] = g[i - 1] + f[i][2]
      <3>1. \A i \in 1..n : i \in Nat /\ i - 1 \in 0..n /\ g[i - 1] \in Nat
        BY <2>1, <2>3
      <3> QED BY <2>3, <3>1 DEF Steps
    <2>5. g = Def(f, g)
      <3>1. g = [i \in 0..n |-> g[i]] /\ g[0] = 0
        BY <2>3 DEF Steps
      <3>2. \A i \in 0..n : g[i] = IF i = 0 THEN 0 ELSE g[i - 1] + f[i][2]
        <4>1. \A i \in 0..n : i = 0 \/ i \in 1..n
          BY <2>1
        <4> QED BY <2>4, <3>1, <4>1
      <3>3. [i \in 0..n |-> g[i]] = Def(f, g)
        BY <3>2
      <3> QED BY <3>1, <3>3
    <2>6. sum(f) = Def(f, sum(f))
      BY <2>5
    <2>7. BytesOf(f) = sum(f)[n]
      BY DEF BytesOf
    <2> HIDE DEF sum, n
    <2>8. sum(f)[0] = 0 /\ \A i \in 1..n : sum(f)[i] = sum(f)[i - 1] + f[i][2]
      <3> DEFINE h == sum(f)
      <3>1. h = [i \in 0..n |-> IF i = 0 THEN 0 ELSE h[i - 1] + f[i][2]]
        BY <2>6 DEF n
      <3>2. 0 \in 0..n /\ \A i \in 1..n : i \in 0..n /\ i # 0
        BY <2>1
      <3> HIDE DEF h
      <3>3. h[0] = 0 /\ \A i \in 1..n : h[i] = h[i - 1] + f[i][2]
        BY <3>1, <3>2
      <3> QED BY <3>3 DEF h
    <2>9. \A i \in 0..n : sum(f)[i] = g[i]
      <3>1. \A i \in 1..n : sum(f)[i - 1] = g[i - 1] => sum(f)[i] = g[i]
        BY <2>4, <2>8
      <3>2. sum(f)[0] = g[0]
        BY <2>3, <2>8 DEF Steps
      <3> QED BY <2>1, <3>1, <3>2, StepByStep
    <2> QED BY <2>3, <2>7, <2>8, <2>9 DEF n
  <1> HIDE DEF sum
  <1>2. BytesOf(<<>>) = 0
    BY <1>1, EmptySeq
  <1>3. BytesOf(frame) \in Nat
    <2>1. Len(frame) \in 0..Len(frame)
      BY LenProperties
    <2> QED BY <1>1, <2>1
  <1>4. ASSUME NEW draw \in Draws PROVE BytesOf(Append(frame, draw)) = BytesOf(frame) + draw[2]
    <2> DEFINE more == Append(frame, draw)
               n == Len(frame)
    <2>1. /\ more \in Seq(Draws) /\ Len(more) = n + 1 /\ more[n + 1] = draw /\ n \in Nat
          /\ \A i \in 1..n : more[i] = frame[i]
      BY AppendProperties, LenProperties
    <2> HIDE DEF more, n
    <2>2. /\ sum(more)[0] = 0 /\ \A i \in 1..n + 1 : sum(more)[i] = sum(more)[i - 1] + more[i][2]
          /\ BytesOf(more) = sum(more)[n + 1]
      BY <1>1, <2>1
    <2>3. /\ sum(frame)[0] = 0 /\ \A i \in 1..n : sum(frame)[i] = sum(frame)[i - 1] + frame[i][2]
          /\ BytesOf(frame) = sum(frame)[n]
      BY <1>1 DEF n
    <2>4. \A i \in 0..n : sum(more)[i] = sum(frame)[i]
      <3> DEFINE g == sum(more)
                 h == sum(frame)
      <3>1. \A i \in 1..n : g[i - 1] = h[i - 1] => g[i] = h[i]
        BY <2>1, <2>2, <2>3
      <3>2. g[0] = h[0]
        BY <2>2, <2>3
      <3> HIDE DEF g, h
      <3>3. n \in Nat
        BY <2>1
      <3> DEFINE S == {i \in Nat : i \in 0..n => g[i] = h[i]}
      <3>4. 0 \in S
        BY <3>2
      <3>5. ASSUME NEW i \in S PROVE i + 1 \in S
        <4> DEFINE j == i + 1
        <4>1. j \in Nat /\ j - 1 = i /\ (j \in 0..n => j \in 1..n /\ i \in 0..n)
          BY <3>3
        <4> HIDE DEF j
        <4>2. j \in 0..n => g[j] = h[j]
          BY <3>1, <4>1
        <4> QED BY <4>1, <4>2 DEF j
      <3> HIDE DEF S
      <3>6. S \subseteq Nat
        BY DEF S
      <3>7. S = Nat
        BY <3>4, <3>5, <3>6, NaturalsByOne
      <3>8. \A i \in 0..n : g[i] = h[i]
        BY <3>3, <3>7 DEF S
      <3> QED BY <3>8 DEF g, h
    <2>5. n + 1 \in 1..n + 1 /\ (n + 1) - 1 = n /\ n \in 0..n
      BY <2>1
    <2> QED BY <2>1, <2>2, <2>3, <2>4, <2>5 DEF more
  <1> QED BY <1>2, <1>3, <1>4

\* A draw more, held or not: what was held of the frame is held of it still.
LEMMA DrawsMore ==
  ASSUME NEW frame \in Seq(Draws), NEW draw \in Draws, NEW k, NEW n,
         NEW held \in Seq(Drawings), NEW some \in SUBSET DrawnIn(frame, k),
         HasDraws(held, n, frame, some), n \in Nat
  PROVE  LET more == Append(frame, draw)
         IN /\ HasDraws(held, n, more, some)
            /\ DrawnIn(more, k) = IF draw[1] = k THEN DrawnIn(frame, k) \cup {Len(frame) + 1}
                                  ELSE DrawnIn(frame, k)
            /\ HasDraws(Append(held, [of |-> n, bytes |-> draw[2]]), n, more, some \cup {Len(frame) + 1})
  <1> DEFINE more == Append(frame, draw)
             m == Len(frame)
             one == [of |-> n, bytes |-> draw[2]]
  <1>1. /\ more \in Seq(Draws) /\ Len(more) = m + 1 /\ more[m + 1] = draw /\ m \in Nat
        /\ \A i \in 1..m : more[i] = frame[i]
        /\ DOMAIN more = 1..m + 1 /\ DOMAIN frame = 1..m
    BY AppendProperties, LenProperties
  <1>2. some \in SUBSET (1..m)
    BY <1>1 DEF DrawnIn
  <1>3. one \in Drawings
    BY DrawsAreOfBytes DEF Drawings
  <1> HIDE DEF more, m, one
  <1>4. HasDraws(held, n, more, some)
    BY <1>1, <1>2 DEF HasDraws
  <1>5. DrawnIn(more, k) = IF draw[1] = k THEN DrawnIn(frame, k) \cup {m + 1} ELSE DrawnIn(frame, k)
    BY <1>1 DEF DrawnIn
  <1>6. HasDraws(Append(held, one), n, more, some \cup {m + 1})
    <2> DEFINE c == Cardinality(some)
               all == some \cup {m + 1}
    <2>1. /\ Len(held) = c /\ c \in Nat /\ Len(Append(held, one)) = c + 1
          /\ Append(held, one)[c + 1] = one
          /\ \A i \in 1..c : Append(held, one)[i] = held[i]
      BY <1>1, <1>2, <1>3, PlacesOfMore, AppendProperties DEF HasDraws
    <2>2. /\ Cardinality(all) = c + 1 /\ PlaceIn(m + 1, all) = c + 1
          /\ \A i \in some : PlaceIn(i, some) \in 1..c /\ PlaceIn(i, all) = PlaceIn(i, some)
      BY <1>1, <1>2, PlacesOfMore
    <2> HIDE DEF c
    <2>3. ASSUME NEW i \in all
          PROVE Append(held, one)[PlaceIn(i, all)] = [of |-> n, bytes |-> more[i][2]]
      <3>1. CASE i = m + 1
        BY <1>1, <2>1, <2>2, <3>1 DEF one
      <3>2. CASE i \in some
        <4> HIDE DEF all
        <4>1. held[PlaceIn(i, some)] = [of |-> n, bytes |-> frame[i][2]] /\ more[i] = frame[i]
          BY <1>1, <1>2, <3>2 DEF HasDraws
        <4> QED BY <2>1, <2>2, <3>2, <4>1
      <3> QED BY <3>1, <3>2
    <2> QED BY <2>1, <2>2, <2>3 DEF HasDraws
  <1> QED BY <1>4, <1>5, <1>6 DEF more, m, one

Recordings == [slots : [Held -> Seq(Drawings)], count : [Held -> Nat], bytes : Nat, refused : Nat]
InStorage(r) == r \in Recordings /\ \A k \in Held : r.count[k] <= Len(r.slots[k])

\* A recording of a frame has its draws, all of them or those that fit.
RecordOf(r, n, frame) ==
  /\ InStorage(r)
  /\ \A k \in Held : \E some \in SUBSET DrawnIn(frame, k) : HasDraws(HeldOf(r, k), n, frame, some)
  /\ r.refused = 0 => /\ \A k \in Held : HasDraws(HeldOf(r, k), n, frame, DrawnIn(frame, k))
                      /\ r.bytes = BytesOf(frame)
  /\ r.refused = 0 <=> BytesOf(frame) <= Budget
  /\ r.bytes <= Budget /\ r.bytes <= BytesOf(frame)

TellsOf(complete, held, n, frame, k) ==
  /\ complete <=> BytesOf(frame) <= Budget
  /\ IF complete THEN HasDraws(held, n, frame, DrawnIn(frame, k))
     ELSE \E some \in SUBSET DrawnIn(frame, k) : HasDraws(held, n, frame, some)

\* What is held is as much of the storage as the count says.
LEMMA HeldIs ==
  ASSUME NEW r, InStorage(r), NEW k \in Held
  PROVE  /\ HeldOf(r, k) \in Seq(Drawings) /\ Len(HeldOf(r, k)) = r.count[k]
         /\ \A i \in 1..r.count[k] : HeldOf(r, k)[i] = r.slots[k][i]
  <1>1. r.slots[k] \in Seq(Drawings) /\ r.count[k] \in Nat /\ r.count[k] <= Len(r.slots[k])
    BY DEF InStorage, Recordings
  <1>2. Len(r.slots[k]) \in Nat
    BY <1>1, LenProperties
  <1>3. HeldOf(r, k) = SubSeq(r.slots[k], 1, r.count[k])
    BY DEF HeldOf
  <1> DEFINE slots == r.slots[k]
             c == r.count[k]
  <1>4. /\ SubSeq(slots, 1, c) \in Seq(Drawings) /\ Len(SubSeq(slots, 1, c)) = c
        /\ \A i \in 1..c : SubSeq(slots, 1, c)[i] = slots[i]
    <2> HIDE DEF slots, c
    <2>1. slots \in Seq(Drawings) /\ c \in Nat /\ c <= Len(slots) /\ Len(slots) \in Nat
      BY <1>1, <1>2 DEF slots, c
    <2>2. CASE c = 0
      BY <2>1, <2>2, SubSeqProperties
    <2>3. CASE c # 0
      <3>1. 1 \in 1..Len(slots) /\ c \in 1..Len(slots)
        BY <2>1, <2>3
      <3> QED BY <2>1, <3>1, SubSeqProperties
    <2> QED BY <2>2, <2>3
  <1> QED BY <1>3, <1>4

\* A recording tells of its frame what it is.
LEMMA RecordTells ==
  ASSUME NEW r, NEW n, NEW frame, RecordOf(r, n, frame), NEW k \in Held
  PROVE  TellsOf(IsComplete(r), HeldOf(r, k), n, frame, k)
  BY DEF RecordOf, TellsOf, IsComplete

\* Storage cleared holds nothing, as a frame begun has no draws.
LEMMA ClearedRecords ==
  ASSUME NEW r, InStorage(r), NEW n
  PROVE  RecordOf(Cleared(r), n, <<>>)
  <1> DEFINE c == Cleared(r)
  <1>1. c = [slots |-> r.slots, count |-> [k \in Held |-> 0], bytes |-> 0, refused |-> 0]
    <2> DEFINE none == [k \in Held |-> 0]
    <2>1. r = [slots |-> r.slots, count |-> r.count, bytes |-> r.bytes, refused |-> r.refused]
      BY DEF InStorage, Recordings
    <2>2. c = [r EXCEPT !.count = none, !.bytes = 0, !.refused = 0]
      BY DEF Cleared
    <2> HIDE DEF none, c
    <2>3. c = [slots |-> r.slots, count |-> none, bytes |-> 0, refused |-> 0]
      BY <2>1, <2>2
    <2> QED BY <2>3 DEF none
  <1>2. InStorage(c)
    <2> DEFINE none == [k \in Held |-> 0]
    <2>1. ASSUME NEW k \in Held PROVE r.slots[k] \in Seq(Drawings) /\ Len(r.slots[k]) \in Nat
      BY LenProperties DEF InStorage, Recordings
    <2>2. r.slots \in [Held -> Seq(Drawings)]
      BY DEF InStorage, Recordings
    <2>3. none \in [Held -> Nat] /\ \A k \in Held : none[k] = 0
      OBVIOUS
    <2> HIDE DEF none, c
    <2>4. c = [slots |-> r.slots, count |-> none, bytes |-> 0, refused |-> 0]
      BY <1>1 DEF none
    <2>5. c \in Recordings /\ c.slots = r.slots /\ c.count = none
      BY <2>2, <2>3, <2>4 DEF Recordings
    <2> QED BY <2>1, <2>3, <2>5 DEF InStorage
  <1> HIDE DEF c
  <1>3. BytesOf(<<>>) = 0
    BY BytesOfMore, EmptySeq
  <1>4. \A k : DrawnIn(<<>>, k) = {}
    BY DEF DrawnIn
  <1>5. ASSUME NEW k \in Held PROVE HasDraws(HeldOf(c, k), n, <<>>, {})
    <2>1. Len(HeldOf(c, k)) = 0
      BY <1>1, <1>2, HeldIs
    <2> QED BY <2>1, FS_EmptySet DEF HasDraws
  <1>6. c.bytes = 0 /\ c.refused = 0 /\ Budget \in Nat
    BY <1>1, DrawsAreOfBytes
  <1>7. c.bytes <= Budget /\ c.bytes <= BytesOf(<<>>) /\ BytesOf(<<>>) <= Budget
    BY <1>3, <1>6
  <1>8. \A k \in Held : \E some \in SUBSET DrawnIn(<<>>, k) : HasDraws(HeldOf(c, k), n, <<>>, some)
    BY <1>4, <1>5
  <1>9. \A k \in Held : HasDraws(HeldOf(c, k), n, <<>>, DrawnIn(<<>>, k))
    BY <1>4, <1>5
  <1>10. RecordOf(c, n, <<>>)
    BY <1>2, <1>3, <1>6, <1>7, <1>8, <1>9 DEF RecordOf
  <1> QED BY <1>10 DEF c

\* A draw added is held after the others, or refused and the frame said not to be whole.
LEMMA AddedRecords ==
  ASSUME NEW r, NEW n \in Nat, NEW frame \in Seq(Draws), RecordOf(r, n, frame),
         NEW draw \in Draws, NEW k \in Held, draw[1] = k
  PROVE  RecordOf(Added(r, k, [of |-> n, bytes |-> draw[2]]), n, Append(frame, draw))
  <1> DEFINE one == [of |-> n, bytes |-> draw[2]]
             more == Append(frame, draw)
             a == Added(r, k, one)
  <1>1. /\ InStorage(r) /\ r \in Recordings /\ one \in Drawings /\ one.bytes = draw[2] /\ draw[2] \in Nat
        /\ r.bytes \in Nat /\ r.refused \in Nat /\ Budget \in Nat
    <2>1. draw[2] \in Nat /\ Budget \in Nat
      BY DrawsAreOfBytes
    <2>2. one \in Drawings /\ one.bytes = draw[2]
      BY <2>1 DEF Drawings
    <2>3. InStorage(r)
      BY DEF RecordOf
    <2>4. r \in Recordings
      BY <2>3 DEF InStorage
    <2> QED BY <2>1, <2>2, <2>3, <2>4 DEF Recordings
  <1>2. BytesOf(frame) \in Nat /\ BytesOf(more) = BytesOf(frame) + draw[2]
    BY BytesOfMore
  <1>3. r = [slots |-> r.slots, count |-> r.count, bytes |-> r.bytes, refused |-> r.refused]
    BY <1>1 DEF Recordings
  <1>4. ASSUME NEW j \in Held, NEW some \in SUBSET DrawnIn(frame, j), HasDraws(HeldOf(r, j), n, frame, some)
        PROVE  /\ HasDraws(HeldOf(r, j), n, more, some)
               /\ DrawnIn(more, j) = IF draw[1] = j THEN DrawnIn(frame, j) \cup {Len(frame) + 1} ELSE DrawnIn(frame, j)
               /\ HasDraws(Append(HeldOf(r, j), one), n, more, some \cup {Len(frame) + 1})
    <2>1. HeldOf(r, j) \in Seq(Drawings)
      BY <1>1, HeldIs
    <2> HIDE DEF one, more
    <2> QED BY <1>4, <2>1, DrawsMore DEF one, more
  <1>5. \A j \in Held : \E some \in SUBSET DrawnIn(frame, j) : HasDraws(HeldOf(r, j), n, frame, some)
    BY DEF RecordOf
  <1>6. \A j \in Held : DrawnIn(more, j) = IF k = j THEN DrawnIn(frame, j) \cup {Len(frame) + 1} ELSE DrawnIn(frame, j)
    BY <1>4, <1>5
  <1>7. CASE Reserves(r, one.bytes)
    <2> DEFINE slot == IF r.count[k] = Len(r.slots[k]) THEN Append(r.slots[k], one)
                       ELSE [r.slots[k] EXCEPT ![r.count[k] + 1] = one]
               c == r.count[k]
    <2>1. a = [slots |-> [r.slots EXCEPT ![k] = slot], count |-> [r.count EXCEPT ![k] = c + 1],
               bytes |-> r.bytes + draw[2], refused |-> r.refused]
      BY <1>1, <1>3, <1>7 DEF Added
    <2>2. r.slots \in [Held -> Seq(Drawings)] /\ r.count \in [Held -> Nat] /\ c <= Len(r.slots[k]) /\ c \in Nat
      BY <1>1 DEF InStorage, Recordings
    <2>3. /\ slot \in Seq(Drawings) /\ c + 1 <= Len(slot) /\ slot[c + 1] = one
          /\ \A i \in 1..c : slot[i] = r.slots[k][i]
      <3> DEFINE slots == r.slots[k]
      <3>1. slots \in Seq(Drawings) /\ Len(slots) \in Nat /\ c <= Len(slots)
        BY <2>2, LenProperties
      <3>2. CASE c = Len(slots)
        <4>1. slot = Append(slots, one)
          BY <3>2
        <4> HIDE DEF slot, slots, one
        <4> QED BY <1>1, <2>2, <3>1, <3>2, <4>1, AppendProperties DEF slots
      <3>3. CASE c # Len(slots)
        <4>1. slot = [slots EXCEPT ![c + 1] = one] /\ c + 1 \in 1..Len(slots)
          BY <2>2, <3>1, <3>3
        <4> HIDE DEF slot, slots, one, c
        <4>2. slot \in Seq(Drawings) /\ Len(slot) = Len(slots) /\ slot[c + 1] = one
              /\ \A i \in 1..Len(slots) : i # c + 1 => slot[i] = slots[i]
          BY <1>1, <3>1, <4>1, ExceptSeq
        <4> QED BY <2>2, <3>1, <4>1, <4>2 DEF slots
      <3> QED BY <3>2, <3>3
    <2> HIDE DEF slot, a
    <2>4. /\ a.slots[k] = slot /\ a.count[k] = c + 1 /\ a.bytes = r.bytes + draw[2] /\ a.refused = r.refused
          /\ a.slots \in [Held -> Seq(Drawings)] /\ a.count \in [Held -> Nat]
          /\ \A j \in Held : j # k => a.slots[j] = r.slots[j] /\ a.count[j] = r.count[j]
      BY <2>1, <2>2, <2>3
    <2>5. InStorage(a)
      <3>1. a \in Recordings
        <4>1. r.bytes + draw[2] \in Nat /\ r.refused \in Nat
          BY <1>1
        <4>2. [r.slots EXCEPT ![k] = slot] \in [Held -> Seq(Drawings)] /\ [r.count EXCEPT ![k] = c + 1] \in [Held -> Nat]
          BY <2>2, <2>3
        <4> HIDE DEF c
        <4> QED BY <2>1, <4>1, <4>2 DEF Recordings
      <3>2. ASSUME NEW j \in Held PROVE a.count[j] <= Len(a.slots[j])
        BY <1>1, <2>3, <2>4 DEF InStorage
      <3> QED BY <3>1, <3>2 DEF InStorage
    <2>6. HeldOf(a, k) = Append(HeldOf(r, k), one)
      <3> DEFINE h == HeldOf(r, k)
                 g == HeldOf(a, k)
      <3>1. /\ h \in Seq(Drawings) /\ Len(h) = c /\ g \in Seq(Drawings) /\ Len(g) = c + 1
            /\ \A i \in 1..c : h[i] = r.slots[k][i]
            /\ \A i \in 1..c + 1 : g[i] = slot[i]
        BY <1>1, <2>4, <2>5, HeldIs
      <3> HIDE DEF h, g, one, c
      <3>2. Append(h, one) \in Seq(Drawings) /\ Len(Append(h, one)) = c + 1 /\ Append(h, one)[c + 1] = one
            /\ \A i \in 1..c : Append(h, one)[i] = h[i]
        BY <1>1, <3>1, AppendProperties
      <3>3. \A i \in 1..c + 1 : g[i] = Append(h, one)[i]
        <4>1. \A i \in 1..c + 1 : i = c + 1 \/ i \in 1..c
          BY <2>2
        <4> QED BY <2>3, <3>1, <3>2, <4>1
      <3>4. g = Append(h, one)
        BY <3>1, <3>2, <3>3, SeqEqual
      <3> QED BY <3>4 DEF h, g
    <2>7. ASSUME NEW j \in Held, j # k PROVE HeldOf(a, j) = HeldOf(r, j)
      BY <2>4, <2>7 DEF HeldOf
    <2> HIDE DEF one, more
    <2>8. ASSUME NEW j \in Held, NEW some \in SUBSET DrawnIn(frame, j), HasDraws(HeldOf(r, j), n, frame, some)
          PROVE  HasDraws(HeldOf(a, j), n, more, IF j = k THEN some \cup {Len(frame) + 1} ELSE some)
      BY <1>4, <2>6, <2>7, <2>8
    <2>9. ASSUME NEW j \in Held PROVE \E some \in SUBSET DrawnIn(more, j) : HasDraws(HeldOf(a, j), n, more, some)
      <3>1. PICK some \in SUBSET DrawnIn(frame, j) : HasDraws(HeldOf(r, j), n, frame, some)
        BY <1>5
      <3>2. (IF j = k THEN some \cup {Len(frame) + 1} ELSE some) \in SUBSET DrawnIn(more, j)
        BY <1>6
      <3> QED BY <2>8, <3>1, <3>2
    <2>10. ASSUME a.refused = 0
           PROVE  /\ \A j \in Held : HasDraws(HeldOf(a, j), n, more, DrawnIn(more, j))
                  /\ a.bytes = BytesOf(more)
      <3>1. r.refused = 0 /\ r.bytes = BytesOf(frame) /\ \A j \in Held : HasDraws(HeldOf(r, j), n, frame, DrawnIn(frame, j))
        BY <2>4, <2>10 DEF RecordOf
      <3>2. \A j \in Held : DrawnIn(more, j) = IF j = k THEN DrawnIn(frame, j) \cup {Len(frame) + 1} ELSE DrawnIn(frame, j)
        BY <1>6
      <3>3. ASSUME NEW j \in Held PROVE HasDraws(HeldOf(a, j), n, more, DrawnIn(more, j))
        <4> DEFINE these == DrawnIn(frame, j)
                   all == IF j = k THEN these \cup {Len(frame) + 1} ELSE these
        <4>1. HasDraws(HeldOf(r, j), n, frame, these) /\ these \in SUBSET DrawnIn(frame, j)
          BY <3>1
        <4>2. HasDraws(HeldOf(a, j), n, more, all)
          BY <2>8, <4>1
        <4>3. DrawnIn(more, j) = all
          BY <3>2
        <4> QED BY <4>2, <4>3
      <3> QED BY <1>2, <2>4, <3>1, <3>3
    <2>11. a.bytes <= Budget /\ a.bytes <= BytesOf(more)
      <3>1. r.bytes + draw[2] <= Budget /\ r.bytes <= BytesOf(frame)
        BY <1>1, <1>7 DEF Reserves, RecordOf
      <3> QED BY <1>1, <1>2, <2>4, <3>1
    <2>12. a.refused = 0 <=> BytesOf(more) <= Budget
      <3>1. r.refused = 0 <=> BytesOf(frame) <= Budget
        BY DEF RecordOf
      <3> QED BY <1>1, <1>2, <2>4, <2>10, <2>11, <3>1
    <2> QED BY <2>5, <2>9, <2>10, <2>11, <2>12 DEF RecordOf, a, one, more
  <1>8. CASE ~Reserves(r, one.bytes)
    <2>1. a = [slots |-> r.slots, count |-> r.count, bytes |-> r.bytes, refused |-> r.refused + 1]
      BY <1>3, <1>8 DEF Added
    <2> HIDE DEF a, one
    <2>2. InStorage(a) /\ a.bytes = r.bytes /\ a.refused # 0
      BY <1>1, <2>1 DEF InStorage, Recordings
    <2>3. \A j \in Held : HeldOf(a, j) = HeldOf(r, j)
      BY <2>1 DEF HeldOf
    <2>4. ASSUME NEW j \in Held PROVE \E some \in SUBSET DrawnIn(more, j) : HasDraws(HeldOf(a, j), n, more, some)
      <3>1. PICK some \in SUBSET DrawnIn(frame, j) : HasDraws(HeldOf(r, j), n, frame, some)
        BY <1>5
      <3>2. HasDraws(HeldOf(a, j), n, more, some)
        <4> HIDE DEF more
        <4> QED BY <1>4, <2>3, <3>1
      <3>3. some \in SUBSET DrawnIn(more, j)
        <4> HIDE DEF more
        <4> QED BY <1>6
      <3> QED BY <3>2, <3>3
    <2> HIDE DEF more
    <2>5. r.bytes <= Budget /\ r.bytes <= BytesOf(frame) /\ r.bytes + draw[2] > Budget
      BY <1>1, <1>8 DEF RecordOf, Reserves
    <2>6. ~(BytesOf(more) <= Budget) /\ r.bytes <= BytesOf(more)
      BY <1>1, <1>2, <2>5
    <2> QED BY <2>2, <2>4, <2>5, <2>6 DEF RecordOf, a, one, more
  <1> QED BY <1>7, <1>8

SnapshotFrames == [complete : BOOLEAN, held : Seq(Drawings)]
Shapes == [lists : Nat, assemblies : Nat, bytes : Nat, complete : BOOLEAN, index : Nat]

RecordsOf(rec, fs) ==
  /\ rec = [inFlight |-> rec.inFlight, completed |-> rec.completed, previous |-> rec.previous]
  /\ InStorage(rec.completed) /\ InStorage(rec.previous)
  /\ RecordOf(rec.inFlight, Len(fs), fs[Len(fs)])
  /\ Len(fs) > 1 => RecordOf(rec.completed, Len(fs) - 1, fs[Len(fs) - 1])
  /\ Len(fs) > 2 => RecordOf(rec.previous, Len(fs) - 2, fs[Len(fs) - 2])

\* Snapshot frames taken in a row are of the frames after frame n.
InARow(some, n, fs) ==
  \A i \in 1..Len(some) :
    TellsOf(some[i].complete, some[i].held, n + i, fs[n + i], "assembly")

SnapshotOf(s, fs) ==
  /\ s = [wanted |-> s.wanted, filling |-> s.filling, ready |-> s.ready, since |-> s.since, of |-> s.of]
  /\ s.wanted \in Nat /\ s.since \in Nat /\ s.of \in Nat
  /\ s.filling \in Seq(SnapshotFrames) /\ s.ready \in Seq(SnapshotFrames)
  /\ s.wanted > 0 => s.since + Len(s.filling) = Len(fs) - 1 /\ InARow(s.filling, s.since, fs)
  /\ s.of + Len(s.ready) <= Len(fs) - 1 /\ InARow(s.ready, s.of, fs)

ShapeTells(shape, n, frame) ==
  /\ shape.index = n - 1
  /\ shape.complete <=> BytesOf(frame) <= Budget
  /\ shape.complete => shape.lists = Cardinality(DrawnIn(frame, "list"))

ShapesOf(s, fs) ==
  /\ s = [kept |-> s.kept, logged |-> s.logged] /\ s.logged = Len(fs) - 1
  /\ s.kept \in Seq(Shapes) /\ Len(s.kept) <= Len(fs) - 1
  /\ \A i \in 1..Len(s.kept) :
       ShapeTells(s.kept[i], Len(fs) - 1 - Len(s.kept) + i, fs[Len(fs) - 1 - Len(s.kept) + i])

Settled(fs) == fs \in Seq(Seq(Draws)) /\ Len(fs) >= 1 /\ Len(fs) \in Nat

RecorderInv ==
  Settled(frames) /\ RecordsOf(recorder, frames) /\ SnapshotOf(snapshot, frames) /\ ShapesOf(shapes, frames)

\* What is said of the frames that ended is so whatever is drawn in the last.
LEMMA EndedFramesStay ==
  ASSUME NEW fs, NEW gs, Settled(fs), Len(gs) = Len(fs), \A n \in 1..Len(fs) - 1 : gs[n] = fs[n]
  PROVE  /\ \A s : SnapshotOf(s, fs) => SnapshotOf(s, gs)
         /\ \A s : ShapesOf(s, fs) => ShapesOf(s, gs)
  <1> DEFINE m == Len(fs) - 1
  <1>1. m \in Nat /\ Len(fs) = m + 1
    BY DEF Settled
  <1>2. ASSUME NEW some, NEW n \in Nat, Len(some) \in Nat, n + Len(some) <= m, InARow(some, n, fs)
        PROVE InARow(some, n, gs)
    <2>1. \A i \in 1..Len(some) : n + i \in 1..Len(fs) - 1
      BY <1>1, <1>2
    <2> QED BY <1>2, <2>1 DEF InARow
  <1>3. ASSUME NEW s, SnapshotOf(s, fs) PROVE SnapshotOf(s, gs)
    <2>1. Len(s.filling) \in Nat /\ Len(s.ready) \in Nat
      BY <1>3, LenProperties DEF SnapshotOf
    <2>2. s.of + Len(s.ready) <= m /\ s.of \in Nat /\ InARow(s.ready, s.of, fs)
      BY <1>3 DEF SnapshotOf
    <2>3. InARow(s.ready, s.of, gs)
      BY <1>2, <2>1, <2>2
    <2>4. ASSUME s.wanted > 0 PROVE InARow(s.filling, s.since, gs)
      <3>1. s.since + Len(s.filling) = m /\ s.since \in Nat /\ InARow(s.filling, s.since, fs)
        BY <1>3, <2>4 DEF SnapshotOf
      <3> QED BY <1>1, <1>2, <2>1, <3>1
    <2> QED BY <1>3, <2>3, <2>4 DEF SnapshotOf
  <1>4. ASSUME NEW s, ShapesOf(s, fs) PROVE ShapesOf(s, gs)
    <2>1. Len(s.kept) \in Nat /\ Len(s.kept) <= m
      BY <1>4, LenProperties DEF ShapesOf
    <2>2. ASSUME NEW i \in 1..Len(s.kept) PROVE m - Len(s.kept) + i \in 1..Len(fs) - 1
      <3> DEFINE c == Len(s.kept)
      <3>1. c \in Nat /\ c <= m /\ i \in 1..c /\ m \in Nat
        BY <1>1, <2>1
      <3> HIDE DEF c, m
      <3>2. m - c + i \in 1..m
        BY <3>1
      <3> QED BY <3>2 DEF c, m
    <2> QED BY <1>4, <2>2 DEF ShapesOf
  <1> QED BY <1>3, <1>4

\* No frame has ended at first, and nothing is held.
LEMMA RecorderBegins == RecorderInit => RecorderInv
  <1> SUFFICES ASSUME RecorderInit PROVE RecorderInv
    OBVIOUS
  <1>1. frames \in Seq(Seq(Draws)) /\ Len(frames) = 1 /\ frames[1] = <<>>
    BY EmptySeq DEF RecorderInit
  <1>2. InStorage(NoRecording)
    <2> DEFINE slots == [k \in Held |-> <<>>]
               count == [k \in Held |-> 0]
    <2>1. slots \in [Held -> Seq(Drawings)] /\ count \in [Held -> Nat]
      OBVIOUS
    <2>2. \A k \in Held : count[k] <= Len(slots[k])
      OBVIOUS
    <2> HIDE DEF slots, count
    <2>3. NoRecording = [slots |-> slots, count |-> count, bytes |-> 0, refused |-> 0]
      BY DEF NoRecording, slots, count
    <2> QED BY <2>1, <2>2, <2>3 DEF InStorage, Recordings
  <1>3. Cleared(NoRecording) = NoRecording
    <2> DEFINE none == [k \in Held |-> 0]
               slots == [k \in Held |-> <<>>]
    <2>1. NoRecording = [slots |-> slots, count |-> none, bytes |-> 0, refused |-> 0]
      BY DEF NoRecording
    <2>2. Cleared(NoRecording) = [NoRecording EXCEPT !.count = none, !.bytes = 0, !.refused = 0]
      BY DEF Cleared
    <2> HIDE DEF none, slots
    <2> QED BY <2>1, <2>2
  <1>4. RecordOf(NoRecording, 1, <<>>)
    BY <1>2, <1>3, ClearedRecords
  <1>5. RecordsOf(recorder, frames)
    BY <1>1, <1>2, <1>4 DEF RecordsOf, RecorderInit
  <1>6. SnapshotOf(snapshot, frames)
    BY <1>1 DEF SnapshotOf, InARow, RecorderInit
  <1>7. ShapesOf(shapes, frames)
    BY <1>1 DEF ShapesOf, RecorderInit
  <1> QED BY <1>1, <1>5, <1>6, <1>7 DEF RecorderInv, Settled

\* A draw of the guest's own is recorded of the frame being drawn.
LEMMA DrawKeeps ==
  ASSUME RecorderInv, NEW draw \in Draws, NEW k \in Held, GuestDraws(k, draw), Records(k, draw),
         UNCHANGED <<snapshot, shapes>>
  PROVE  RecorderInv'
  <1> DEFINE n == Len(frames)
             more == Append(frames[n], draw)
             one == [of |-> n, bytes |-> draw[2]]
             added == Added(recorder.inFlight, k, one)
  <1>1. /\ frames \in Seq(Seq(Draws)) /\ n \in Nat /\ n \in 1..n /\ frames[n] \in Seq(Draws)
        /\ draw[1] = k
    <2>1. n \in 1..Len(frames) /\ frames \in Seq(Seq(Draws)) /\ n \in Nat
      BY DEF RecorderInv, Settled
    <2> QED BY <2>1, ElementOfSeq DEF GuestDraws
  <1>2. frames' = [frames EXCEPT ![n] = more] /\ more \in Seq(Draws)
    BY <1>1, AppendProperties DEF GuestDraws, Frame
  <1> HIDE DEF more
  <1>3. /\ frames' \in Seq(Seq(Draws)) /\ Len(frames') = n /\ frames'[n] = more
        /\ \A i \in 1..n : i # n => frames'[i] = frames[i]
    BY <1>1, <1>2, ExceptSeq
  <1>4. \A i \in 1..n - 1 : i \in 1..n /\ i # n
    BY <1>1
  <1>5. RecordOf(added, n, more)
    <2>1. RecordOf(recorder.inFlight, n, frames[n])
      BY DEF RecorderInv, RecordsOf
    <2> HIDE DEF n
    <2> QED BY <1>1, <2>1, AddedRecords DEF more
  <1>6. recorder' = [inFlight |-> added, completed |-> recorder.completed, previous |-> recorder.previous]
    <2>1. recorder' = [recorder EXCEPT !.inFlight = Added(@, k, one)]
      BY DEF Records, DrawnBy, Frame
    <2> QED BY <2>1 DEF RecorderInv, RecordsOf
  <1> HIDE DEF added, one
  <1>7. RecordsOf(recorder', frames')
    <2>1. /\ InStorage(recorder.completed) /\ InStorage(recorder.previous)
          /\ n > 1 => RecordOf(recorder.completed, n - 1, frames[n - 1])
          /\ n > 2 => RecordOf(recorder.previous, n - 2, frames[n - 2])
      <3>1. RecordsOf(recorder, frames)
        BY DEF RecorderInv
      <3> QED BY <3>1 DEF RecordsOf
    <2>2. (n > 1 => frames'[n - 1] = frames[n - 1]) /\ (n > 2 => frames'[n - 2] = frames[n - 2])
      <3>1. n \in Nat /\ \A i \in 1..n : i # n => frames'[i] = frames[i]
        BY <1>1, <1>3
      <3> HIDE DEF n
      <3>2. (n > 1 => n - 1 \in 1..n /\ n - 1 # n) /\ (n > 2 => n - 2 \in 1..n /\ n - 2 # n)
        BY <3>1
      <3> QED BY <3>1, <3>2
    <2> HIDE DEF n
    <2> QED BY <1>3, <1>5, <1>6, <2>1, <2>2 DEF RecordsOf
  <1>8. SnapshotOf(snapshot, frames') /\ ShapesOf(shapes, frames')
    BY <1>3, <1>4, EndedFramesStay DEF RecorderInv
  <1>9. Settled(frames')
    BY <1>1, <1>3 DEF Settled
  <1>10. snapshot' = snapshot /\ shapes' = shapes
    OBVIOUS
  <1> QED BY <1>7, <1>8, <1>9, <1>10 DEF RecorderInv

\* What the frame that ends is logged as is its shape, after those still kept.
LEMMA ShapeLogged ==
  ASSUME NEW fs, Settled(fs), ShapesOf(shapes, fs), NEW r, RecordOf(r, Len(fs), fs[Len(fs)]), LogsShape(r)
  PROVE  ShapesOf(shapes', Append(fs, <<>>))
  <1> DEFINE n == Len(fs)
             gs == Append(fs, <<>>)
             shape == ShapeOf(r)
             all == Append(shapes.kept, shape)
             c == Len(shapes.kept)
             out == 1 + (c + 1) - (IF c + 1 > LogDepth THEN LogDepth ELSE c + 1)
             kept == SubSeq(all, out, c + 1)
  <1>1. /\ n \in Nat /\ n >= 1 /\ Len(gs) = n + 1 /\ \A i \in 1..n : gs[i] = fs[i]
    <2>1. <<>> \in Seq(Draws)
      BY EmptySeq
    <2> QED BY <2>1, AppendProperties DEF Settled
  <1>2. c \in Nat /\ c <= n - 1 /\ shapes.kept \in Seq(Shapes) /\ shapes.logged = n - 1
    BY LenProperties DEF ShapesOf
  <1>3. shape \in Shapes /\ ShapeTells(shape, n, fs[n])
    <2>1. InStorage(r) /\ TellsOf(IsComplete(r), HeldOf(r, "list"), n, fs[n], "list")
      BY RecordTells DEF RecordOf, Held
    <2>2. Len(HeldOf(r, "list")) = r.count["list"] /\ r.count \in [Held -> Nat] /\ r.bytes \in Nat
      BY <2>1, HeldIs DEF InStorage, Recordings, Held
    <2>3. shape = [lists |-> r.count["list"], assemblies |-> r.count["assembly"], bytes |-> r.bytes,
                   complete |-> IsComplete(r), index |-> n - 1]
      BY <1>2 DEF ShapeOf
    <2>4. IsComplete(r) \in BOOLEAN /\ r.count["list"] \in Nat /\ r.count["assembly"] \in Nat /\ n - 1 \in Nat
      BY <1>1, <2>2 DEF IsComplete, Held
    <2> HIDE DEF shape, n
    <2>5. shape \in Shapes
      BY <2>2, <2>3, <2>4 DEF Shapes
    <2>6. ShapeTells(shape, n, fs[n])
      BY <2>1, <2>2, <2>3 DEF ShapeTells, TellsOf, HasDraws
    <2> QED BY <2>5, <2>6
  <1> HIDE DEF shape
  <1>4. /\ all \in Seq(Shapes) /\ Len(all) = c + 1 /\ all[c + 1] = shape
        /\ \A i \in 1..c : all[i] = shapes.kept[i]
    BY <1>2, <1>3, AppendProperties
  <1> HIDE DEF all
  <1>5. shapes' = [kept |-> kept, logged |-> n]
    <2>1. shapes' = [kept |-> SubSeq(all, 1 + Len(all) - (IF Len(all) > LogDepth THEN LogDepth ELSE Len(all)), Len(all)),
                     logged |-> shapes.logged + 1]
      BY DEF LogsShape, all, shape
    <2>2. 1 + Len(all) - (IF Len(all) > LogDepth THEN LogDepth ELSE Len(all)) = out /\ Len(all) = c + 1
      BY <1>4
    <2>3. shapes.logged + 1 = n
      BY <1>1, <1>2
    <2> HIDE DEF out, c, n
    <2> QED BY <2>1, <2>2, <2>3
  <1>6. out \in Nat /\ out >= 1 /\ out <= c + 2
    <2>1. c \in Nat /\ LogDepth \in Nat
      BY <1>2, DrawsAreOfBytes
    <2> HIDE DEF c, kept, gs, n
    <2> QED BY <2>1
  <1> HIDE DEF out, c, n
  <1>7. /\ kept \in Seq(Shapes) /\ Len(kept) = c + 2 - out
        /\ \A i \in 1..c + 2 - out : kept[i] = all[out + i - 1]
    <2>1. CASE out = c + 2
      <3>1. kept = <<>>
        BY <1>2, <1>4, <1>6, <2>1, SubSeqProperties
      <3> QED BY <1>2, <2>1, <3>1
    <2>2. CASE out <= c + 1
      <3>1. out \in 1..Len(all) /\ c + 1 \in 1..Len(all)
        BY <1>2, <1>4, <1>6, <2>2
      <3>2. /\ kept \in Seq(Shapes) /\ Len(kept) = (c + 1) - out + 1
            /\ \A i \in 1..(c + 1) - out + 1 : kept[i] = all[out + i - 1]
        BY <1>2, <1>4, <1>6, <2>2, <3>1, SubSeqProperties
      <3> QED BY <1>2, <1>6, <3>2
    <2> QED BY <1>2, <1>6, <2>1, <2>2
  <1> HIDE DEF kept
  <1>8. ASSUME NEW i \in 1..Len(kept)
        PROVE ShapeTells(kept[i], n - Len(kept) + i, gs[n - Len(kept) + i])
    <2> DEFINE at == out + i - 1
    <2>1. at \in 1..c + 1 /\ n - Len(kept) + i = n - 1 - c + at /\ kept[i] = all[at] /\ n - 1 - c + at \in 1..n
      BY <1>1, <1>2, <1>6, <1>7
    <2> HIDE DEF at
    <2>2. CASE at = c + 1
      <3>1. n - 1 - c + at = n /\ gs[n] = fs[n]
        BY <1>1, <1>2, <2>2
      <3> HIDE DEF gs
      <3> QED BY <1>3, <1>4, <2>1, <2>2, <3>1
    <2>3. CASE at \in 1..c
      <3>1. ShapeTells(shapes.kept[at], n - 1 - c + at, fs[n - 1 - c + at])
        BY <2>3 DEF ShapesOf, c, n
      <3> DEFINE of == n - 1 - c + at
      <3>2. gs[of] = fs[of] /\ kept[i] = shapes.kept[at]
        BY <1>1, <1>4, <2>1, <2>3
      <3>3. n - Len(kept) + i = of
        BY <2>1
      <3> HIDE DEF gs, of
      <3>4. ShapeTells(shapes.kept[at], of, fs[of])
        BY <3>1 DEF of
      <3> QED BY <3>2, <3>3, <3>4
    <2>4. at = c + 1 \/ at \in 1..c
      BY <1>2, <2>1
    <2> HIDE DEF gs
    <2> QED BY <2>2, <2>3, <2>4
  <1>9. Len(kept) <= n
    BY <1>1, <1>2, <1>6, <1>7
  <1>10. Len(gs) - 1 = n
    BY <1>1
  <1> HIDE DEF gs
  <1> QED BY <1>5, <1>7, <1>8, <1>9, <1>10 DEF ShapesOf, gs

\* A snapshot put together from its parts.
LEMMA SnapshotMade ==
  ASSUME NEW fs, NEW wanted \in Nat, NEW since \in Nat, NEW of \in Nat,
         NEW filling \in Seq(SnapshotFrames), NEW ready \in Seq(SnapshotFrames),
         wanted > 0 => since + Len(filling) = Len(fs) - 1 /\ InARow(filling, since, fs),
         of + Len(ready) <= Len(fs) - 1, InARow(ready, of, fs)
  PROVE  SnapshotOf([wanted |-> wanted, filling |-> filling, ready |-> ready, since |-> since, of |-> of], fs)
  BY DEF SnapshotOf

\* The frame that ends is the next in the snapshot being filled, if one is.
LEMMA SnapshotFilled ==
  ASSUME NEW fs, Settled(fs), SnapshotOf(snapshot, fs), NEW r, RecordOf(r, Len(fs), fs[Len(fs)]),
         FillsSnapshot(r)
  PROVE  SnapshotOf(snapshot', Append(fs, <<>>))
  <1> DEFINE n == Len(fs)
             gs == Append(fs, <<>>)
             one == [complete |-> IsComplete(r), held |-> HeldOf(r, "assembly")]
             filled == Append(snapshot.filling, one)
             c == Len(snapshot.filling)
  <1>1. /\ n \in Nat /\ n >= 1 /\ Len(gs) = n + 1 /\ \A i \in 1..n : gs[i] = fs[i]
    <2>1. <<>> \in Seq(Draws)
      BY EmptySeq
    <2> QED BY <2>1, AppendProperties DEF Settled
  <1>2. /\ snapshot = [wanted |-> snapshot.wanted, filling |-> snapshot.filling, ready |-> snapshot.ready,
                       since |-> snapshot.since, of |-> snapshot.of]
        /\ snapshot.wanted \in Nat /\ snapshot.since \in Nat /\ snapshot.of \in Nat
        /\ snapshot.filling \in Seq(SnapshotFrames) /\ snapshot.ready \in Seq(SnapshotFrames)
        /\ snapshot.wanted > 0 => snapshot.since + c = n - 1 /\ InARow(snapshot.filling, snapshot.since, fs)
        /\ snapshot.of + Len(snapshot.ready) <= n - 1 /\ InARow(snapshot.ready, snapshot.of, fs)
    BY DEF SnapshotOf
  <1>3. c \in Nat /\ Len(snapshot.ready) \in Nat
    BY <1>2, LenProperties
  <1>4. one \in SnapshotFrames /\ TellsOf(one.complete, one.held, n, fs[n], "assembly")
    <2>1. InStorage(r) /\ TellsOf(IsComplete(r), HeldOf(r, "assembly"), n, fs[n], "assembly")
      BY RecordTells DEF RecordOf, Held
    <2>2. HeldOf(r, "assembly") \in Seq(Drawings) /\ IsComplete(r) \in BOOLEAN
      BY <2>1, HeldIs DEF Held, IsComplete
    <2> QED BY <2>1, <2>2 DEF SnapshotFrames
  <1> HIDE DEF one
  <1>5. /\ filled \in Seq(SnapshotFrames) /\ Len(filled) = c + 1 /\ filled[c + 1] = one
        /\ \A i \in 1..c : filled[i] = snapshot.filling[i]
    BY <1>2, <1>4, AppendProperties
  <1>6. InARow(snapshot.ready, snapshot.of, gs)
    <2>1. \A i \in 1..Len(snapshot.ready) : gs[snapshot.of + i] = fs[snapshot.of + i]
      <3>1. \A i \in 1..Len(snapshot.ready) : snapshot.of + i \in 1..n
        BY <1>1, <1>2, <1>3
      <3> HIDE DEF gs, n
      <3> QED BY <1>1, <3>1
    <2> HIDE DEF gs
    <2> QED BY <1>2, <2>1 DEF InARow
  <1> HIDE DEF filled, n, c, gs
  <1>7. ASSUME snapshot.wanted > 0 PROVE snapshot.since + Len(filled) = n /\ InARow(filled, snapshot.since, gs)
    <2>1. snapshot.since + c = n - 1 /\ InARow(snapshot.filling, snapshot.since, fs)
      BY <1>2, <1>7
    <2>2. ASSUME NEW i \in 1..Len(filled)
          PROVE TellsOf(filled[i].complete, filled[i].held, snapshot.since + i, gs[snapshot.since + i], "assembly")
      <3> DEFINE at == snapshot.since + i
      <3>1. at \in 1..n /\ gs[at] = fs[at]
        <4>1. snapshot.since \in Nat /\ snapshot.since + c = n - 1 /\ i \in 1..c + 1
          BY <1>2, <1>5, <2>1
        <4>2. at \in 1..n
          BY <1>1, <1>3, <4>1
        <4> HIDE DEF at
        <4>3. gs[at] = fs[at]
          BY <1>1, <4>2
        <4> QED BY <4>2, <4>3
      <3>2. CASE i = c + 1
        <4>1. at = n /\ filled[i] = one
          <5>1. filled[i] = one
            BY <1>5, <3>2
          <5>2. snapshot.since \in Nat /\ c \in Nat /\ n \in Nat /\ snapshot.since + c = n - 1
            BY <1>1, <1>2, <1>3, <2>1
          <5>3. at = n
            BY <3>2, <5>2
          <5> QED BY <5>1, <5>3
        <4> HIDE DEF at
        <4>2. TellsOf(filled[i].complete, filled[i].held, at, gs[at], "assembly")
          BY <1>4, <3>1, <4>1
        <4> QED BY <4>2 DEF at
      <3>3. CASE i \in 1..c
        <4>1. filled[i] = snapshot.filling[i]
          BY <1>5, <3>3
        <4>2. TellsOf(snapshot.filling[i].complete, snapshot.filling[i].held, at, fs[at], "assembly")
          BY <2>1, <3>3 DEF InARow, c
        <4> HIDE DEF at
        <4>3. TellsOf(filled[i].complete, filled[i].held, at, gs[at], "assembly")
          BY <3>1, <4>1, <4>2
        <4> QED BY <4>3 DEF at
      <3> QED BY <1>3, <1>5, <3>2, <3>3
    <2>3. snapshot.since + Len(filled) = n
      BY <1>1, <1>2, <1>3, <1>5, <2>1
    <2> QED BY <2>2, <2>3 DEF InARow
  <1>8. Len(gs) - 1 = n
    BY <1>1
  <1>9. \/ snapshot.wanted = 0 /\ snapshot' = snapshot
        \/ snapshot.wanted # 0 /\ snapshot' = [snapshot EXCEPT !.filling = filled]
        \/ snapshot.wanted # 0 /\ snapshot' = [snapshot EXCEPT !.ready = filled, !.filling = <<>>, !.wanted = 0,
                                               !.of = snapshot.since]
    BY DEF FillsSnapshot, filled, one
  <1>10. CASE snapshot.wanted = 0 /\ snapshot' = snapshot
    <2>1. snapshot.of + Len(snapshot.ready) <= n
      BY <1>1, <1>2, <1>3
    <2>2. snapshot.of + Len(snapshot.ready) <= Len(gs) - 1
      BY <1>8, <2>1
    <2>3. SnapshotOf([wanted |-> snapshot.wanted, filling |-> snapshot.filling, ready |-> snapshot.ready,
                      since |-> snapshot.since, of |-> snapshot.of], gs)
      <3>1. ~(snapshot.wanted > 0)
        BY <1>10
      <3> QED BY <1>2, <1>6, <2>2, <3>1, SnapshotMade
    <2> QED BY <1>2, <1>10, <2>3 DEF gs
  <1>11. CASE snapshot.wanted # 0 /\ snapshot' = [snapshot EXCEPT !.filling = filled]
    <2>1. snapshot' = [wanted |-> snapshot.wanted, filling |-> filled, ready |-> snapshot.ready,
                       since |-> snapshot.since, of |-> snapshot.of]
      BY <1>2, <1>11
    <2>2. snapshot.of + Len(snapshot.ready) <= n /\ snapshot.wanted > 0
      BY <1>1, <1>2, <1>3, <1>11
    <2>3. /\ snapshot.of + Len(snapshot.ready) <= Len(gs) - 1
          /\ snapshot.since + Len(filled) = Len(gs) - 1 /\ InARow(filled, snapshot.since, gs)
      BY <1>7, <1>8, <2>2
    <2>4. SnapshotOf([wanted |-> snapshot.wanted, filling |-> filled, ready |-> snapshot.ready,
                      since |-> snapshot.since, of |-> snapshot.of], gs)
      BY <1>2, <1>5, <1>6, <2>3, SnapshotMade
    <2> QED BY <2>1, <2>4 DEF gs
  <1>12. CASE snapshot.wanted # 0 /\ snapshot' = [snapshot EXCEPT !.ready = filled, !.filling = <<>>, !.wanted = 0,
                                                  !.of = snapshot.since]
    <2>1. snapshot' = [wanted |-> 0, filling |-> <<>>, ready |-> filled,
                       since |-> snapshot.since, of |-> snapshot.since]
      BY <1>2, <1>12
    <2>2. snapshot.wanted > 0
      BY <1>2, <1>12
    <2>3. snapshot.since + Len(filled) <= n
      BY <1>1, <1>7, <2>2
    <2>4. <<>> \in Seq(SnapshotFrames)
      BY EmptySeq
    <2>5. snapshot.since + Len(filled) <= Len(gs) - 1 /\ InARow(filled, snapshot.since, gs) /\ ~(0 > 0)
      BY <1>7, <1>8, <2>2, <2>3
    <2>6. SnapshotOf([wanted |-> 0, filling |-> <<>>, ready |-> filled,
                      since |-> snapshot.since, of |-> snapshot.since], gs)
      BY <1>2, <1>5, <2>4, <2>5, SnapshotMade
    <2> QED BY <2>1, <2>6 DEF gs
  <1> QED BY <1>9, <1>10, <1>11, <1>12

\* The frame that ends is published, and the storage of the one two before it is drawn into next.
LEMMA FrameKeepsRecords == ASSUME RecorderInv, OnFrameComplete PROVE RecorderInv'
  <1> DEFINE n == Len(frames)
             gs == Append(frames, <<>>)
  <1>1. /\ n \in Nat /\ n >= 1 /\ gs \in Seq(Seq(Draws)) /\ Len(gs) = n + 1 /\ gs[n + 1] = <<>>
        /\ \A i \in 1..n : gs[i] = frames[i]
    <2>1. <<>> \in Seq(Draws)
      BY EmptySeq
    <2> QED BY <2>1, AppendProperties DEF RecorderInv, Settled
  <1>2. RecordsOf(recorder, frames)
    BY DEF RecorderInv
  <1>3. /\ RecordOf(recorder.inFlight, n, frames[n]) /\ InStorage(recorder.inFlight)
        /\ InStorage(recorder.completed) /\ InStorage(recorder.previous)
        /\ n > 1 => RecordOf(recorder.completed, n - 1, frames[n - 1])
    BY <1>2 DEF RecordsOf, RecordOf
  <1>4. recorder' = [previous |-> recorder.completed, completed |-> recorder.inFlight,
                     inFlight |-> Cleared(recorder.previous)]
    BY DEF OnFrameComplete, Rotated
  <1>5. frames' = gs
    BY DEF OnFrameComplete
  <1> HIDE DEF gs
  <1>6. RecordsOf(recorder', gs)
    <2>1. RecordOf(Cleared(recorder.previous), n + 1, <<>>)
      BY <1>3, ClearedRecords
    <2>2. gs[n] = frames[n] /\ (n > 1 => gs[n - 1] = frames[n - 1])
      <3> HIDE DEF n
      <3>1. n \in 1..n /\ (n > 1 => n - 1 \in 1..n)
        BY <1>1
      <3> QED BY <1>1, <3>1
    <2> HIDE DEF n
    <2>3. (n + 1) - 1 = n /\ (n + 1) - 2 = n - 1 /\ (n + 1 > 2 => n > 1)
      BY <1>1
    <2> QED BY <1>1, <1>3, <1>4, <2>1, <2>2, <2>3 DEF RecordsOf
  <1>7. recorder'.completed = recorder.inFlight
    BY <1>4
  <1>8. LogsShape(recorder.inFlight) /\ FillsSnapshot(recorder.inFlight)
    <2>1. LogsShape(recorder'.completed) /\ FillsSnapshot(recorder'.completed)
      BY DEF OnFrameComplete
    <2> QED BY <1>7, <2>1 DEF LogsShape, ShapeOf, FillsSnapshot
  <1>9. SnapshotOf(snapshot', gs) /\ ShapesOf(shapes', gs)
    BY <1>3, <1>8, SnapshotFilled, ShapeLogged DEF RecorderInv, gs
  <1>10. Settled(gs)
    <2> HIDE DEF n
    <2> QED BY <1>1 DEF Settled
  <1> QED BY <1>5, <1>6, <1>9, <1>10 DEF RecorderInv

\* A snapshot armed, or refused because one is being filled.
LEMMA PostRecordingsKeeps == ASSUME RecorderInv, NEW count, PostRecordings(count) PROVE RecorderInv'
  <1>1. recorder' = recorder /\ shapes' = shapes /\ frames' = frames
    BY DEF PostRecordings
  <1>2. SnapshotOf(snapshot', frames)
    <2>1. SnapshotOf(snapshot, frames) /\ Settled(frames)
      BY DEF RecorderInv
    <2>2. CASE Arms(count)
      <3>1. snapshot' = [wanted |-> count, filling |-> <<>>, ready |-> snapshot.ready,
                         since |-> Len(frames) - 1, of |-> snapshot.of]
        BY <2>1, <2>2 DEF PostRecordings, SnapshotOf, Frame
      <3>2. count \in Nat /\ Len(frames) - 1 \in Nat /\ <<>> \in Seq(SnapshotFrames)
        BY <2>1, <2>2, EmptySeq DEF Arms, Settled
      <3>3. InARow(<<>>, Len(frames) - 1, frames)
        BY DEF InARow
      <3>4. (Len(frames) - 1) + Len(<<>>) = Len(frames) - 1
        BY <2>1 DEF Settled
      <3> QED BY <2>1, <3>1, <3>2, <3>3, <3>4 DEF SnapshotOf
    <2>3. CASE ~Arms(count)
      BY <2>1, <2>3 DEF PostRecordings
    <2> QED BY <2>2, <2>3
  <1> QED BY <1>1, <1>2 DEF RecorderInv

\* Draws, frames and requests keep the recordings, the snapshot and the shapes of the frames.
LEMMA RecorderKeeps == RecorderInv /\ [RecorderNext]_recorderVars => RecorderInv'
  <1>1. RecorderInv /\ UNCHANGED recorderVars => RecorderInv'
    BY DEF recorderVars, RecorderInv
  <1>2. ASSUME RecorderInv, NEW draw \in Draws, NEW fromRuntime, NEW topLevel,
               OnDisplayList(draw, fromRuntime, topLevel)
        PROVE  RecorderInv'
    <2>1. "list" \in Held
      BY DEF Held
    <2>2. \/ GuestDraws("list", draw) /\ Records("list", draw) /\ UNCHANGED <<snapshot, shapes>>
          \/ UNCHANGED recorderVars
      BY <1>2 DEF OnDisplayList, recorderVars
    <2> QED BY <1>1, <1>2, <2>1, <2>2, DrawKeeps
  <1>3. ASSUME RecorderInv, NEW draw \in Draws, NEW fromRuntime, OnUniformAssembly(draw, fromRuntime)
        PROVE  RecorderInv'
    <2>1. "assembly" \in Held
      BY DEF Held
    <2>2. \/ GuestDraws("assembly", draw) /\ Records("assembly", draw) /\ UNCHANGED <<snapshot, shapes>>
          \/ UNCHANGED recorderVars
      BY <1>3 DEF OnUniformAssembly, recorderVars
    <2> QED BY <1>1, <1>3, <2>1, <2>2, DrawKeeps
  <1> QED BY <1>1, <1>2, <1>3, FrameKeepsRecords, PostRecordingsKeeps DEF RecorderNext

\* What the invariant says of the recorder is what a tool reads of it.
LEMMA RecorderTells ==
  ASSUME RecorderInv
  PROVE  RecordingsAreFrames /\ SnapshotIsConsecutive /\ ShapesAreLast
  <1>1. \A complete, held, n, k : Tells(complete, held, n, k) <=> TellsOf(complete, held, n, frames[n], k)
    BY DEF Tells, TellsOf
  <1>2. RecordingsAreFrames
    <2>1. RecordsOf(recorder, frames) /\ Len(frames) \in Nat
      BY DEF RecorderInv, Settled
    <2>2. ASSUME NEW k \in Held, Len(frames) > 1
          PROVE  Tells(IsComplete(recorder.completed), HeldOf(recorder.completed, k), Len(frames) - 1, k)
      BY <1>1, <2>1, <2>2, RecordTells DEF RecordsOf
    <2>3. ASSUME NEW k \in Held, Len(frames) > 2
          PROVE  Tells(IsComplete(recorder.previous), HeldOf(recorder.previous, k), Len(frames) - 2, k)
      BY <1>1, <2>1, <2>3, RecordTells DEF RecordsOf
    <2> QED BY <2>2, <2>3 DEF RecordingsAreFrames, Frame
  <1>3. SnapshotIsConsecutive
    <2>1. DOMAIN snapshot.ready = 1..Len(snapshot.ready) /\ InARow(snapshot.ready, snapshot.of, frames)
      BY LenProperties DEF RecorderInv, SnapshotOf
    <2> QED BY <1>1, <2>1 DEF SnapshotIsConsecutive, InARow
  <1>4. ShapesAreLast
    <2>1. /\ DOMAIN shapes.kept = 1..Len(shapes.kept)
          /\ \A i \in 1..Len(shapes.kept) :
               ShapeTells(shapes.kept[i], Len(frames) - 1 - Len(shapes.kept) + i,
                          frames[Len(frames) - 1 - Len(shapes.kept) + i])
      BY LenProperties DEF RecorderInv, ShapesOf
    <2> QED BY <2>1 DEF ShapesAreLast, ShapeTells, Frame
  <1> QED BY <1>2, <1>3, <1>4

-----------------------------------------------------------------------------
(* The snapshot on the wire.                                                *)

\* A beginning one longer has one more.
LEMMA OneLonger ==
  ASSUME NEW T, NEW s \in Seq(T), NEW i \in 1..Len(s)
  PROVE  /\ SubSeq(s, 1, i) = Append(SubSeq(s, 1, i - 1), s[i])
         /\ SubSeq(s, 1, 0) = <<>> /\ SubSeq(s, 1, Len(s)) = s
  <1> DEFINE a == SubSeq(s, 1, i)
             b == SubSeq(s, 1, i - 1)
             n == Len(s)
  <1>1. n \in Nat /\ i \in Nat /\ i >= 1 /\ i <= n /\ \A j \in 1..n : s[j] \in T
    BY LenProperties, ElementOfSeq
  <1>2. a \in Seq(T) /\ Len(a) = i /\ \A j \in 1..i : a[j] = s[j]
    <2>1. \A j \in 1..i : s[j] \in T
      BY <1>1
    <2> HIDE DEF n
    <2> QED BY <1>1, <2>1, SubSeqProperties
  <1>3. b \in Seq(T) /\ Len(b) = i - 1 /\ \A j \in 1..i - 1 : b[j] = s[j]
    <2>1. \A j \in 1..i - 1 : s[j] \in T
      BY <1>1
    <2> HIDE DEF n
    <2> QED BY <1>1, <2>1, SubSeqProperties
  <1> HIDE DEF a, b
  <1>4. /\ Append(b, s[i]) \in Seq(T) /\ Len(Append(b, s[i])) = i
        /\ Append(b, s[i])[i] = s[i] /\ \A j \in 1..i - 1 : Append(b, s[i])[j] = s[j]
    BY <1>1, <1>3, AppendProperties
  <1>5. a = Append(b, s[i])
    <2>1. \A j \in 1..i : a[j] = Append(b, s[i])[j]
      <3>1. \A j \in 1..i : j = i \/ j \in 1..i - 1
        BY <1>1
      <3> QED BY <1>2, <1>4, <3>1
    <2> QED BY <1>2, <1>4, <2>1, SeqEqual
  <1>6. SubSeq(s, 1, 0) = <<>>
    BY SubSeqEmpty
  <1>7. SubSeq(s, 1, n) = s
    <2>1. SubSeq(s, 1, n) \in Seq(T) /\ Len(SubSeq(s, 1, n)) = n /\ \A j \in 1..n : SubSeq(s, 1, n)[j] = s[j]
      <3> HIDE DEF n
      <3> QED BY <1>1, SubSeqProperties
    <2> QED BY <2>1, SeqEqual
  <1> QED BY <1>5, <1>6, <1>7 DEF a, b

\* Sequences put end to end: each is where the ones before it end.
LEMMA EndToEnd ==
  ASSUME NEW T, NEW seqs \in Seq(Seq(T))
  PROVE  /\ FlattenSeq(seqs) \in Seq(T)
         /\ \E ends \in [0..Len(seqs) -> Nat] :
              /\ ends[0] = 0 /\ ends[Len(seqs)] = Len(FlattenSeq(seqs))
              /\ \A i \in 1..Len(seqs) :
                   /\ ends[i] = ends[i - 1] + Len(seqs[i]) /\ ends[i] <= ends[Len(seqs)]
                   /\ \A j \in 1..Len(seqs[i]) : FlattenSeq(seqs)[ends[i - 1] + j] = seqs[i][j]
  <1> DEFINE n == Len(seqs)
             step == [s \in Nat \X Seq(T) |-> IF s[1] \in 1..n THEN s[2] \o seqs[s[1]] ELSE s[2]]
  <1>1. n \in Nat /\ \A i \in 1..n : seqs[i] \in Seq(T) /\ Len(seqs[i]) \in Nat
    <2>1. \A i \in 1..n : seqs[i] \in Seq(T)
      BY ElementOfSeq
    <2> QED BY <2>1, LenProperties
  <1>2. step \in [Nat \X Seq(T) -> Seq(T)]
    <2>1. ASSUME NEW s \in Nat \X Seq(T) PROVE (IF s[1] \in 1..n THEN s[2] \o seqs[s[1]] ELSE s[2]) \in Seq(T)
      <3>1. s[2] \in Seq(T)
        OBVIOUS
      <3> HIDE DEF n
      <3> QED BY <1>1, <3>1, ConcatProperties
    <2> QED BY <2>1
  <1>3. PICK g : Steps(g, <<>>, step, n) /\ \A i \in 0..n : g[i] \in Seq(T)
    <2>1. <<>> \in Seq(T)
      BY EmptySeq
    <2> HIDE DEF step, n
    <2> QED BY <1>1, <1>2, <2>1, StepsTaken
  <1>4. g[0] = <<>> /\ \A i \in 1..n : g[i] = g[i - 1] \o seqs[i]
    <2>1. \A i \in 1..n : i \in Nat /\ i - 1 \in 0..n /\ g[i - 1] \in Seq(T)
      BY <1>1, <1>3
    <2> HIDE DEF n
    <2> QED BY <1>3, <2>1 DEF Steps
  <1> HIDE DEF step
  <1>4a. ASSUME n # 0 PROVE g[1] = seqs[1]
    <2>1. 1 \in 1..n /\ 1 - 1 = 0
      BY <1>1, <1>4a
    <2>2. g[1] = g[1 - 1] \o seqs[1] /\ seqs[1] \in Seq(T)
      <3> HIDE DEF n
      <3> QED BY <1>1, <1>4, <2>1
    <2> QED BY <1>4, <2>1, <2>2, ConcatEmptySeq
  <1>5. FlattenSeq(seqs) = g[n]
    <2>1. CASE n = 0
      BY <1>1, <1>4, <2>1, EmptySeq DEF FlattenSeq
    <2>2. CASE n # 0
      <3> DEFINE Def(h) == [i \in 1..n |-> IF i = 1 THEN seqs[i] ELSE h[i - 1] \o seqs[i]]
                 flatten == CHOOSE h : h = Def(h)
                 f == [i \in 1..n |-> g[i]]
      <3>1. FlattenSeq(seqs) = flatten[n]
        BY <2>2 DEF FlattenSeq
      <3>2. f = Def(f)
        <4>1. ASSUME NEW i \in 1..n PROVE g[i] = IF i = 1 THEN seqs[i] ELSE f[i - 1] \o seqs[i]
          <5>1. CASE i = 1
            BY <1>4a, <2>2, <5>1
          <5>2. CASE i # 1
            <6>1. i - 1 \in 1..n
              BY <1>1, <5>2
            <6> HIDE DEF n
            <6> QED BY <1>4, <5>2, <6>1
          <5> QED BY <5>1, <5>2
        <4> HIDE DEF n
        <4>2. Def(f) = [i \in 1..n |-> g[i]]
          <5> HIDE DEF f
          <5> QED BY <4>1
        <4> QED BY <4>2
      <3>3. flatten = Def(flatten)
        <4> HIDE DEF f
        <4> QED BY <3>2
      <3> HIDE DEF flatten, f, n
      <3>4. \A i \in 1..n : flatten[i] = IF i = 1 THEN seqs[i] ELSE flatten[i - 1] \o seqs[i]
        BY <3>3
      <3> DEFINE a == [i \in 0..n - 1 |-> flatten[i + 1]]
                 b == [i \in 0..n - 1 |-> g[i + 1]]
      <3>5. \A i \in 0..n - 1 : a[i] = b[i]
        <4>1. a[0] = b[0]
          <5>1. 1 \in 1..n /\ 0 \in 0..n - 1
            BY <1>1, <2>2
          <5>2. flatten[1] = seqs[1] /\ g[1] = seqs[1]
            BY <1>4a, <2>2, <3>4, <5>1
          <5>3. a[0] = flatten[1] /\ b[0] = g[1]
            BY <5>1
          <5> QED BY <5>2, <5>3
        <4>2. ASSUME NEW i \in 1..n - 1, a[i - 1] = b[i - 1] PROVE a[i] = b[i]
          <5>1. i - 1 \in 0..n - 1 /\ i \in 0..n - 1 /\ (i - 1) + 1 = i /\ i + 1 \in 1..n /\ i + 1 # 1 /\ (i + 1) - 1 = i
            BY <1>1
          <5>2. flatten[i] = g[i]
            BY <4>2, <5>1
          <5> DEFINE j == i + 1
          <5>3. j \in 1..n /\ j # 1 /\ j - 1 = i
            BY <5>1
          <5> HIDE DEF j
          <5>4. flatten[j] = flatten[j - 1] \o seqs[j] /\ g[j] = g[j - 1] \o seqs[j]
            BY <1>4, <3>4, <5>3
          <5>5. flatten[j] = g[j]
            BY <5>2, <5>3, <5>4
          <5>6. a[i] = flatten[j] /\ b[i] = g[j]
            BY <5>1 DEF j
          <5> QED BY <5>5, <5>6
        <4>3. n - 1 \in Nat
          BY <1>1, <2>2
        <4> HIDE DEF a, b
        <4> QED BY <4>1, <4>2, <4>3, StepByStep
      <3>6. n - 1 \in 0..n - 1 /\ (n - 1) + 1 = n
        BY <1>1, <2>2
      <3> QED BY <3>1, <3>5, <3>6 DEF flatten
    <2> QED BY <2>1, <2>2
  <1> DEFINE ends == [i \in 0..n |-> Len(g[i])]
             whole == g[n]
  <1> HIDE DEF n
  <1>6. ends \in [0..n -> Nat] /\ ends[0] = 0 /\ \A i \in 0..n : ends[i] = Len(g[i]) /\ ends[i] \in Nat
    <2>1. \A i \in 0..n : Len(g[i]) \in Nat
      BY <1>3, LenProperties
    <2> QED BY <1>1, <1>4, <2>1
  <1>7. ASSUME NEW i \in 1..n
        PROVE  /\ i \in 0..n /\ i - 1 \in 0..n /\ ends[i] = ends[i - 1] + Len(seqs[i])
               /\ \A j \in 1..ends[i - 1] : g[i][j] = g[i - 1][j]
               /\ \A j \in 1..Len(seqs[i]) : g[i][ends[i - 1] + j] = seqs[i][j]
    <2>0. i \in 0..n /\ i - 1 \in 0..n
      BY <1>1
    <2>1. g[i] = g[i - 1] \o seqs[i] /\ g[i - 1] \in Seq(T) /\ seqs[i] \in Seq(T)
      BY <1>1, <1>3, <1>4, <2>0
    <2> DEFINE s == g[i - 1]
               t == seqs[i]
    <2>2. /\ Len(s \o t) = Len(s) + Len(t)
          /\ \A j \in 1..Len(s) + Len(t) : (s \o t)[j] = IF j <= Len(s) THEN s[j] ELSE t[j - Len(s)]
          /\ Len(s) \in Nat /\ Len(t) \in Nat
      BY <2>1, ConcatProperties, LenProperties
    <2>3. ends[i] = Len(s \o t) /\ ends[i - 1] = Len(s) /\ g[i] = s \o t
      BY <1>6, <2>0, <2>1
    <2> HIDE DEF s, t, ends
    <2>4. \A j \in 1..Len(s) : (s \o t)[j] = s[j]
      BY <2>2
    <2>5. ASSUME NEW j \in 1..Len(t) PROVE (s \o t)[Len(s) + j] = t[j]
      <3>1. Len(s) + j \in 1..Len(s) + Len(t) /\ ~(Len(s) + j <= Len(s)) /\ (Len(s) + j) - Len(s) = j
        BY <2>2
      <3> QED BY <2>2, <3>1
    <2> QED BY <2>0, <2>2, <2>3, <2>4, <2>5 DEF s, t
  <1> HIDE DEF ends
  <1> DEFINE Begins(i, m) == ends[i] <= ends[m] /\ \A j \in 1..ends[i] : g[m][j] = g[i][j]
             S == {m \in Nat : m <= n => \A i \in 0..m : Begins(i, m)}
  <1>8. S = Nat
    <2>1. 0 \in S
      <3>1. Begins(0, 0)
        BY <1>6
      <3>2. \A i \in 0..0 : i = 0
        OBVIOUS
      <3> HIDE DEF Begins
      <3> QED BY <3>1, <3>2
    <2>2. ASSUME NEW m \in S PROVE m + 1 \in S
      <3> SUFFICES ASSUME m + 1 <= n, NEW i \in 0..m + 1 PROVE Begins(i, m + 1)
        OBVIOUS
      <3>1. m + 1 \in 1..n /\ (m + 1) - 1 = m /\ m \in 0..n /\ m + 1 \in 0..n
        BY <1>1
      <3>2. CASE i = m + 1
        BY <1>6, <3>1, <3>2
      <3>3. CASE i # m + 1
        <4>1. i \in 0..m /\ i \in 0..n /\ m <= n
          BY <1>1, <3>3
        <4>2. Begins(i, m)
          <5> HIDE DEF Begins
          <5> QED BY <4>1
        <4>3. /\ ends[m + 1] = ends[m] + Len(seqs[m + 1]) /\ Len(seqs[m + 1]) \in Nat
              /\ \A j \in 1..ends[m] : g[m + 1][j] = g[m][j]
          BY <1>1, <1>7, <3>1
        <4>4. ends[i] \in Nat /\ ends[m] \in Nat
          BY <1>6, <3>1, <4>1
        <4> QED BY <4>2, <4>3, <4>4
      <3> HIDE DEF Begins
      <3> QED BY <3>2, <3>3
    <2> HIDE DEF S
    <2> QED BY <2>1, <2>2, NaturalsByOne DEF S
  <1>9. \A i \in 0..n : Begins(i, n)
    <2> HIDE DEF Begins
    <2>1. n \in S /\ n <= n
      <3> HIDE DEF S
      <3> QED BY <1>1, <1>8
    <2> QED BY <2>1
  <1>10. ASSUME NEW i \in 1..n
         PROVE  /\ ends[i] = ends[i - 1] + Len(seqs[i]) /\ ends[i] <= ends[n]
                /\ \A j \in 1..Len(seqs[i]) : g[n][ends[i - 1] + j] = seqs[i][j]
    <2>1. /\ i \in 0..n /\ i - 1 \in 0..n /\ ends[i] = ends[i - 1] + Len(seqs[i])
          /\ \A j \in 1..Len(seqs[i]) : g[i][ends[i - 1] + j] = seqs[i][j]
          /\ ends[i - 1] \in Nat /\ Len(seqs[i]) \in Nat /\ ends[i] \in Nat
      BY <1>1, <1>6, <1>7
    <2>2. Begins(i, n)
      <3> HIDE DEF Begins
      <3> QED BY <1>9, <2>1
    <2>3. \A j \in 1..Len(seqs[i]) : ends[i - 1] + j \in 1..ends[i]
      BY <2>1
    <2> QED BY <2>1, <2>2, <2>3
  <1>11. n \in 0..n /\ g[n] \in Seq(T) /\ ends[n] = Len(g[n])
    BY <1>1, <1>3, <1>6
  <1> HIDE DEF S, Begins
  <1> QED BY <1>5, <1>6, <1>10, <1>11 DEF n

\* A function of 1 to n is a sequence that long.
LEMMA FunctionIsSeq ==
  ASSUME NEW T, NEW n \in Nat, NEW f \in [1..n -> T]
  PROVE  f \in Seq(T) /\ Len(f) = n
  <1>1. f \in Seq(T)
    BY SeqDef
  <1>2. 1..Len(f) = 1..n /\ Len(f) \in Nat
    BY <1>1, LenProperties
  <1> DEFINE m == Len(f)
  <1> HIDE DEF m
  <1>3. ASSUME m \in Nat, 1..m = 1..n PROVE m = n
    <2>1. CASE m > n
      <3>1. m \in 1..m /\ m \notin 1..n
        BY <1>3, <2>1
      <3> QED BY <1>3, <3>1
    <2>2. CASE n > m
      <3>1. n \in 1..n /\ n \notin 1..m
        BY <1>3, <2>2
      <3> QED BY <1>3, <3>1
    <2> QED BY <1>3, <2>1, <2>2
  <1> QED BY <1>1, <1>2, <1>3 DEF m

\* The tokens from a place on are those of a whole, as far as there are any.
Lays(tokens, from, whole) ==
  \A j \in 1..Len(whole) : from + j - 1 <= Len(tokens) => tokens[from + j - 1] = whole[j]

\* A header of two tokens and what it heads.
LEMMA Headed ==
  ASSUME NEW a \in Int, NEW b \in Int, NEW data \in Seq(Int)
  PROVE  /\ <<a, b>> \o data \in Seq(Int) /\ Len(<<a, b>> \o data) = 2 + Len(data)
         /\ (<<a, b>> \o data)[1] = a /\ (<<a, b>> \o data)[2] = b
         /\ \A j \in 1..Len(data) : (<<a, b>> \o data)[2 + j] = data[j]
  <1> DEFINE front == <<a, b>>
             n == Len(data)
  <1>1. n \in Nat
    BY LenProperties
  <1>2. front \in Seq(Int) /\ Len(front) = 2 /\ front[1] = a /\ front[2] = b
    OBVIOUS
  <1> HIDE DEF front
  <1>3. /\ front \o data \in Seq(Int) /\ Len(front \o data) = Len(front) + Len(data)
        /\ \A i \in 1..Len(front) + Len(data) :
             (front \o data)[i] = IF i <= Len(front) THEN front[i] ELSE data[i - Len(front)]
    BY <1>2, ConcatProperties
  <1> DEFINE all == front \o data
  <1> HIDE DEF all, n
  <1>4. /\ all \in Seq(Int) /\ Len(all) = 2 + n
        /\ \A i \in 1..2 + n : all[i] = IF i <= 2 THEN front[i] ELSE data[i - 2]
    BY <1>2, <1>3 DEF all, n
  <1>5. 1 \in 1..2 + n /\ 2 \in 1..2 + n
    BY <1>1
  <1>6. all[1] = a /\ all[2] = b
    BY <1>2, <1>4, <1>5
  <1>7. ASSUME NEW j \in 1..n PROVE all[2 + j] = data[j]
    <2> DEFINE i == 2 + j
    <2>1. i \in 1..2 + n /\ ~(i <= 2) /\ i - 2 = j
      BY <1>1
    <2> HIDE DEF i
    <2>2. all[i] = data[j]
      BY <1>4, <2>1
    <2> QED BY <2>2 DEF i
  <1> QED BY <1>4, <1>6, <1>7 DEF all, front, n

\* An assembly framed is its header and as many tokens as it has bytes.
LEMMA AssemblyIsFramed ==
  ASSUME NEW held \in Drawings
  PROVE  /\ FramedAssembly(held) \in Seq(Int) /\ Len(FramedAssembly(held)) = 2 + held.bytes
         /\ FramedAssembly(held)[1] = held.of /\ FramedAssembly(held)[2] = held.bytes
  <1> DEFINE data == [i \in 1..held.bytes |-> held.of]
  <1>1. held.of \in Nat /\ held.bytes \in Nat
    BY DEF Drawings
  <1>2. data \in [1..held.bytes -> Int]
    BY <1>1
  <1> HIDE DEF data
  <1>3. data \in Seq(Int) /\ Len(data) = held.bytes
    BY <1>1, <1>2, FunctionIsSeq
  <1>4. held.of \in Int /\ held.bytes \in Int
    BY <1>1
  <1>5. FramedAssembly(held) = <<held.of, held.bytes>> \o data
    BY DEF FramedAssembly, data
  <1> QED BY <1>3, <1>4, <1>5, Headed

\* A frame's assemblies, framed one after another.
Inside(held) == FlattenSeq([i \in DOMAIN held |-> FramedAssembly(held[i])])

\* What is read where assemblies were laid is those assemblies, or nothing where one is cut short.
LEMMA AssembliesRead ==
  ASSUME NEW held \in Seq(Drawings), NEW tokens, Len(tokens) \in Nat, NEW from \in Nat \ {0},
         from <= Len(tokens) + 1,
         Lays(tokens, from, Inside(held))
  PROVE  /\ Inside(held) \in Seq(Int)
         /\ TakesAssemblies(tokens, from, Len(held)) =
              IF from + Len(Inside(held)) - 1 <= Len(tokens)
              THEN [at |-> from + Len(Inside(held)), took |-> held] ELSE Past
  <1> DEFINE n == Len(held)
             size == Len(tokens)
             items == [i \in DOMAIN held |-> FramedAssembly(held[i])]
             whole == FlattenSeq(items)
             start == [at |-> from, took |-> <<>>]
             Onward(x) == IF Ended(x, tokens, 2) THEN Past
                        ELSE LET at == x.at
                                 bytes == tokens[at + 1]
                             IN IF Ended([at |-> at + 2], tokens, bytes) THEN Past
                                ELSE [at |-> at + 2 + bytes,
                                      took |-> Append(x.took, [of |-> tokens[at], bytes |-> bytes])]
             Def(h) == [i \in 0..n |-> IF i = 0 THEN start ELSE Onward(h[i - 1])]
             took == CHOOSE h : h = Def(h)
  <1>1. /\ n \in Nat /\ DOMAIN held = 1..n /\ \A i \in 1..n : held[i] \in Drawings
        /\ \A i \in 1..n : held[i].of \in Nat /\ held[i].bytes \in Nat
    <2>1. n \in Nat /\ DOMAIN held = 1..n /\ \A i \in 1..n : held[i] \in Drawings
      BY LenProperties, ElementOfSeq
    <2> QED BY <2>1 DEF Drawings
  <1>2. items \in Seq(Seq(Int)) /\ Len(items) = n /\ \A i \in 1..n : items[i] = FramedAssembly(held[i])
    <2>1. items \in [1..n -> Seq(Int)]
      <3> HIDE DEF n
      <3> QED BY <1>1, AssemblyIsFramed
    <2>2. \A i \in 1..n : items[i] = FramedAssembly(held[i])
      <3> HIDE DEF n
      <3> QED BY <1>1
    <2> HIDE DEF items, n
    <2> QED BY <1>1, <2>1, <2>2, FunctionIsSeq
  <1> HIDE DEF items, whole
  <1>3. PICK ends \in [0..n -> Nat] :
          /\ ends[0] = 0 /\ ends[n] = Len(whole)
          /\ \A i \in 1..n : /\ ends[i] = ends[i - 1] + Len(items[i]) /\ ends[i] <= ends[n]
                             /\ \A j \in 1..Len(items[i]) : whole[ends[i - 1] + j] = items[i][j]
    <2>1. \E ends \in [0..Len(items) -> Nat] :
            /\ ends[0] = 0 /\ ends[Len(items)] = Len(FlattenSeq(items))
            /\ \A i \in 1..Len(items) :
                 /\ ends[i] = ends[i - 1] + Len(items[i]) /\ ends[i] <= ends[Len(items)]
                 /\ \A j \in 1..Len(items[i]) : FlattenSeq(items)[ends[i - 1] + j] = items[i][j]
      <3>1. items \in Seq(Seq(Int))
        BY <1>2
      <3> QED BY <3>1, EndToEnd
    <2>2. Len(items) = n
      BY <1>2
    <2> HIDE DEF n
    <2> QED BY <2>1, <2>2 DEF whole
  <1>4. whole \in Seq(Int)
    BY <1>2, EndToEnd DEF whole
  <1> DEFINE Right(i) == IF from + ends[i] - 1 <= size
                         THEN [at |-> from + ends[i], took |-> SubSeq(held, 1, i)] ELSE Past
             g == [i \in 0..n |-> Right(i)]
  <1> HIDE DEF n, size
  <1>5. Right(0) = start
    <2>1. SubSeq(held, 1, 0) = <<>>
      BY SubSeqEmpty
    <2> QED BY <1>3, <2>1 DEF size
  <1>6. ASSUME NEW i \in 1..n PROVE Onward(Right(i - 1)) = Right(i)
    <2> DEFINE e == ends[i - 1]
               at == from + e
               bytes == held[i].bytes
    <2>1. /\ i \in 0..n /\ i - 1 \in 0..n /\ e \in Nat /\ ends[i] \in Nat
          /\ bytes \in Nat /\ held[i].of \in Nat /\ held[i] \in Drawings
      <3>1. i \in 0..n /\ i - 1 \in 0..n
        BY <1>1
      <3> QED BY <1>1, <1>3, <3>1
    <2>2. /\ Len(items[i]) = 2 + bytes /\ items[i][1] = held[i].of /\ items[i][2] = bytes
      BY <1>2, <2>1, AssemblyIsFramed
    <2>3. /\ ends[i] = e + 2 + bytes /\ ends[i] <= Len(whole)
          /\ whole[e + 1] = held[i].of /\ whole[e + 2] = bytes
      <3>1. /\ ends[i] = e + Len(items[i]) /\ ends[i] <= ends[n]
            /\ \A j \in 1..Len(items[i]) : whole[e + j] = items[i][j]
        BY <1>3
      <3> HIDE DEF e, bytes
      <3>2. 1 \in 1..Len(items[i]) /\ 2 \in 1..Len(items[i])
        <4>1. Len(items[i]) = 2 + bytes /\ bytes \in Nat
          BY <2>1, <2>2
        <4> QED BY <4>1
      <3>3. ends[i] = e + 2 + bytes
        BY <2>1, <2>2, <3>1
      <3> QED BY <1>3, <2>2, <3>1, <3>2, <3>3
    <2>4. Len(whole) \in Nat /\ size \in Nat
      BY <1>4, LenProperties DEF size
    <2>4a. /\ e \in Nat /\ bytes \in Nat /\ size \in Nat /\ Len(whole) \in Nat /\ from \in Nat
          /\ ends[i] = e + 2 + bytes /\ ends[i] <= Len(whole)
      BY <2>1, <2>3, <2>4
    <2>5. SubSeq(held, 1, i) = Append(SubSeq(held, 1, i - 1), held[i])
      BY OneLonger DEF n
    <2>6. held[i] = [of |-> held[i].of, bytes |-> bytes]
      BY <2>1 DEF Drawings
    <2> HIDE DEF e, bytes
    <2>7. CASE ~(from + e - 1 <= size)
      <3>1. Right(i - 1) = Past
        BY <2>7 DEF e
      <3>2. ~(from + ends[i] - 1 <= size)
        <4>1. ends[i] = e + 2 + bytes /\ e \in Nat /\ bytes \in Nat /\ size \in Nat /\ from \in Nat
          BY <2>1, <2>3, <2>4
        <4> QED BY <2>7, <4>1
      <3>3. Onward(Past) = Past
        BY DEF Ended, Past
      <3> QED BY <3>1, <3>2, <3>3
    <2>8. CASE from + e - 1 <= size
      <3> DEFINE x == [at |-> at, took |-> SubSeq(held, 1, i - 1)]
      <3>1. Right(i - 1) = x /\ x.at = at /\ x.took = SubSeq(held, 1, i - 1) /\ at # 0 /\ at \in Nat
        BY <2>1, <2>8 DEF e
      <3> HIDE DEF x, Right
      <3>2. CASE ~(at + 1 <= size)
        <4>1. Ended(x, tokens, 2)
          <5>1. x.at = at /\ at \in Nat /\ at # 0 /\ Len(tokens) \in Nat
            BY <3>1
          <5>2. ~(at + 1 <= Len(tokens))
            BY <3>2 DEF size
          <5> HIDE DEF at
          <5> QED BY <5>1, <5>2 DEF Ended
        <4>2. ~(from + ends[i] - 1 <= size)
          <5>1. ends[i] = e + 2 + bytes /\ e \in Nat /\ bytes \in Nat /\ size \in Nat /\ from \in Nat
            BY <2>4a
          <5> QED BY <3>2, <5>1
        <4> QED BY <3>1, <4>1, <4>2 DEF Right
      <3>3. CASE at + 1 <= size
        <4>1. ~Ended(x, tokens, 2)
          <5>1. x.at = at /\ at \in Nat /\ at # 0 /\ Len(tokens) \in Nat
            BY <3>1
          <5>2. at + 1 <= Len(tokens)
            BY <3>3 DEF size
          <5> HIDE DEF at
          <5> QED BY <5>1, <5>2 DEF Ended
        <4>2. tokens[at] = held[i].of /\ tokens[at + 1] = bytes
          <5>1. e + 1 \in 1..Len(whole) /\ e + 2 \in 1..Len(whole)
            BY <2>4a
          <5>2. \A j \in 1..Len(whole) : from + j - 1 <= size => tokens[from + j - 1] = whole[j]
            BY DEF Lays, Inside, whole, items, size
          <5>3. from + (e + 1) - 1 = at /\ from + (e + 2) - 1 = at + 1 /\ at <= size
            BY <2>1, <2>4, <3>3
          <5> HIDE DEF at
          <5>4. tokens[from + (e + 1) - 1] = whole[e + 1] /\ tokens[from + (e + 2) - 1] = whole[e + 2]
            BY <3>3, <5>1, <5>2, <5>3
          <5> QED BY <2>3, <5>3, <5>4
        <4>3. from + ends[i] - 1 = at + 2 + bytes - 1 /\ from + ends[i] = at + 2 + bytes
          BY <2>1, <2>3
        <4> HIDE DEF at
        <4>4. Onward(x) = IF Ended([at |-> at + 2], tokens, bytes) THEN Past
                        ELSE [at |-> at + 2 + bytes, took |-> Append(x.took, [of |-> held[i].of, bytes |-> bytes])]
          BY <3>1, <4>1, <4>2
        <4>5. Ended([at |-> at + 2], tokens, bytes) <=> ~(at + 2 + bytes - 1 <= size)
          <5>1. at \in Nat /\ bytes \in Nat /\ size \in Nat /\ at + 2 # 0
            BY <2>1, <2>4, <3>1 DEF at
          <5>2. Len(tokens) = size
            BY DEF size
          <5> QED BY <5>1, <5>2 DEF Ended
        <4> HIDE DEF Onward
        <4>6. Append(x.took, [of |-> held[i].of, bytes |-> bytes]) = SubSeq(held, 1, i)
          BY <2>5, <2>6, <3>1
        <4> QED BY <3>1, <4>3, <4>4, <4>5, <4>6 DEF Right
      <3> QED BY <3>2, <3>3
    <2> QED BY <2>7, <2>8
  <1> HIDE DEF Right, Onward, start
  <1>7. g = Def(g)
    <2>1. ASSUME NEW i \in 0..n PROVE Right(i) = IF i = 0 THEN start ELSE Onward(g[i - 1])
      <3>1. CASE i = 0
        BY <1>5, <3>1
      <3>2. CASE i # 0
        <4>1. i \in 1..n /\ i - 1 \in 0..n
          BY <1>1, <3>2
        <4> QED BY <1>6, <3>2, <4>1
      <3> QED BY <3>1, <3>2
    <2>2. Def(g) = [i \in 0..n |-> Right(i)]
      <3> HIDE DEF g
      <3> QED BY <2>1
    <2> QED BY <2>2
  <1>8. took = Def(took)
    <2> HIDE DEF g
    <2> QED BY <1>7
  <1>9. TakesAssemblies(tokens, from, n) = took[n]
    BY DEF TakesAssemblies, Onward, start
  <1> HIDE DEF took
  <1>10. took[0] = start /\ \A i \in 1..n : took[i] = Onward(took[i - 1])
    <2>1. 0 \in 0..n /\ \A i \in 1..n : i \in 0..n /\ i # 0
      BY <1>1
    <2>2. \A i \in 0..n : took[i] = IF i = 0 THEN start ELSE Onward(took[i - 1])
      BY <1>8
    <2> QED BY <2>1, <2>2
  <1>11. \A i \in 0..n : took[i] = g[i]
    <2>1. took[0] = g[0]
      BY <1>1, <1>5, <1>10
    <2>2. ASSUME NEW i \in 1..n, took[i - 1] = g[i - 1] PROVE took[i] = g[i]
      <3>1. i \in 0..n /\ i - 1 \in 0..n
        BY <1>1
      <3>2. g[i] = Right(i) /\ g[i - 1] = Right(i - 1)
        BY <3>1
      <3> HIDE DEF g
      <3> QED BY <1>6, <1>10, <2>2, <3>2
    <2>3. n \in Nat
      BY <1>1
    <2> HIDE DEF g
    <2>4. \A i \in 1..n : took[i - 1] = g[i - 1] => took[i] = g[i]
      BY <2>2
    <2> DEFINE S == {i \in Nat : i \in 0..n => took[i] = g[i]}
    <2>5. 0 \in S
      BY <2>1
    <2>6. ASSUME NEW i \in S PROVE i + 1 \in S
      <3> DEFINE j == i + 1
      <3>1. j \in Nat /\ j - 1 = i /\ (j \in 0..n => j \in 1..n /\ i \in 0..n)
        BY <2>3
      <3> HIDE DEF j
      <3>2. j \in 0..n => took[j] = g[j]
        BY <2>4, <3>1
      <3> QED BY <3>1, <3>2 DEF j
    <2> HIDE DEF S
    <2>7. S \subseteq Nat
      BY DEF S
    <2>8. S = Nat
      BY <2>5, <2>6, <2>7, NaturalsByOne
    <2> QED BY <2>3, <2>8 DEF S
  <1>12. took[n] = Right(n)
    BY <1>1, <1>11
  <1>13. SubSeq(held, 1, n) = held
    <2>1. CASE n = 0
      <3>1. held = <<>> /\ SubSeq(held, 1, n) = <<>>
        BY <2>1, SubSeqEmpty, EmptySeq DEF n
      <3> QED BY <3>1
    <2>2. CASE n # 0
      <3>1. 1 \in 1..Len(held)
        BY <1>1, <2>2 DEF n
      <3> QED BY <3>1, OneLonger DEF n
    <2> QED BY <2>1, <2>2
  <1>14. TakesAssemblies(tokens, from, n) =
           IF from + Len(whole) - 1 <= size THEN [at |-> from + Len(whole), took |-> held] ELSE Past
    BY <1>3, <1>9, <1>12, <1>13 DEF Right
  <1> QED BY <1>4, <1>14 DEF Inside, whole, items, n, size

\* A frame framed is its header and its assemblies.
LEMMA FrameIsFramed ==
  ASSUME NEW frame \in SnapshotFrames
  PROVE  /\ Inside(frame.held) \in Seq(Int)
         /\ FramedFrame(frame) \in Seq(Int) /\ Len(FramedFrame(frame)) = 2 + Len(Inside(frame.held))
         /\ FramedFrame(frame)[1] = (IF frame.complete THEN 1 ELSE 0)
         /\ FramedFrame(frame)[2] = Len(frame.held)
         /\ \A j \in 1..Len(Inside(frame.held)) : FramedFrame(frame)[2 + j] = Inside(frame.held)[j]
  <1> DEFINE items == [i \in DOMAIN frame.held |-> FramedAssembly(frame.held[i])]
             said == IF frame.complete THEN 1 ELSE 0
  <1>1. frame.held \in Seq(Drawings) /\ frame.complete \in BOOLEAN
    BY DEF SnapshotFrames
  <1>2. /\ Len(frame.held) \in Nat /\ DOMAIN frame.held = 1..Len(frame.held)
        /\ \A i \in 1..Len(frame.held) : frame.held[i] \in Drawings
    BY <1>1, LenProperties, ElementOfSeq
  <1>3. items \in [1..Len(frame.held) -> Seq(Int)]
    BY <1>2, AssemblyIsFramed
  <1>4. items \in Seq(Seq(Int))
    <2> HIDE DEF items
    <2> QED BY <1>2, <1>3, FunctionIsSeq
  <1>5. Inside(frame.held) \in Seq(Int)
    <2>1. FlattenSeq(items) \in Seq(Int)
      <3> HIDE DEF items
      <3> QED BY <1>4, EndToEnd
    <2> QED BY <2>1 DEF Inside
  <1>6. said \in Int /\ Len(frame.held) \in Int
    BY <1>2
  <1>7. FramedFrame(frame) = <<said, Len(frame.held)>> \o Inside(frame.held)
    BY DEF FramedFrame, Inside
  <1> HIDE DEF said
  <1>8. /\ FramedFrame(frame) \in Seq(Int) /\ Len(FramedFrame(frame)) = 2 + Len(Inside(frame.held))
        /\ FramedFrame(frame)[1] = said /\ FramedFrame(frame)[2] = Len(frame.held)
        /\ \A j \in 1..Len(Inside(frame.held)) : FramedFrame(frame)[2 + j] = Inside(frame.held)[j]
    BY <1>5, <1>6, <1>7, Headed
  <1> QED BY <1>5, <1>8 DEF said

\* A snapshot's frames, framed one after another.
Laid(ready) == FlattenSeq([i \in DOMAIN ready |-> FramedFrame(ready[i])])

\* What is read where frames were laid is those frames, or nothing where one is cut short.
LEMMA FramesRead ==
  ASSUME NEW ready \in Seq(SnapshotFrames), NEW tokens, Len(tokens) \in Nat, NEW from \in Nat \ {0},
         from <= Len(tokens) + 1,
         Lays(tokens, from, Laid(ready))
  PROVE  /\ Laid(ready) \in Seq(Int)
         /\ TakesFrames(tokens, from, Len(ready)) =
              IF from + Len(Laid(ready)) - 1 <= Len(tokens)
              THEN [at |-> from + Len(Laid(ready)), took |-> ready] ELSE Past
  <1> DEFINE n == Len(ready)
             size == Len(tokens)
             items == [i \in DOMAIN ready |-> FramedFrame(ready[i])]
             whole == FlattenSeq(items)
             start == [at |-> from, took |-> <<>>]
             Onward(x) == IF Ended(x, tokens, 2) THEN Past
                        ELSE LET at == x.at
                                 inside == TakesAssemblies(tokens, at + 2, tokens[at + 1])
                             IN IF inside.at = 0 THEN Past
                                ELSE [at |-> inside.at,
                                      took |-> Append(x.took, [complete |-> tokens[at] # 0, held |-> inside.took])]
             Def(h) == [i \in 0..n |-> IF i = 0 THEN start ELSE Onward(h[i - 1])]
             took == CHOOSE h : h = Def(h)
  <1>1. /\ n \in Nat /\ DOMAIN ready = 1..n /\ \A i \in 1..n : ready[i] \in SnapshotFrames
        /\ \A i \in 1..n : ready[i].complete \in BOOLEAN /\ ready[i].held \in Seq(Drawings)
    <2>1. n \in Nat /\ DOMAIN ready = 1..n /\ \A i \in 1..n : ready[i] \in SnapshotFrames
      BY LenProperties, ElementOfSeq
    <2> QED BY <2>1 DEF SnapshotFrames
  <1>2. items \in Seq(Seq(Int)) /\ Len(items) = n /\ \A i \in 1..n : items[i] = FramedFrame(ready[i])
    <2>1. items \in [1..n -> Seq(Int)]
      <3> HIDE DEF n
      <3> QED BY <1>1, FrameIsFramed
    <2>2. \A i \in 1..n : items[i] = FramedFrame(ready[i])
      <3> HIDE DEF n
      <3> QED BY <1>1
    <2> HIDE DEF items, n
    <2> QED BY <1>1, <2>1, <2>2, FunctionIsSeq
  <1> HIDE DEF items, whole
  <1>3. PICK ends \in [0..n -> Nat] :
          /\ ends[0] = 0 /\ ends[n] = Len(whole)
          /\ \A i \in 1..n : /\ ends[i] = ends[i - 1] + Len(items[i]) /\ ends[i] <= ends[n]
                             /\ \A j \in 1..Len(items[i]) : whole[ends[i - 1] + j] = items[i][j]
    <2>1. \E ends \in [0..Len(items) -> Nat] :
            /\ ends[0] = 0 /\ ends[Len(items)] = Len(FlattenSeq(items))
            /\ \A i \in 1..Len(items) :
                 /\ ends[i] = ends[i - 1] + Len(items[i]) /\ ends[i] <= ends[Len(items)]
                 /\ \A j \in 1..Len(items[i]) : FlattenSeq(items)[ends[i - 1] + j] = items[i][j]
      <3>1. items \in Seq(Seq(Int))
        BY <1>2
      <3> QED BY <3>1, EndToEnd
    <2>2. Len(items) = n
      BY <1>2
    <2> HIDE DEF n
    <2> QED BY <2>1, <2>2 DEF whole
  <1>4. whole \in Seq(Int)
    BY <1>2, EndToEnd DEF whole
  <1> DEFINE Right(i) == IF from + ends[i] - 1 <= size
                         THEN [at |-> from + ends[i], took |-> SubSeq(ready, 1, i)] ELSE Past
             g == [i \in 0..n |-> Right(i)]
  <1> HIDE DEF n, size
  <1>5. Right(0) = start
    <2>1. SubSeq(ready, 1, 0) = <<>>
      BY SubSeqEmpty
    <2> QED BY <1>3, <2>1 DEF size
  <1>6. ASSUME NEW i \in 1..n PROVE Onward(Right(i - 1)) = Right(i)
    <2> DEFINE e == ends[i - 1]
               at == from + e
               inside == Inside(ready[i].held)
               long == Len(inside)
    <2>1. /\ i \in 0..n /\ i - 1 \in 0..n /\ e \in Nat /\ ends[i] \in Nat
          /\ ready[i].complete \in BOOLEAN /\ ready[i].held \in Seq(Drawings) /\ ready[i] \in SnapshotFrames
      <3>1. i \in 0..n /\ i - 1 \in 0..n
        BY <1>1
      <3> QED BY <1>1, <1>3, <3>1
    <2>2. /\ inside \in Seq(Int) /\ Len(items[i]) = 2 + long
          /\ items[i][1] = (IF ready[i].complete THEN 1 ELSE 0) /\ items[i][2] = Len(ready[i].held)
          /\ \A j \in 1..long : items[i][2 + j] = inside[j]
      <3>1. items[i] = FramedFrame(ready[i]) /\ ready[i] \in SnapshotFrames
        BY <1>2, <2>1
      <3>2. /\ Inside(ready[i].held) \in Seq(Int)
            /\ Len(FramedFrame(ready[i])) = 2 + Len(Inside(ready[i].held))
            /\ FramedFrame(ready[i])[1] = (IF ready[i].complete THEN 1 ELSE 0)
            /\ FramedFrame(ready[i])[2] = Len(ready[i].held)
            /\ \A j \in 1..Len(Inside(ready[i].held)) :
                 FramedFrame(ready[i])[2 + j] = Inside(ready[i].held)[j]
        BY <3>1, FrameIsFramed
      <3> QED BY <3>1, <3>2
    <2> HIDE DEF inside
    <2>3. long \in Nat /\ Len(whole) \in Nat /\ size \in Nat
      BY <1>4, <2>2, LenProperties DEF size
    <2> HIDE DEF e, long
    <2>4. /\ ends[i] = e + 2 + long /\ ends[i] <= Len(whole)
          /\ whole[e + 1] = (IF ready[i].complete THEN 1 ELSE 0) /\ whole[e + 2] = Len(ready[i].held)
      <3>1. /\ ends[i] = e + Len(items[i]) /\ ends[i] <= ends[n]
            /\ \A j \in 1..Len(items[i]) : whole[e + j] = items[i][j]
        BY <1>3 DEF e
      <3>2. 1 \in 1..Len(items[i]) /\ 2 \in 1..Len(items[i])
        BY <2>2, <2>3
      <3>3. ends[i] = e + 2 + long
        BY <2>1, <2>2, <2>3, <3>1
      <3>4. whole[e + 1] = items[i][1] /\ whole[e + 2] = items[i][2]
        BY <3>1, <3>2
      <3> QED BY <1>3, <2>2, <3>1, <3>3, <3>4
    <2>4a. /\ e \in Nat /\ long \in Nat /\ size \in Nat /\ Len(whole) \in Nat /\ from \in Nat
           /\ ends[i] = e + 2 + long /\ ends[i] <= Len(whole)
      BY <2>1, <2>3, <2>4
    <2>5. ASSUME NEW j \in 1..long PROVE whole[e + 2 + j] = inside[j]
      <3> DEFINE m == 2 + j
      <3>1. m \in 1..Len(items[i]) /\ e + m = e + 2 + j
        BY <2>1, <2>2, <2>3
      <3>2. \A l \in 1..Len(items[i]) : whole[e + l] = items[i][l]
        BY <1>3 DEF e
      <3>3. items[i][m] = inside[j]
        BY <2>2
      <3> HIDE DEF m
      <3>4. whole[e + m] = inside[j]
        BY <3>1, <3>2, <3>3
      <3> QED BY <3>1, <3>4
    <2>6. SubSeq(ready, 1, i) = Append(SubSeq(ready, 1, i - 1), ready[i])
      BY OneLonger DEF n
    <2>7. \A j \in 1..Len(whole) : from + j - 1 <= size => tokens[from + j - 1] = whole[j]
      BY DEF Lays, Laid, whole, items, size
    <2>8. CASE ~(from + e - 1 <= size)
      <3>1. Right(i - 1) = Past
        BY <2>8 DEF e
      <3>2. ~(from + ends[i] - 1 <= size)
        <4>1. ends[i] = e + 2 + long /\ e \in Nat /\ long \in Nat /\ size \in Nat /\ from \in Nat
          BY <2>1, <2>3, <2>4
        <4> QED BY <2>8, <4>1
      <3>3. Onward(Past) = Past
        BY DEF Ended, Past
      <3> QED BY <3>1, <3>2, <3>3
    <2>9. CASE from + e - 1 <= size
      <3> DEFINE x == [at |-> at, took |-> SubSeq(ready, 1, i - 1)]
      <3>1. Right(i - 1) = x /\ x.at = at /\ x.took = SubSeq(ready, 1, i - 1) /\ at # 0 /\ at \in Nat
        BY <2>1, <2>9 DEF e
      <3> HIDE DEF x, Right
      <3>2. CASE ~(at + 1 <= size)
        <4>1. Ended(x, tokens, 2)
          <5>1. x.at = at /\ at \in Nat /\ at # 0 /\ Len(tokens) \in Nat
            BY <3>1
          <5>2. ~(at + 1 <= Len(tokens))
            BY <3>2 DEF size
          <5> HIDE DEF at
          <5> QED BY <5>1, <5>2 DEF Ended
        <4>2. ~(from + ends[i] - 1 <= size)
          BY <2>4a, <3>2
        <4> QED BY <3>1, <4>1, <4>2 DEF Right
      <3>3. CASE at + 1 <= size
        <4>1. ~Ended(x, tokens, 2)
          <5>1. x.at = at /\ at \in Nat /\ at # 0 /\ Len(tokens) \in Nat
            BY <3>1
          <5>2. at + 1 <= Len(tokens)
            BY <3>3 DEF size
          <5> HIDE DEF at
          <5> QED BY <5>1, <5>2 DEF Ended
        <4>2. tokens[at] = (IF ready[i].complete THEN 1 ELSE 0) /\ tokens[at + 1] = Len(ready[i].held)
          <5>1. e + 1 \in 1..Len(whole) /\ e + 2 \in 1..Len(whole)
            BY <2>4a
          <5>2. from + (e + 1) - 1 = at /\ from + (e + 2) - 1 = at + 1 /\ at <= size
            BY <2>1, <2>3, <3>3
          <5> HIDE DEF at
          <5>3. tokens[from + (e + 1) - 1] = whole[e + 1] /\ tokens[from + (e + 2) - 1] = whole[e + 2]
            BY <2>7, <3>3, <5>1, <5>2
          <5> QED BY <2>4, <5>2, <5>3
        <4>3. Lays(tokens, at + 2, inside)
          <5> SUFFICES ASSUME NEW j \in 1..long, at + 2 + j - 1 <= size
                       PROVE  tokens[at + 2 + j - 1] = inside[j]
            BY DEF Lays, long, size
          <5> DEFINE m == e + 2 + j
          <5>1. m \in 1..Len(whole) /\ from + m - 1 = at + 2 + j - 1
            BY <2>1, <2>3, <2>4
          <5>2. whole[m] = inside[j]
            BY <2>5
          <5> HIDE DEF m, at
          <5> QED BY <2>7, <5>1, <5>2
        <4> DEFINE read == TakesAssemblies(tokens, at + 2, Len(ready[i].held))
        <4>4. read = IF at + 2 + long - 1 <= size
                     THEN [at |-> at + 2 + long, took |-> ready[i].held] ELSE Past
          <5>1. at + 2 \in Nat \ {0} /\ at + 2 <= Len(tokens) + 1
            BY <2>3, <3>1, <3>3 DEF size
          <5> HIDE DEF at
          <5> QED BY <2>1, <4>3, <5>1, AssembliesRead DEF inside, long, size
        <4> HIDE DEF read
        <4>5. Onward(x) = IF read.at = 0 THEN Past
                        ELSE [at |-> read.at,
                              took |-> Append(x.took, [complete |-> tokens[at] # 0, held |-> read.took])]
          BY <3>1, <4>1, <4>2 DEF read
        <4>6. [complete |-> tokens[at] # 0, held |-> ready[i].held] = ready[i]
          <5>1. (tokens[at] # 0) = ready[i].complete
            BY <2>1, <4>2
          <5> HIDE DEF at
          <5> QED BY <2>1, <5>1 DEF SnapshotFrames
        <4>7. from + ends[i] - 1 = at + 2 + long - 1 /\ from + ends[i] = at + 2 + long /\ at + 2 + long # 0
          BY <2>1, <2>3, <2>4
        <4> HIDE DEF Onward, at
        <4>8. CASE at + 2 + long - 1 <= size
          <5>1. read.at = at + 2 + long /\ read.took = ready[i].held
            BY <4>4, <4>8
          <5>2. Onward(x) = [at |-> at + 2 + long, took |-> Append(x.took, ready[i])]
            BY <4>5, <4>6, <4>7, <5>1
          <5> QED BY <2>6, <3>1, <4>7, <4>8, <5>2 DEF Right
        <4>9. CASE ~(at + 2 + long - 1 <= size)
          <5>1. read.at = 0
            BY <4>4, <4>9 DEF Past
          <5> QED BY <3>1, <4>5, <4>7, <4>9, <5>1 DEF Right
        <4> QED BY <4>8, <4>9
      <3> QED BY <3>2, <3>3
    <2> QED BY <2>8, <2>9
  <1> HIDE DEF Right, Onward, start
  <1>7. g = Def(g)
    <2>1. ASSUME NEW i \in 0..n PROVE Right(i) = IF i = 0 THEN start ELSE Onward(g[i - 1])
      <3>1. CASE i = 0
        BY <1>5, <3>1
      <3>2. CASE i # 0
        <4>1. i \in 1..n /\ i - 1 \in 0..n
          BY <1>1, <3>2
        <4> QED BY <1>6, <3>2, <4>1
      <3> QED BY <3>1, <3>2
    <2>2. Def(g) = [i \in 0..n |-> Right(i)]
      <3> HIDE DEF g
      <3> QED BY <2>1
    <2> QED BY <2>2
  <1>8. took = Def(took)
    <2> HIDE DEF g
    <2> QED BY <1>7
  <1>9. TakesFrames(tokens, from, n) = took[n]
    BY DEF TakesFrames, Onward, start
  <1> HIDE DEF took
  <1>10. took[0] = start /\ \A i \in 1..n : took[i] = Onward(took[i - 1])
    <2>1. 0 \in 0..n /\ \A i \in 1..n : i \in 0..n /\ i # 0
      BY <1>1
    <2>2. \A i \in 0..n : took[i] = IF i = 0 THEN start ELSE Onward(took[i - 1])
      BY <1>8
    <2> QED BY <2>1, <2>2
  <1>11. \A i \in 0..n : took[i] = g[i]
    <2>1. took[0] = g[0]
      BY <1>1, <1>5, <1>10
    <2>2. ASSUME NEW i \in 1..n, took[i - 1] = g[i - 1] PROVE took[i] = g[i]
      <3>1. i \in 0..n /\ i - 1 \in 0..n
        BY <1>1
      <3>2. g[i] = Right(i) /\ g[i - 1] = Right(i - 1)
        BY <3>1
      <3> HIDE DEF g
      <3> QED BY <1>6, <1>10, <2>2, <3>2
    <2>3. n \in Nat
      BY <1>1
    <2> HIDE DEF g
    <2>4. \A i \in 1..n : took[i - 1] = g[i - 1] => took[i] = g[i]
      BY <2>2
    <2> DEFINE S == {i \in Nat : i \in 0..n => took[i] = g[i]}
    <2>5. 0 \in S
      BY <2>1
    <2>6. ASSUME NEW i \in S PROVE i + 1 \in S
      <3> DEFINE j == i + 1
      <3>1. j \in Nat /\ j - 1 = i /\ (j \in 0..n => j \in 1..n /\ i \in 0..n)
        BY <2>3
      <3> HIDE DEF j
      <3>2. j \in 0..n => took[j] = g[j]
        BY <2>4, <3>1
      <3> QED BY <3>1, <3>2 DEF j
    <2> HIDE DEF S
    <2>7. S \subseteq Nat
      BY DEF S
    <2>8. S = Nat
      BY <2>5, <2>6, <2>7, NaturalsByOne
    <2> QED BY <2>3, <2>8 DEF S
  <1>12. took[n] = Right(n)
    BY <1>1, <1>11
  <1>13. SubSeq(ready, 1, n) = ready
    <2>1. CASE n = 0
      <3>1. ready = <<>> /\ SubSeq(ready, 1, n) = <<>>
        BY <2>1, SubSeqEmpty, EmptySeq DEF n
      <3> QED BY <3>1
    <2>2. CASE n # 0
      <3>1. 1 \in 1..Len(ready)
        BY <1>1, <2>2 DEF n
      <3> QED BY <3>1, OneLonger DEF n
    <2> QED BY <2>1, <2>2
  <1>14. TakesFrames(tokens, from, n) =
           IF from + Len(whole) - 1 <= size THEN [at |-> from + Len(whole), took |-> ready] ELSE Past
    BY <1>3, <1>9, <1>12, <1>13 DEF Right
  <1> QED BY <1>4, <1>14 DEF Laid, whole, items, n, size

\* Tokens that go on as a snapshot framed is read as it where they end where it does, and
\* are refused where they do not.
LEMMA ParsesAs ==
  ASSUME NEW ready \in Seq(SnapshotFrames), NEW tokens \in Seq(Int), Len(tokens) >= 2,
         tokens[1] = Magic, tokens[2] = Len(ready), Lays(tokens, 3, Laid(ready))
  PROVE  /\ Laid(ready) \in Seq(Int)
         /\ Parse(tokens) = IF Len(tokens) = 2 + Len(Laid(ready)) THEN ready ELSE Refused
  <1> DEFINE size == Len(tokens)
             whole == Laid(ready)
             long == Len(whole)
             reader == TakesFrames(tokens, 3, Len(ready))
  <1>1. size \in Nat /\ 3 \in Nat \ {0} /\ 3 <= size + 1
    BY LenProperties
  <1>2. /\ whole \in Seq(Int)
        /\ reader = IF 3 + long - 1 <= size THEN [at |-> 3 + long, took |-> ready] ELSE Past
    BY <1>1, FramesRead
  <1> HIDE DEF whole, reader
  <1>3. long \in Nat
    BY <1>2, LenProperties
  <1>4. Parse(tokens) = IF reader.at = size + 1 THEN reader.took ELSE Refused
    BY DEF Parse, reader
  <1> HIDE DEF long, size
  <1>5. Parse(tokens) = IF size = 2 + long THEN ready ELSE Refused
    <2>1. CASE 3 + long - 1 <= size
      <3>1. reader.at = 3 + long /\ reader.took = ready
        BY <1>2, <2>1
      <3>2. 3 + long = size + 1 <=> size = 2 + long
        BY <1>1, <1>3
      <3> QED BY <1>4, <3>1, <3>2
    <2>2. CASE ~(3 + long - 1 <= size)
      <3>1. reader.at = 0
        BY <1>2, <2>2 DEF Past
      <3>2. 0 # size + 1 /\ size # 2 + long
        BY <1>1, <1>3, <2>2
      <3> QED BY <1>4, <3>1, <3>2
    <2> QED BY <2>1, <2>2
  <1> QED BY <1>2, <1>5 DEF size, long, whole

\* A snapshot of any frames reads back as it was off its framing; a body cut short anywhere,
\* or gone on with, is refused (RecordingSnapshot::framed and parse).
THEOREM FramingReads ==
  ASSUME NEW ready \in Seq(SnapshotFrames), ready # <<>>
  PROVE  LET tokens == Framed(ready)
         IN /\ Parse(tokens) = ready
            /\ \A n \in 0..Len(tokens) - 1 : Parse(SubSeq(tokens, 1, n)) = Refused
            /\ \A more \in Int : Parse(Append(tokens, more)) = Refused
  <1> DEFINE tokens == Framed(ready)
             whole == Laid(ready)
             size == Len(tokens)
             long == Len(whole)
  <1>1. /\ Len(ready) \in Nat /\ DOMAIN ready = 1..Len(ready)
        /\ \A i \in 1..Len(ready) : ready[i] \in SnapshotFrames
    BY LenProperties, ElementOfSeq
  <1>2. whole \in Seq(Int)
    <2> DEFINE items == [i \in DOMAIN ready |-> FramedFrame(ready[i])]
    <2>1. items \in [1..Len(ready) -> Seq(Int)]
      BY <1>1, FrameIsFramed
    <2> HIDE DEF items
    <2>2. items \in Seq(Seq(Int))
      BY <1>1, <2>1, FunctionIsSeq
    <2>3. FlattenSeq(items) \in Seq(Int)
      BY <2>2, EndToEnd
    <2> QED BY <2>3 DEF Laid, items
  <1>3. tokens = <<Magic, Len(ready)>> \o whole
    BY DEF Framed, Laid
  <1>4. Magic \in Int /\ Len(ready) \in Int
    BY <1>1 DEF Magic
  <1> HIDE DEF whole
  <1>5. /\ tokens \in Seq(Int) /\ size = 2 + long /\ tokens[1] = Magic /\ tokens[2] = Len(ready)
        /\ \A j \in 1..long : tokens[2 + j] = whole[j]
    BY <1>2, <1>3, <1>4, Headed
  <1> HIDE DEF tokens
  <1>6. long \in Nat /\ size \in Nat /\ size >= 2
    <2>1. long \in Nat
      BY <1>2, LenProperties
    <2> QED BY <1>5, <2>1
  <1>7. \A i \in 1..size : tokens[i] \in Int
    BY <1>5, ElementOfSeq
  <1> HIDE DEF size, long
  <1>8. ASSUME NEW t \in Seq(Int), Len(t) \in Nat, Len(t) >= 2,
               \A i \in 1..Len(t) : i <= size => t[i] = tokens[i]
        PROVE  Parse(t) = IF Len(t) = size THEN ready ELSE Refused
    <2>1. t[1] = Magic /\ t[2] = Len(ready)
      <3>1. 1 \in 1..Len(t) /\ 2 \in 1..Len(t) /\ 1 <= size /\ 2 <= size
        BY <1>6, <1>8
      <3> QED BY <1>5, <1>8, <3>1
    <2>2. Lays(t, 3, whole)
      <3> SUFFICES ASSUME NEW j \in 1..Len(whole), 3 + j - 1 <= Len(t)
                   PROVE  t[3 + j - 1] = whole[j]
        BY DEF Lays
      <3> DEFINE i == 2 + j
      <3>1. i \in 1..Len(t) /\ i <= size /\ 3 + j - 1 = i /\ j \in 1..long
        BY <1>5, <1>6, <1>8 DEF long
      <3>2. tokens[i] = whole[j]
        BY <1>5, <3>1
      <3> HIDE DEF i
      <3> QED BY <1>8, <3>1, <3>2
    <2>3. Parse(t) = IF Len(t) = 2 + Len(whole) THEN ready ELSE Refused
      BY <1>8, <2>1, <2>2, ParsesAs DEF whole
    <2> QED BY <1>5, <2>3 DEF long
  <1>9. Parse(tokens) = ready
    <2>1. Len(tokens) = size /\ Len(tokens) \in Nat /\ Len(tokens) >= 2
      BY <1>6 DEF size
    <2> QED BY <1>5, <1>8, <2>1
  <1>10. ASSUME NEW n \in 0..size - 1 PROVE Parse(SubSeq(tokens, 1, n)) = Refused
    <2> DEFINE t == SubSeq(tokens, 1, n)
    <2>1. t \in Seq(Int) /\ Len(t) = n /\ \A i \in 1..n : t[i] = tokens[i]
      <3>1. n \in Int /\ \A i \in 1..n : tokens[i] \in Int
        BY <1>6, <1>7
      <3>2. /\ t \in Seq(Int) /\ Len(t) = (IF 1 <= n THEN n - 1 + 1 ELSE 0)
            /\ \A i \in 1..n - 1 + 1 : t[i] = tokens[1 + i - 1]
        BY <3>1, SubSeqProperties
      <3> HIDE DEF t
      <3>3. Len(t) = n
        BY <1>6, <3>2
      <3>4. ASSUME NEW i \in 1..n PROVE t[i] = tokens[i]
        <4>1. i \in 1..n - 1 + 1 /\ 1 + i - 1 = i
          BY <3>1
        <4> QED BY <3>2, <4>1
      <3> QED BY <3>2, <3>3, <3>4
    <2> HIDE DEF t
    <2>2. CASE n < 2
      BY <2>1, <2>2 DEF Parse, t
    <2>3. CASE ~(n < 2)
      <3>1. Len(t) \in Nat /\ Len(t) >= 2 /\ Len(t) # size /\ \A i \in 1..Len(t) : t[i] = tokens[i]
        BY <1>6, <2>1, <2>3
      <3>2. Parse(t) = Refused
        BY <1>8, <2>1, <3>1
      <3> QED BY <3>2 DEF t
    <2> QED BY <2>2, <2>3
  <1>11. ASSUME NEW more \in Int PROVE Parse(Append(tokens, more)) = Refused
    <2> DEFINE t == Append(tokens, more)
    <2>1. t \in Seq(Int) /\ Len(t) = size + 1 /\ \A i \in 1..size : t[i] = tokens[i]
      BY <1>5, AppendProperties DEF size
    <2> HIDE DEF t
    <2>2. Len(t) \in Nat /\ Len(t) >= 2 /\ Len(t) # size /\ \A i \in 1..Len(t) : i <= size => t[i] = tokens[i]
      BY <1>6, <2>1
    <2>3. Parse(t) = Refused
      BY <1>8, <2>1, <2>2
    <2> QED BY <2>3 DEF t
  <1> QED BY <1>9, <1>10, <1>11 DEF tokens, size

-----------------------------------------------------------------------------
(* The pacing of presents.                                                  *)

FramesShown == [at : Nat, clock : Clocks \cup {0}, fromRuntime : BOOLEAN]
Intervals == [length : Nat, fromRuntime : BOOLEAN, toRuntime : BOOLEAN]

Measurements == [seenOne : BOOLEAN, last : FramesShown, guest : Nat, runtime : Nat,
                 intervals : Nat, kept : Seq(Intervals)]
Feeds == [fed : {"displayed", "scanned"}, now : Nat, scanned : Seq(FramesShown),
          since : Seq(FramesShown), all : Nat, restarts : Nat]

PacingTypes == pacing \in Measurements /\ shown \in Feeds

\* The last frame recorded is the last since the restart, and no frame comes before it.
LastIsOfThese(p, since) ==
  IF p.seenOne THEN since # <<>> /\ p.last = since[Len(since)] ELSE since = <<>>

InTime ==
  /\ pacing.last.at <= shown.now
  /\ shown.scanned # <<>> => /\ shown.fed = "scanned" /\ shown.scanned[1] \in FramesShown
                             /\ shown.now <= shown.scanned[1].at

\* MeasuresSinceRestart, of a measurement and the frames it is of.
Following(since) == {i \in 2..Len(since) : since[i - 1].clock = since[i].clock}
Measures(p, since) ==
  LET count == Cardinality(Following(since))
  IN /\ p.intervals = count
     /\ Len(p.kept) = (IF count > MaxIntervals THEN MaxIntervals ELSE count)
     /\ \A i \in Following(since) : PlaceIn(i, Following(since)) <= Len(p.kept) =>
          p.kept[PlaceIn(i, Following(since))] = Interval(since[i - 1], since[i])
     /\ p.guest + p.runtime = Len(since)

PacingInv ==
  /\ PacingTypes /\ InTime
  /\ LastIsOfThese(pacing, shown.since) /\ Measures(pacing, shown.since)

\* A measurement that has just begun covers nothing.
LEMMA NothingMeasured ==
  ASSUME NEW p, p.intervals = 0, p.kept = <<>>, p.guest = 0, p.runtime = 0
  PROVE  Measures(p, <<>>)
  <1>1. Len(<<>>) = 0 /\ MaxIntervals \in Nat
    BY EmptySeq, TimesAreMeasured
  <1>2. Following(<<>>) = {}
    BY <1>1 DEF Following
  <1>3. Cardinality({}) = 0
    BY FS_EmptySet
  <1>4. ~(0 > MaxIntervals) /\ 0 + 0 = 0
    BY <1>1
  <1> QED BY <1>1, <1>2, <1>3, <1>4 DEF Measures

\* record, of a measurement: Recorded's next value of pacing.
FollowsOn(p, frame) == p.seenOne /\ frame.clock = p.last.clock
WithFrame(p, frame) ==
  LET keeps == FollowsOn(p, frame) /\ Len(p.kept) < MaxIntervals
  IN [seenOne |-> TRUE, last |-> frame,
      guest |-> p.guest + (IF frame.fromRuntime THEN 0 ELSE 1),
      runtime |-> p.runtime + (IF frame.fromRuntime THEN 1 ELSE 0),
      intervals |-> p.intervals + (IF FollowsOn(p, frame) THEN 1 ELSE 0),
      kept |-> IF keeps THEN Append(p.kept, Interval(p.last, frame)) ELSE p.kept]

\* A frame more: an interval more exactly where it follows on its clock, kept while there
\* is room.
LEMMA FrameMeasured ==
  ASSUME NEW p \in Measurements,
         NEW since \in Seq(FramesShown), NEW frame \in FramesShown, p.last.at <= frame.at,
         LastIsOfThese(p, since), Measures(p, since),
         NEW q, q = WithFrame(p, frame)
  PROVE  /\ q \in Measurements
         /\ LastIsOfThese(q, Append(since, frame)) /\ Measures(q, Append(since, frame))
  <1> DEFINE n == Len(since)
             more == Append(since, frame)
             F == Following(since)
             M == Following(more)
             count == Cardinality(F)
             span == Interval(p.last, frame)
             follows == FollowsOn(p, frame)
             keeps == follows /\ Len(p.kept) < MaxIntervals
  <1>1. /\ n \in Nat /\ more \in Seq(FramesShown) /\ Len(more) = n + 1 /\ more[n + 1] = frame
        /\ \A i \in 1..n : more[i] = since[i]
    BY AppendProperties, LenProperties
  <1> HIDE DEF more
  <1>2. /\ p.last \in FramesShown /\ p.guest \in Nat /\ p.runtime \in Nat /\ p.intervals \in Nat
        /\ p.kept \in Seq(Intervals) /\ p.seenOne \in BOOLEAN
    BY DEF Measurements
  <1>3. span \in Intervals
    <2>1. /\ p.last.at \in Nat /\ frame.at \in Nat /\ p.last.fromRuntime \in BOOLEAN
          /\ frame.fromRuntime \in BOOLEAN
      BY <1>2 DEF FramesShown
    <2>2. frame.at - p.last.at \in Nat
      BY <2>1
    <2> QED BY <2>1, <2>2 DEF Intervals, Interval
  <1> HIDE DEF span
  <1>4. /\ Len(p.kept) \in Nat /\ Append(p.kept, span) \in Seq(Intervals)
        /\ Len(Append(p.kept, span)) = Len(p.kept) + 1
        /\ Append(p.kept, span)[Len(p.kept) + 1] = span
        /\ \A i \in 1..Len(p.kept) : Append(p.kept, span)[i] = p.kept[i]
    BY <1>2, <1>3, AppendProperties, LenProperties
  <1>5. /\ q.seenOne = TRUE /\ q.last = frame
        /\ q.guest = p.guest + (IF frame.fromRuntime THEN 0 ELSE 1)
        /\ q.runtime = p.runtime + (IF frame.fromRuntime THEN 1 ELSE 0)
        /\ q.intervals = p.intervals + (IF follows THEN 1 ELSE 0)
        /\ q.kept = IF keeps THEN Append(p.kept, span) ELSE p.kept
    BY DEF span, WithFrame
  <1>5a. /\ follows => p.seenOne /\ p.last.clock = frame.clock
         /\ ~follows => ~p.seenOne \/ p.last.clock # frame.clock
         /\ follows \in BOOLEAN
    BY <1>2 DEF FollowsOn
  <1> HIDE DEF follows
  <1>6. q \in Measurements
    <2>1. /\ q.guest \in Nat /\ q.runtime \in Nat /\ q.intervals \in Nat /\ q.kept \in Seq(Intervals)
      <3>1. q.guest \in Nat
        BY <1>2, <1>5
      <3>2. q.runtime \in Nat
        BY <1>2, <1>5
      <3>3. q.intervals \in Nat
        BY <1>2, <1>5
      <3>4. q.kept \in Seq(Intervals)
        BY <1>2, <1>4, <1>5
      <3> QED BY <3>1, <3>2, <3>3, <3>4
    <2>2. q = [seenOne |-> q.seenOne, last |-> q.last, guest |-> q.guest, runtime |-> q.runtime,
               intervals |-> q.intervals, kept |-> q.kept]
      BY DEF WithFrame
    <2> QED BY <1>5, <2>1, <2>2 DEF Measurements
  <1>7. LastIsOfThese(q, more)
    <2>1. more # <<>>
      BY <1>1, EmptySeq
    <2> QED BY <1>1, <1>5, <2>1 DEF LastIsOfThese
  <1>8. /\ F \in SUBSET (1..n) /\ F \subseteq 2..n
        /\ \A i \in 2..n : i \in F <=> since[i - 1].clock = since[i].clock
    BY <1>1 DEF Following
  <1>9. /\ IsFiniteSet(F) /\ count \in Nat
        /\ \A i \in F : PlaceIn(i, F) \in 1..count
        /\ Cardinality(F \cup {n + 1}) = count + 1
        /\ PlaceIn(n + 1, F \cup {n + 1}) = count + 1
        /\ \A i \in F : PlaceIn(i, F \cup {n + 1}) = PlaceIn(i, F)
    BY <1>1, <1>8, PlacesOfMore
  <1>10. /\ p.intervals = count
         /\ Len(p.kept) = (IF count > MaxIntervals THEN MaxIntervals ELSE count)
         /\ \A i \in F : PlaceIn(i, F) <= Len(p.kept) =>
              p.kept[PlaceIn(i, F)] = Interval(since[i - 1], since[i])
         /\ p.guest + p.runtime = n
    BY DEF Measures
  <1>11. p.seenOne => n >= 1 /\ p.last = since[n]
    BY <1>1, EmptySeq DEF LastIsOfThese
  <1>12. ~p.seenOne => n = 0
    BY EmptySeq DEF LastIsOfThese
  <1>13. M = IF follows THEN F \cup {n + 1} ELSE F
    <2>1. M = {i \in 2..n + 1 : more[i - 1].clock = more[i].clock}
      BY <1>1 DEF Following
    <2>2. ASSUME NEW i \in 2..n PROVE i \in M <=> i \in F
      <3>1. i \in 2..n + 1 /\ i \in 1..n /\ i - 1 \in 1..n
        BY <1>1
      <3>2. more[i] = since[i] /\ more[i - 1] = since[i - 1]
        BY <1>1, <3>1
      <3> HIDE DEF F, M
      <3> QED BY <1>8, <2>1, <3>1, <3>2
    <2>3. n + 1 \in M <=> follows
      <3>1. CASE p.seenOne
        <4>1. n + 1 \in 2..n + 1 /\ (n + 1) - 1 = n /\ n \in 1..n
          BY <1>1, <1>11, <3>1
        <4>2. more[n] = p.last
          BY <1>1, <1>11, <3>1, <4>1
        <4> DEFINE j == n + 1
        <4>3. j \in 2..n + 1 /\ j - 1 = n /\ more[j] = frame
          BY <1>1, <4>1
        <4> HIDE DEF j, M
        <4>4. j \in M <=> p.last.clock = frame.clock
          BY <2>1, <4>2, <4>3
        <4> QED BY <1>5a, <3>1, <4>4 DEF j
      <3>2. CASE ~p.seenOne
        <4>1. n + 1 \notin 2..n + 1
          BY <1>12, <3>2
        <4> HIDE DEF M
        <4> QED BY <1>5a, <2>1, <3>2, <4>1
      <3> QED BY <3>1, <3>2
    <2>4. \A i \in M : i \in 2..n \/ i = n + 1
      BY <1>1, <2>1
    <2> HIDE DEF M, F
    <2>5. CASE follows
      <3>1. \A i : i \in M <=> i \in F \cup {n + 1}
        BY <1>8, <2>2, <2>3, <2>4, <2>5
      <3> QED BY <2>5, <3>1
    <2>6. CASE ~follows
      <3>1. \A i : i \in M <=> i \in F
        BY <1>8, <2>2, <2>3, <2>4, <2>6
      <3> QED BY <2>6, <3>1
    <2> QED BY <2>5, <2>6
  <1>14. MaxIntervals \in Nat
    BY TimesAreMeasured
  <1>15. q.guest + q.runtime = Len(more)
    BY <1>1, <1>2, <1>5, <1>10
  <1>16. \A i \in F : Interval(more[i - 1], more[i]) = Interval(since[i - 1], since[i])
    <2>1. \A i \in F : i \in 1..n /\ i - 1 \in 1..n
      BY <1>1, <1>8
    <2> QED BY <1>1, <2>1
  <1>17. Measures(q, more)
    <2>1. CASE ~follows
      <3>1. M = F /\ ~keeps /\ q.kept = p.kept /\ q.intervals = p.intervals
        BY <1>2, <1>5, <1>13, <2>1
      <3> HIDE DEF F, M
      <3>2. \A i \in M : PlaceIn(i, M) <= Len(q.kept) =>
              q.kept[PlaceIn(i, M)] = Interval(more[i - 1], more[i])
        BY <1>10, <1>16, <3>1
      <3> QED BY <1>10, <1>15, <3>1, <3>2 DEF Measures, M, F
    <2>2. CASE follows
      <3> DEFINE total == Cardinality(M)
      <3>1. M = F \cup {n + 1} /\ q.intervals = p.intervals + 1
        BY <1>5, <1>13, <2>2
      <3> HIDE DEF F, M
      <3>2. /\ total = count + 1 /\ PlaceIn(n + 1, M) = count + 1
            /\ \A i \in F : PlaceIn(i, M) = PlaceIn(i, F) /\ PlaceIn(i, F) \in 1..count
        BY <1>9, <3>1
      <3>3. Interval(more[(n + 1) - 1], more[n + 1]) = span
        <4>1. p.seenOne /\ (n + 1) - 1 = n /\ n \in 1..n
          <5>1. p.seenOne
            BY <1>5a, <1>2, <2>2
          <5> QED BY <1>1, <1>11, <5>1
        <4>2. more[(n + 1) - 1] = p.last
          BY <1>1, <1>11, <4>1
        <4> QED BY <1>1, <4>2 DEF span
      <3> HIDE DEF count, total
      <3>4. CASE keeps
        <4>1. q.kept = Append(p.kept, span) /\ Len(p.kept) < MaxIntervals
          BY <1>5, <3>4
        <4>2. Len(p.kept) = count /\ Len(q.kept) = count + 1 /\ ~(count + 1 > MaxIntervals)
          BY <1>4, <1>9, <1>10, <1>14, <4>1
        <4>3. ASSUME NEW i \in M PROVE q.kept[PlaceIn(i, M)] = Interval(more[i - 1], more[i])
          <5>1. CASE i \in F
            <6>1. PlaceIn(i, F) \in 1..Len(p.kept) /\ PlaceIn(i, F) <= Len(p.kept)
              BY <1>9, <3>2, <4>2, <5>1
            <6>2. p.kept[PlaceIn(i, F)] = Interval(since[i - 1], since[i])
              BY <1>10, <5>1, <6>1
            <6> QED BY <1>4, <1>16, <3>2, <4>1, <5>1, <6>1, <6>2
          <5>2. CASE i = n + 1
            <6>1. PlaceIn(i, M) = Len(p.kept) + 1
              BY <3>2, <4>2, <5>2
            <6>2. q.kept[PlaceIn(i, M)] = span
              BY <1>4, <4>1, <6>1
            <6> QED BY <3>3, <5>2, <6>2
          <5> QED BY <3>1, <5>1, <5>2
        <4>4. Len(q.kept) = IF total > MaxIntervals THEN MaxIntervals ELSE total
          BY <3>2, <4>2
        <4>5. q.intervals = total
          BY <1>10, <3>1, <3>2
        <4> QED BY <1>15, <4>3, <4>4, <4>5 DEF Measures, M, total
      <3>5. CASE ~keeps
        <4>1. q.kept = p.kept /\ ~(Len(p.kept) < MaxIntervals)
          <5>1. q.kept = p.kept
            BY <1>5, <3>5
          <5>2. ~(Len(p.kept) < MaxIntervals)
            BY <2>2, <3>5
          <5> QED BY <5>1, <5>2
        <4>2. Len(q.kept) = MaxIntervals /\ MaxIntervals <= count
          <5>1. count \in Nat /\ Len(p.kept) = (IF count > MaxIntervals THEN MaxIntervals ELSE count)
            BY <1>9, <1>10 DEF count
          <5>2. CASE count > MaxIntervals
            BY <1>14, <4>1, <5>1, <5>2
          <5>3. CASE ~(count > MaxIntervals)
            <6>1. Len(p.kept) = count /\ ~(count < MaxIntervals)
              BY <4>1, <5>1, <5>3
            <6>2. count = MaxIntervals
              BY <1>14, <5>1, <5>3, <6>1
            <6> QED BY <1>14, <4>1, <6>1, <6>2
          <5> QED BY <5>2, <5>3
        <4>3. ASSUME NEW i \in M, PlaceIn(i, M) <= Len(q.kept)
              PROVE  q.kept[PlaceIn(i, M)] = Interval(more[i - 1], more[i])
          <5>1. CASE i \in F
            BY <1>10, <1>16, <3>2, <4>1, <4>3, <5>1
          <5>2. CASE i = n + 1
            <6>1. PlaceIn(i, M) = count + 1 /\ count \in Nat
              BY <1>9, <3>2, <5>2 DEF count
            <6>2. ~(count + 1 <= Len(q.kept))
              BY <1>14, <4>2, <6>1
            <6> QED BY <4>3, <6>1, <6>2
          <5> QED BY <3>1, <5>1, <5>2
        <4>4. Len(q.kept) = IF total > MaxIntervals THEN MaxIntervals ELSE total
          <5>1. count \in Nat
            BY <1>9 DEF count
          <5> QED BY <1>14, <3>2, <4>2, <5>1
        <4>5. q.intervals = total
          BY <1>10, <3>1, <3>2
        <4> QED BY <1>15, <4>3, <4>4, <4>5 DEF Measures, M, total
      <3> QED BY <3>4, <3>5
    <2> QED BY <2>1, <2>2
  <1> QED BY <1>6, <1>7, <1>17 DEF more

\* A measurement after a step is what it then is of.
LEMMA MeasuresNext ==
  ASSUME Measures(pacing', shown'.since), LastIsOfThese(pacing', shown'.since)
  PROVE  Measures(pacing, shown.since)' /\ LastIsOfThese(pacing, shown.since)'
  <1>1. Measures(pacing, shown.since)'
    BY DEF Measures, Following, PlaceIn, Interval
  <1>2. LastIsOfThese(pacing, shown.since)'
    BY DEF LastIsOfThese
  <1> QED BY <1>1, <1>2

\* What feeds a measurement, a frame later.
LEMMA FrameFollowed ==
  ASSUME NEW s \in Feeds, NEW frame \in FramesShown
  PROVE /\ [s EXCEPT !.now = frame.at, !.all = @ + 1, !.since = Append(@, frame)] \in Feeds
        /\ [s EXCEPT !.now = frame.at, !.all = @ + 1, !.since = Append(@, frame)].now = frame.at
        /\ [s EXCEPT !.now = frame.at, !.all = @ + 1, !.since = Append(@, frame)].since = Append(s.since, frame)
        /\ [s EXCEPT !.now = frame.at, !.all = @ + 1, !.since = Append(@, frame)].scanned = s.scanned
        /\ [s EXCEPT !.now = frame.at, !.all = @ + 1, !.since = Append(@, frame)].fed = s.fed
  <1> DEFINE at == frame.at
             one == s.all + 1
             more == Append(s.since, frame)
             e == [s EXCEPT !.now = at, !.all = one, !.since = more]
  <1>1. at \in Nat /\ one \in Nat /\ more \in Seq(FramesShown)
    <2>1. s.all \in Nat /\ s.since \in Seq(FramesShown)
      BY DEF Feeds
    <2>2. at \in Nat
      BY DEF FramesShown
    <2>3. more \in Seq(FramesShown)
      BY <2>1, AppendProperties
    <2> QED BY <2>1, <2>2, <2>3
  <1> HIDE DEF at, one, more
  <1>2. e \in Feeds
    BY <1>1 DEF Feeds
  <1>3. e.now = at /\ e.since = more /\ e.scanned = s.scanned /\ e.fed = s.fed
    BY DEF Feeds
  <1>4. e = [s EXCEPT !.now = frame.at, !.all = @ + 1, !.since = Append(@, frame)]
    <2>1. [s EXCEPT !.now = at].all = s.all /\ [s EXCEPT !.now = at, !.all = one].since = s.since
      BY DEF Feeds
    <2> QED BY <2>1 DEF at, one, more
  <1> HIDE DEF e
  <1> QED BY <1>2, <1>3, <1>4 DEF at, more

\* A restart, likewise.
LEMMA FeedRestarted ==
  ASSUME NEW s \in Feeds
  PROVE /\ [s EXCEPT !.since = <<>>, !.restarts = @ + 1] \in Feeds
        /\ [s EXCEPT !.since = <<>>, !.restarts = @ + 1].since = <<>>
        /\ [s EXCEPT !.since = <<>>, !.restarts = @ + 1].now = s.now
        /\ [s EXCEPT !.since = <<>>, !.restarts = @ + 1].scanned = s.scanned
        /\ [s EXCEPT !.since = <<>>, !.restarts = @ + 1].fed = s.fed
  <1> DEFINE one == s.restarts + 1
             none == <<>>
             e == [s EXCEPT !.since = none, !.restarts = one]
  <1>1. one \in Nat /\ none \in Seq(FramesShown)
    <2>1. s.restarts \in Nat
      BY DEF Feeds
    <2>2. none \in Seq(FramesShown)
      BY EmptySeq
    <2> QED BY <2>1, <2>2
  <1> HIDE DEF one, none
  <1>2. e \in Feeds
    BY <1>1 DEF Feeds
  <1>3. e.now = s.now /\ e.since = none /\ e.scanned = s.scanned /\ e.fed = s.fed
    BY DEF Feeds
  <1>4. e = [s EXCEPT !.since = <<>>, !.restarts = @ + 1]
    <2>1. [s EXCEPT !.since = none].restarts = s.restarts
      BY DEF Feeds
    <2> QED BY <2>1 DEF one, none
  <1> HIDE DEF e
  <1> QED BY <1>2, <1>3, <1>4 DEF none

\* A frame scanned out, waiting to be recorded or recorded.
LEMMA FeedWaits ==
  ASSUME NEW s \in Feeds, NEW scanned \in Seq(FramesShown)
  PROVE /\ [s EXCEPT !.scanned = scanned] \in Feeds
        /\ [s EXCEPT !.scanned = scanned].since = s.since
        /\ [s EXCEPT !.scanned = scanned].now = s.now
        /\ [s EXCEPT !.scanned = scanned].scanned = scanned
        /\ [s EXCEPT !.scanned = scanned].fed = s.fed
  BY DEF Feeds

\* A measurement begins with nothing measured, whoever feeds it.
LEMMA PacingBegins ==
  ASSUME PacingInit
  PROVE  PacingInv
  <1>1. PICK fed \in {"displayed", "scanned"} :
          shown = [fed |-> fed, now |-> 0, scanned |-> <<>>, since |-> <<>>, all |-> 0, restarts |-> 0]
    BY DEF PacingInit
  <1>2. pacing = [seenOne |-> FALSE, last |-> NoFrame, guest |-> 0, runtime |-> 0,
                  intervals |-> 0, kept |-> <<>>]
    BY DEF PacingInit
  <1>3. NoFrame \in FramesShown /\ NoFrame.at = 0
    BY DEF NoFrame, FramesShown
  <1>4. /\ <<>> \in Seq(Intervals) /\ <<>> \in Seq(FramesShown)
    BY EmptySeq
  <1>5. PacingTypes
    BY <1>1, <1>2, <1>3, <1>4 DEF PacingTypes, Feeds, Measurements
  <1>6. InTime
    <2>1. shown.now = 0 /\ pacing.last = NoFrame
      BY <1>1, <1>2
    <2>2. pacing.last.at = 0 /\ 0 <= 0
      BY <1>3, <2>1
    <2>3. pacing.last.at <= shown.now
      <3>1. shown.now = 0
        BY <2>1
      <3> QED BY <2>2, <3>1
    <2>4. shown.scanned = <<>>
      BY <1>1
    <2> QED BY <2>3, <2>4 DEF InTime
  <1>7. LastIsOfThese(pacing, shown.since)
    BY <1>1, <1>2 DEF LastIsOfThese
  <1>8. pacing.intervals = 0 /\ pacing.kept = <<>> /\ pacing.guest = 0 /\ pacing.runtime = 0 /\ shown.since = <<>>
    BY <1>1, <1>2
  <1>9. Measures(pacing, shown.since)
    BY <1>8, NothingMeasured
  <1> QED BY <1>5, <1>6, <1>7, <1>9 DEF PacingInv

\* The next frame recorded, whoever hands it over.
LEMMA FrameRecorded ==
  ASSUME PacingInv, NEW frame \in FramesShown, shown.now <= frame.at, Recorded(frame),
         shown'.now = frame.at, shown'.since = Append(shown.since, frame),
         shown'.scanned = <<>>, shown' \in Feeds
  PROVE  PacingInv'
  <1> DEFINE p == pacing
             q == WithFrame(p, frame)
             since == shown.since
  <1>1. pacing' = q /\ q.last = frame
    BY DEF Recorded, WithFrame, FollowsOn
  <1>2. /\ p \in Measurements /\ since \in Seq(FramesShown) /\ shown.now \in Nat
        /\ LastIsOfThese(p, since) /\ Measures(p, since)
    BY DEF PacingInv, PacingTypes, Feeds
  <1>3. p.last.at <= frame.at
    <2>1. p.last \in FramesShown /\ p.last.at <= shown.now
      BY <1>2 DEF PacingInv, InTime, Measurements
    <2>2. p.last.at \in Nat /\ frame.at \in Nat
      BY <2>1 DEF FramesShown
    <2> QED BY <1>2, <2>1, <2>2
  <1>4. q = WithFrame(p, frame)
    OBVIOUS
  <1> HIDE DEF q, p, since
  <1>6. q \in Measurements /\ LastIsOfThese(q, Append(since, frame)) /\ Measures(q, Append(since, frame))
    BY <1>2, <1>3, <1>4, FrameMeasured
  <1>7. PacingTypes'
    BY <1>1, <1>6 DEF PacingTypes
  <1>8. InTime'
    <2>1. frame.at \in Nat /\ pacing'.last = frame
      BY <1>1 DEF FramesShown
    <2>2. pacing'.last.at <= shown'.now
      BY <2>1
    <2> QED BY <2>2 DEF InTime
  <1>9. Measures(pacing, shown.since)' /\ LastIsOfThese(pacing, shown.since)'
    BY <1>1, <1>6, MeasuresNext DEF since
  <1> QED BY <1>7, <1>8, <1>9 DEF PacingInv

\* A frame's time is not before the last's.
LEMMA NextFrameIsLater ==
  ASSUME PacingInv, NEW length \in Lengths, NEW clock \in Clocks \cup {0}, NEW fromRuntime \in BOOLEAN
  PROVE  /\ NextFrame(length, clock, fromRuntime) \in FramesShown
         /\ shown.now <= NextFrame(length, clock, fromRuntime).at
  <1>1. shown.now \in Nat /\ length \in Nat
    BY TimesAreMeasured DEF PacingInv, PacingTypes, Feeds
  <1>2. shown.now + length \in Nat /\ shown.now <= shown.now + length
    BY <1>1
  <1> QED BY <1>2 DEF NextFrame, FramesShown

\* Frames shown or scanned out, recorded, and a restart between any of them.
LEMMA PacingKeeps ==
  ASSUME PacingInv, [PacingNext]_pacingVars
  PROVE  PacingInv'
  <1>1. /\ shown \in Feeds /\ pacing \in Measurements /\ InTime
        /\ Measures(pacing, shown.since) /\ LastIsOfThese(pacing, shown.since)
    BY DEF PacingInv, PacingTypes
  <1>2. ASSUME NEW length \in Lengths, NEW fromRuntime \in BOOLEAN, OnDisplayed(length, fromRuntime)
        PROVE  PacingInv'
    <2> DEFINE frame == NextFrame(length, 0, fromRuntime)
    <2>1. frame \in FramesShown /\ shown.now <= frame.at
      BY NextFrameIsLater
    <2>2. shown.fed = "displayed" /\ Recorded(frame) /\ shown' = Follows(frame)
      BY <1>2 DEF OnDisplayed
    <2> HIDE DEF frame
    <2>3. shown.scanned = <<>>
      BY <1>1, <2>2 DEF InTime
    <2>4. /\ shown' \in Feeds /\ shown'.now = frame.at
          /\ shown'.since = Append(shown.since, frame) /\ shown'.scanned = shown.scanned
      BY <1>1, <2>1, <2>2, FrameFollowed DEF Follows
    <2> QED BY <2>1, <2>2, <2>3, <2>4, FrameRecorded
  <1>3. ASSUME RecordsScannedOut PROVE PacingInv'
    <2> DEFINE frame == shown.scanned[1]
               on == Follows(frame)
    <2>1. frame \in FramesShown /\ shown.now <= frame.at
      BY <1>1, <1>3 DEF RecordsScannedOut, InTime
    <2>2. Recorded(frame) /\ shown' = [on EXCEPT !.scanned = <<>>]
      BY <1>3 DEF RecordsScannedOut
    <2> HIDE DEF frame
    <2>3. on \in Feeds /\ on.now = frame.at /\ on.since = Append(shown.since, frame)
      BY <1>1, <2>1, FrameFollowed DEF Follows
    <2> HIDE DEF on
    <2>4. <<>> \in Seq(FramesShown)
      BY EmptySeq
    <2>5. /\ shown' \in Feeds /\ shown'.now = frame.at
          /\ shown'.since = Append(shown.since, frame) /\ shown'.scanned = <<>>
      BY <2>2, <2>3, <2>4, FeedWaits
    <2> QED BY <2>1, <2>2, <2>5, FrameRecorded
  <1>4. ASSUME NEW length \in Lengths, NEW clock \in Clocks, NEW fromRuntime \in BOOLEAN,
               OnScannedOut(length, clock, fromRuntime)
        PROVE  PacingInv'
    <2> DEFINE frame == NextFrame(length, clock, fromRuntime)
    <2>1. frame \in FramesShown /\ shown.now <= frame.at
      BY NextFrameIsLater
    <2>2. /\ shown.fed = "scanned" /\ shown' = [shown EXCEPT !.scanned = <<frame>>] /\ pacing' = pacing
      BY <1>4 DEF OnScannedOut
    <2> HIDE DEF frame
    <2>3. <<frame>> \in Seq(FramesShown) /\ <<frame>>[1] = frame
      BY <2>1
    <2>4. /\ shown' \in Feeds /\ shown'.since = shown.since /\ shown'.now = shown.now
          /\ shown'.fed = shown.fed /\ shown'.scanned = <<frame>>
      BY <1>1, <2>2, <2>3, FeedWaits
    <2>5. PacingTypes'
      BY <1>1, <2>2, <2>4 DEF PacingTypes
    <2>6. InTime'
      BY <1>1, <2>1, <2>2, <2>3, <2>4 DEF InTime
    <2>7. Measures(pacing', shown'.since) /\ LastIsOfThese(pacing', shown'.since)
      BY <1>1, <2>2, <2>4
    <2>8. Measures(pacing, shown.since)' /\ LastIsOfThese(pacing, shown.since)'
      BY <2>7, MeasuresNext
    <2> QED BY <2>5, <2>6, <2>8 DEF PacingInv
  <1>5. ASSUME PostPacing PROVE PacingInv'
    <2>1. /\ pacing' = [pacing EXCEPT !.seenOne = FALSE, !.guest = 0, !.runtime = 0,
                                      !.intervals = 0, !.kept = <<>>]
          /\ shown' = [shown EXCEPT !.since = <<>>, !.restarts = @ + 1]
      BY <1>5 DEF PostPacing, Restart
    <2>2. /\ shown' \in Feeds /\ shown'.since = <<>> /\ shown'.now = shown.now
          /\ shown'.fed = shown.fed /\ shown'.scanned = shown.scanned
      BY <1>1, <2>1, FeedRestarted
    <2>3. <<>> \in Seq(Intervals)
      BY EmptySeq
    <2>4. /\ pacing' \in Measurements
          /\ pacing'.seenOne = FALSE /\ pacing'.last = pacing.last /\ pacing'.intervals = 0
          /\ pacing'.kept = <<>> /\ pacing'.guest = 0 /\ pacing'.runtime = 0
      BY <1>1, <2>1, <2>3 DEF Measurements
    <2>5. PacingTypes'
      BY <2>2, <2>4 DEF PacingTypes
    <2>6. InTime'
      BY <1>1, <2>2, <2>4 DEF InTime
    <2>7. LastIsOfThese(pacing', shown'.since)
      BY <2>2, <2>4 DEF LastIsOfThese
    <2>8. Measures(pacing', shown'.since)
      BY <2>2, <2>4, NothingMeasured
    <2>9. Measures(pacing, shown.since)' /\ LastIsOfThese(pacing, shown.since)'
      BY <2>7, <2>8, MeasuresNext
    <2> QED BY <2>5, <2>6, <2>9 DEF PacingInv
  <1>6. ASSUME UNCHANGED pacingVars PROVE PacingInv'
    <2>1. pacing' = pacing /\ shown' = shown
      BY <1>6 DEF pacingVars
    <2>2. PacingTypes' /\ InTime'
      BY <1>1, <2>1 DEF PacingTypes, InTime
    <2>3. Measures(pacing, shown.since)' /\ LastIsOfThese(pacing, shown.since)'
      BY <1>1, <2>1, MeasuresNext
    <2> QED BY <2>2, <2>3 DEF PacingInv
  <1> QED BY <1>2, <1>3, <1>4, <1>5, <1>6 DEF PacingNext

-----------------------------------------------------------------------------
(* What a summary says of the intervals kept.                               *)

\* Of a number there are none below zero, all below some, and no fewer below a longer one.
LEMMA NotOver ==
  ASSUME NEW n \in Nat, NEW lengths \in [1..n -> Nat]
  PROVE  /\ \A v \in Int : AtMost(lengths, v) \in Nat /\ AtMost(lengths, v) <= n
         /\ AtMost(lengths, -1) = 0
         /\ \A v, w \in Int : v <= w => AtMost(lengths, v) <= AtMost(lengths, w)
         /\ \E v \in Nat : AtMost(lengths, v) = n
  <1> DEFINE Under(v) == {i \in 1..n : lengths[i] <= v}
  <1>1. IsFiniteSet(1..n) /\ Cardinality(1..n) = n
    BY FS_Interval
  <1>2. \A i \in 1..n : lengths[i] \in Nat
    OBVIOUS
  <1>3. ASSUME NEW v PROVE AtMost(lengths, v) = Cardinality(Under(v))
    <2>1. DOMAIN lengths = 1..n
      OBVIOUS
    <2> QED BY <2>1 DEF AtMost
  <1>4. ASSUME NEW v \in Int PROVE /\ IsFiniteSet(Under(v)) /\ Cardinality(Under(v)) \in Nat /\ Cardinality(Under(v)) <= n
    <2>1. Under(v) \subseteq 1..n
      OBVIOUS
    <2> HIDE DEF Under
    <2> QED BY <1>1, <2>1, FS_Subset, FS_CardinalityType
  <1>5. Cardinality(Under(-1)) = 0
    <2>1. Under(-1) = {}
      BY <1>2
    <2> QED BY <2>1, FS_EmptySet
  <1>6. ASSUME NEW v \in Int, NEW w \in Int, v <= w PROVE Cardinality(Under(v)) <= Cardinality(Under(w))
    <2>1. Under(v) \subseteq Under(w)
      BY <1>2, <1>6
    <2> HIDE DEF Under
    <2> QED BY <1>4, <2>1, FS_Subset, FS_CardinalityType
  <1>7. \E v \in Nat : \A i \in 1..n : lengths[i] <= v
    <2> DEFINE Bound(m, v) == \A i \in 1..m : lengths[i] <= v
               S == {m \in Nat : m <= n => \E v \in Nat : Bound(m, v)}
    <2>1. 0 \in S
      <3>1. Bound(0, 0)
        OBVIOUS
      <3> HIDE DEF Bound
      <3> QED BY <3>1
    <2>2. ASSUME NEW m \in S PROVE m + 1 \in S
      <3> SUFFICES ASSUME m + 1 <= n PROVE \E v \in Nat : Bound(m + 1, v)
        OBVIOUS
      <3>1. m \in Nat /\ m <= n /\ m + 1 \in 1..n
        OBVIOUS
      <3>2. PICK v \in Nat : Bound(m, v)
        <4> HIDE DEF Bound
        <4> QED BY <3>1
      <3> DEFINE last == lengths[m + 1]
                 w == IF v <= last THEN last ELSE v
      <3>3. last \in Nat
        BY <1>2, <3>1
      <3>4. w \in Nat /\ v <= w /\ last <= w
        BY <3>3
      <3>5. \A i \in 1..m + 1 : i \in 1..m \/ i = m + 1
        BY <3>1
      <3>6. \A i \in 1..m : i \in 1..n
        BY <3>1
      <3> HIDE DEF w
      <3>7. Bound(m + 1, w)
        BY <1>2, <3>2, <3>3, <3>4, <3>5, <3>6
      <3> HIDE DEF Bound
      <3> QED BY <3>4, <3>7
    <2> HIDE DEF S
    <2>3. S \subseteq Nat
      BY DEF S
    <2>4. S = Nat
      BY <2>1, <2>2, <2>3, NaturalsByOne
    <2> HIDE DEF Bound
    <2>5. \E v \in Nat : Bound(n, v)
      BY <2>4 DEF S
    <2> QED BY <2>5 DEF Bound
  <1>8. ASSUME NEW v \in Nat, \A i \in 1..n : lengths[i] <= v PROVE Cardinality(Under(v)) = n
    <2>1. Under(v) = 1..n
      BY <1>8
    <2> QED BY <1>1, <2>1
  <1> HIDE DEF Under
  <1>9. -1 \in Int /\ Nat \subseteq Int
    OBVIOUS
  <1> QED BY <1>3, <1>4, <1>5, <1>6, <1>7, <1>8, <1>9

\* There is a length that as many as a rank are below, and more not above.
LEMMA RankIsThere ==
  ASSUME NEW n \in Nat, NEW lengths \in [1..n -> Nat], NEW rank \in 0..n - 1
  PROVE  \E one \in {lengths[i] : i \in 1..n} :
           AtMost(lengths, one - 1) <= rank /\ rank < AtMost(lengths, one)
  <1> DEFINE S == {v \in Nat : rank < AtMost(lengths, v)}
  <1>1. \A v \in Int : AtMost(lengths, v) \in Nat /\ AtMost(lengths, v) <= n
    BY NotOver
  <1>2. S \in SUBSET Nat /\ S # {}
    <2>1. PICK v \in Nat : AtMost(lengths, v) = n
      BY NotOver
    <2>2. v \in S
      BY <2>1
    <2> QED BY <2>2
  <1> HIDE DEF S
  <1>3. PICK least \in S : \A v \in S : least <= v
    BY <1>2, LeastNatural
  <1>4. least \in Nat /\ rank < AtMost(lengths, least)
    BY <1>3 DEF S
  <1>5. AtMost(lengths, least - 1) <= rank
    <2>1. CASE least = 0
      <3>1. AtMost(lengths, least - 1) = 0
        <4>1. least - 1 = -1
          BY <2>1
        <4> QED BY <4>1, NotOver
      <3> QED BY <3>1
    <2>2. CASE least # 0
      <3>1. least - 1 \in Nat /\ least - 1 \in Int /\ ~(least <= least - 1)
        BY <1>4, <2>2
      <3>2. least - 1 \notin S
        BY <1>3, <3>1
      <3>3. ~(rank < AtMost(lengths, least - 1))
        BY <3>1, <3>2 DEF S
      <3> QED BY <1>1, <3>1, <3>3
    <2> QED BY <2>1, <2>2
  <1>6. PICK i \in 1..n : lengths[i] = least
    <2> SUFFICES ASSUME \A i \in 1..n : lengths[i] # least PROVE FALSE
      OBVIOUS
    <2>1. {i \in 1..n : lengths[i] <= least} = {i \in 1..n : lengths[i] <= least - 1}
      <3>1. \A i \in 1..n : lengths[i] \in Nat
        OBVIOUS
      <3> QED BY <1>4, <3>1
    <2>2. AtMost(lengths, least) = AtMost(lengths, least - 1)
      <3>1. DOMAIN lengths = 1..n
        OBVIOUS
      <3> QED BY <2>1, <3>1 DEF AtMost
    <2>3. least \in Int /\ least - 1 \in Int
      BY <1>4
    <2> QED BY <1>1, <1>4, <1>5, <2>2, <2>3
  <1> QED BY <1>4, <1>5, <1>6

\* A summary is of the intervals kept: its longest is no shorter than any, at least half
\* are no longer than its median, as many no shorter, and its values are in order.
LEMMA SummaryTells ==
  ASSUME PacingInv
  PROVE  SummaryIsOfKept
  <1> DEFINE n == Len(pacing.kept)
             all == LengthsOf(BOOLEAN, BOOLEAN)
  <1> SUFFICES ASSUME pacing.kept # <<>>
               PROVE  /\ AtMost(all, Summary.longest) = n /\ 2 * AtMost(all, Summary.p50) >= n
                      /\ 2 * AtMost(all, Summary.p50 - 1) <= n
                      /\ Summary.p50 <= Summary.p95 /\ Summary.p95 <= Summary.longest
    BY DEF SummaryIsOfKept
  <1>1. pacing.kept \in Seq(Intervals)
    BY DEF PacingInv, PacingTypes, Measurements
  <1>2. /\ n \in Nat \ {0} /\ DOMAIN pacing.kept = 1..n /\ \A i \in 1..n : pacing.kept[i] \in Intervals
    BY <1>1, LenProperties, EmptySeq, ElementOfSeq
  <1> HIDE DEF n
  <1>3. all \in [1..n -> Nat]
    <2>1. \A i \in 1..n : /\ pacing.kept[i].fromRuntime \in BOOLEAN /\ pacing.kept[i].toRuntime \in BOOLEAN
                          /\ pacing.kept[i].length \in Nat
      BY <1>2 DEF Intervals
    <2>2. {m \in DOMAIN pacing.kept : /\ pacing.kept[m].fromRuntime \in BOOLEAN
                                      /\ pacing.kept[m].toRuntime \in BOOLEAN} = 1..n
      BY <1>2, <2>1
    <2>3. all = [i \in 1..n |-> pacing.kept[i].length]
      BY <2>2 DEF LengthsOf
    <2> QED BY <2>1, <2>3
  <1> HIDE DEF all
  <1>4. DOMAIN all = 1..n /\ Cardinality(DOMAIN all) = n /\ DOMAIN all # {}
    <2>1. DOMAIN all = 1..n
      BY <1>3
    <2>2. Cardinality(1..n) = n
      BY <1>2, FS_Interval
    <2>3. 1 \in 1..n
      BY <1>2
    <2> QED BY <2>1, <2>2, <2>3
  <1> DEFINE RankOf(percent) == (percent * (n - 1)) \div 100
             Is(v, rank) == v \in Nat /\ AtMost(all, v - 1) <= rank /\ rank < AtMost(all, v)
  <1>5. ASSUME NEW percent \in Nat, RankOf(percent) \in 0..n - 1
        PROVE  Is(Percentile(all, percent), RankOf(percent))
    <2> DEFINE rank == RankOf(percent)
               Ranked(one) == AtMost(all, one - 1) <= rank /\ rank < AtMost(all, one)
               one == CHOOSE one \in {all[i] : i \in DOMAIN all} : Ranked(one)
    <2>1. Percentile(all, percent) = one
      BY <1>4 DEF Percentile
    <2>2. \E v \in {all[i] : i \in DOMAIN all} : Ranked(v)
      <3> HIDE DEF rank
      <3>1. rank \in 0..n - 1
        BY <1>5 DEF rank
      <3>2. n \in Nat
        BY <1>2
      <3>3. \E v \in {all[i] : i \in 1..n} : AtMost(all, v - 1) <= rank /\ rank < AtMost(all, v)
        BY <1>3, <3>1, <3>2, RankIsThere
      <3> QED BY <1>4, <3>3
    <2> HIDE DEF Ranked
    <2>3. one \in {all[i] : i \in DOMAIN all} /\ Ranked(one)
      BY <2>2
    <2> HIDE DEF one
    <2>4. one \in Nat
      BY <1>3, <1>4, <2>3
    <2> QED BY <2>1, <2>3, <2>4 DEF Ranked
  <1>6. /\ RankOf(50) \in 0..n - 1 /\ 2 * RankOf(50) <= n - 1 /\ n - 2 <= 2 * RankOf(50)
    BY <1>2
  <1>7. RankOf(95) \in 0..n - 1 /\ RankOf(50) <= RankOf(95)
    BY <1>2
  <1>8. RankOf(100) = n - 1 /\ RankOf(100) \in 0..n - 1
    BY <1>2
  <1> HIDE DEF RankOf
  <1> DEFINE p50 == Summary.p50
             p95 == Summary.p95
             longest == Summary.longest
  <1>9. Is(p50, RankOf(50)) /\ Is(p95, RankOf(95)) /\ Is(longest, RankOf(100))
    <2>1. /\ Summary.p50 = Percentile(all, 50) /\ Summary.p95 = Percentile(all, 95)
          /\ Summary.longest = Percentile(all, 100)
      BY DEF Summary, all
    <2>2. 50 \in Nat /\ 95 \in Nat /\ 100 \in Nat
      OBVIOUS
    <2> HIDE DEF Is
    <2> QED BY <1>5, <1>6, <1>7, <1>8, <2>1, <2>2
  <1> HIDE DEF p50, p95, longest
  <1>10. /\ \A v \in Int : AtMost(all, v) \in Nat /\ AtMost(all, v) <= n
         /\ \A v, w \in Int : v <= w => AtMost(all, v) <= AtMost(all, w)
    <2>1. n \in Nat
      BY <1>2
    <2> QED BY <1>3, <2>1, NotOver
  <1>11. ASSUME NEW v, NEW w, NEW r \in Int, NEW s \in Int, Is(v, r), Is(w, s), r <= s
         PROVE  v <= w
    <2>1. v \in Int /\ w \in Int /\ v - 1 \in Int /\ (~(v <= w) => w <= v - 1)
      BY <1>11
    <2>2. /\ AtMost(all, w) \in Nat /\ AtMost(all, v - 1) \in Nat
          /\ w <= v - 1 => AtMost(all, w) <= AtMost(all, v - 1)
      BY <1>10, <2>1
    <2> QED BY <1>11, <2>1, <2>2
  <1>12. AtMost(all, longest) = n
    <2>1. longest \in Int /\ n - 1 < AtMost(all, longest)
      BY <1>8, <1>9
    <2>2. AtMost(all, longest) \in Nat /\ AtMost(all, longest) <= n
      BY <1>10, <2>1
    <2> QED BY <1>2, <2>1, <2>2
  <1>13. 2 * AtMost(all, p50) >= n /\ 2 * AtMost(all, p50 - 1) <= n
    <2>1. /\ p50 \in Int /\ p50 - 1 \in Int
          /\ AtMost(all, p50 - 1) <= RankOf(50) /\ RankOf(50) < AtMost(all, p50)
      BY <1>9
    <2>2. AtMost(all, p50) \in Nat /\ AtMost(all, p50 - 1) \in Nat
      BY <1>10, <2>1
    <2> QED BY <1>2, <1>6, <2>1, <2>2
  <1>14. p50 <= p95 /\ p95 <= longest
    <2>1. /\ RankOf(50) \in Int /\ RankOf(95) \in Int /\ RankOf(100) \in Int
          /\ RankOf(50) <= RankOf(95) /\ RankOf(95) <= RankOf(100)
      BY <1>2, <1>6, <1>7, <1>8
    <2> HIDE DEF Is
    <2> QED BY <1>9, <1>11, <2>1
  <1> QED BY <1>12, <1>13, <1>14 DEF p50, p95, longest

\* What a tool reads of a measurement.
LEMMA PacingTells ==
  PacingInv => MeasuresSinceRestart /\ SummaryIsOfKept
  <1> SUFFICES ASSUME PacingInv PROVE MeasuresSinceRestart /\ SummaryIsOfKept
    OBVIOUS
  <1>1. Measures(pacing, shown.since)
    BY DEF PacingInv
  <1>2. MeasuresSinceRestart
    BY <1>1 DEF Measures, Following, MeasuresSinceRestart
  <1> QED BY <1>2, SummaryTells

-----------------------------------------------------------------------------
(* What tools read: each has state of its own, which no other touches.      *)

ToolsInv == RecorderInv /\ PacingInv /\ CaptureInv /\ ReadsInv

\* A step of one subject is a step of its own, and leaves the others' state alone.
LEMMA StepsAreSteps ==
  ASSUME [Next]_vars
  PROVE  /\ [RecorderNext]_recorderVars /\ [PacingNext]_pacingVars
         /\ [CaptureNext]_captureVars /\ [ReadsNext]_readVars
  BY DEF Next, Moves, vars

\* Nothing is answered at first, whatever the guest's memory holds.
LEMMA GuestBegins == Init => ReadsInv
  <1> SUFFICES ASSUME Init PROVE ReadsInv
    OBVIOUS
  <1> DEFINE none == [f \in Frames |-> Unmapped]
  <1>1. none \in [Frames -> FrameWords]
    BY DEF FrameWords
  <1>2. guest.stack \in [Frames -> FrameWords] /\ answer = [of |-> "none"]
    <2>1. CASE subject = "reads"
      <3>1. ReadsInit
        BY <2>1 DEF Init
      <3>2. CASE \E stack \in [Frames -> FrameWords] : guest = [stack |-> stack, mapped |-> {}, logs |-> <<>>]
        BY <3>1, <3>2 DEF ReadsInit
      <3>3. CASE \E mapped \in SUBSET (0..Addresses - 1) : guest = [stack |-> none, mapped |-> mapped, logs |-> <<>>]
        BY <1>1, <3>1, <3>3 DEF ReadsInit
      <3>4. CASE \E logs \in [1..3 -> QuestLogs] : guest = [stack |-> none, mapped |-> {}, logs |-> logs]
        BY <1>1, <3>1, <3>4 DEF ReadsInit
      <3> QED BY <3>1, <3>2, <3>3, <3>4 DEF ReadsInit
    <2>2. CASE subject # "reads"
      <3>1. guest = [stack |-> none, mapped |-> {}, logs |-> <<>>] /\ answer = [of |-> "none"]
        BY <2>2 DEF Init
      <3> QED BY <1>1, <3>1
    <2> QED BY <2>1, <2>2
  <1> QED BY <1>2, ReadsBegin

\* Recordings, measurements, images and answers stay as their invariants say, for every
\* number of frames, presents, requests and restarts.
THEOREM ToolsInductive == Spec => []ToolsInv
  <1>1. Init => ToolsInv
    BY RecorderBegins, PacingBegins, CaptureBegins, GuestBegins DEF Init, ToolsInv
  <1>2. ToolsInv /\ [Next]_vars => ToolsInv'
    BY StepsAreSteps, RecorderKeeps, PacingKeeps, CaptureKeeps, ReadsKeep DEF ToolsInv
  <1> QED BY <1>1, <1>2, PTL DEF Spec

\* What a tool reads of the title's frames is what was drawn, shown and presented: recordings
\* whole or said not to be, snapshots of consecutive frames that read back off the wire, the
\* last frames' shapes, the intervals since a restart, the images a capture asked for.
THEOREM ToolsRead == Spec => []ToolsReadTheFrames
  <1>1. ToolsInv => ToolsReadTheFrames
    <2> SUFFICES ASSUME ToolsInv PROVE ToolsReadTheFrames
      OBVIOUS
    <2>1. RecordingsAreFrames /\ SnapshotIsConsecutive /\ ShapesAreLast
      BY RecorderTells DEF ToolsInv
    <2>2. FramingIsWhole
      <3>1. snapshot.ready \in Seq(SnapshotFrames)
        BY DEF ToolsInv, RecorderInv, SnapshotOf
      <3>2. CASE snapshot.ready = <<>>
        BY <3>2 DEF FramingIsWhole, Framed
      <3>3. CASE snapshot.ready # <<>>
        BY <3>1, <3>3, FramingReads DEF FramingIsWhole
      <3> QED BY <3>2, <3>3
    <2>3. MeasuresSinceRestart /\ SummaryIsOfKept
      BY PacingTells DEF ToolsInv
    <2>4. ImagesAnswerTheirRequest
      BY CaptureAnswers DEF ToolsInv
    <2> QED BY <2>1, <2>2, <2>3, <2>4 DEF ToolsReadTheFrames
  <1> QED BY <1>1, ToolsInductive, PTL

\* A chain of callers is the back chain as far as it reads and zero from there on, a range is
\* the bytes asked for, a name filled in is no other quest log's while a choice is free.
THEOREM AnswersGuests == Spec => []AnswersAreTheGuests
  <1>1. ToolsInv => AnswersAreTheGuests
    BY DEF ToolsInv, ReadsInv, AnswersAreTheGuests
  <1> QED BY <1>1, ToolsInductive, PTL
=============================================================================
