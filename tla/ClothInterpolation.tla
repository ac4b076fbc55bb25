-------------------------- MODULE ClothInterpolation --------------------------
(***************************************************************************)
(* title::ClothInterpolation, a listener of the in-between draw phase.  A   *)
(* cloth is computed into one of two sets of buffers, one buffer of a kind  *)
(* (points, normals), and uploaded from it by one or more packets; each     *)
(* tick's skipped call uploads it as it is, and that is what the next       *)
(* tick's upload is blended with.                                           *)
(***************************************************************************)
EXTENDS TitlePaints

CONSTANTS
  Packets,     \* that share the cloth's buffers
  BufferKinds, \* kBufferKinds, points first
  MaxBlends    \* bound: uploads blended in a draw phase

ASSUME BufferKindsAreSome == BufferKinds \in Nat \ {0}

VARIABLES
  cloth,         \* guest memory: the buffers, the current ones, the grid's size
  clothSeen,     \* m_seen, by packet
  clothBlended,  \* m_blended: buffers
  clothBack,     \* m_restores
  \* History: the memory with nothing blended, what the last tick's showed, and which
  \* buffers a packet blended after one whose first kind was refused.
  clothOwn, clothWas, clothAgain

clothVars == <<cloth, clothSeen, clothBlended, clothBack, clothOwn, clothWas, clothAgain>>

BufferKind == 1..BufferKinds
Buffers == BufferKind \X {0, 1}
\* What is uploaded: the current buffer of each kind.
Uploaded(c) == [kind \in BufferKind |-> c.buffer[<<kind, c.current>>]]
NoCloth == [tick |-> Never, at |-> [kind \in BufferKind |-> 0], size |-> 0]

ClothInit ==
  /\ cloth = [buffer |-> [b \in Buffers |-> Somewhere], current |-> 0, size |-> 1]
  /\ clothSeen = [p \in Packets |-> NoCloth] /\ clothBlended = {} /\ clothBack = <<>>
  /\ clothOwn = cloth /\ clothWas = [at |-> Uploaded(cloth), size |-> 1] /\ clothAgain = {}

\* A tick fills the other buffers and makes them current, perhaps for another cloth.
ClothExecute(place, size) ==
  LET filled(c) == [buffer |-> [b \in Buffers |-> IF b[2] = c.current THEN c.buffer[b] ELSE place],
                    current |-> 1 - c.current, size |-> size] IN
  /\ Execute
  /\ cloth' = filled(cloth) /\ clothOwn' = filled(clothOwn)
  /\ clothWas' = [at |-> Uploaded(clothOwn), size |-> clothOwn.size]
  /\ clothAgain' = clothAgain \ {1 - cloth.current}
  /\ UNCHANGED <<clothSeen, clothBlended, clothBack>>

\* Mutant: each packet blends the buffer it uploads.
EachPacketBlends(p) == Continues(clothSeen[p]) /\ clothSeen[p].size = cloth.size
\* onUpload of a gated tick: a packet seen at the last one, of the same size, whose
\* buffer of the first kind no other packet has blended.
ClothBlends(p) ==
  /\ Continues(clothSeen[p]) /\ clothSeen[p].size = cloth.size
  /\ <<1, cloth.current>> \notin clothBlended

\* onUpload of a packet that reads; each kind is written in turn, and those whose write is
\* refused are left out (all of them, where a kind does not blend).
Upload(p, refused) ==
  LET written == {<<kind, cloth.current>> : kind \in BufferKind \ refused} IN
  /\ InDraw /\ Len(clothBack) < MaxBlends
  /\ IF inTick
       THEN /\ UNCHANGED clothSeen
            /\ IF ClothBlends(p) /\ written # {}
                 THEN /\ cloth' = [cloth EXCEPT !.buffer =
                           [b \in Buffers |-> IF b \in written THEN Mid(clothSeen[p].at[b[1]], @[b])
                                              ELSE @[b]]]
                      /\ clothBlended' = clothBlended \cup written
                      /\ clothBack' = Append(clothBack, [b \in written |-> cloth.buffer[b]])
                      /\ clothAgain' = clothAgain \cup {b[2] : b \in clothBlended}
                 ELSE UNCHANGED <<cloth, clothBlended, clothBack, clothAgain>>
       ELSE /\ clothSeen' = [clothSeen EXCEPT ![p] =
                              [tick |-> tick, at |-> Uploaded(cloth), size |-> cloth.size]]
            /\ UNCHANGED <<cloth, clothBlended, clothBack, clothAgain>>
  /\ UNCHANGED <<schedule, clothOwn, clothWas>>

\* onUpload of a packet that does not read is forgotten.
UploadUnread(p) ==
  /\ InDraw
  /\ clothSeen' = [clothSeen EXCEPT ![p] = NoCloth]
  /\ UNCHANGED <<schedule, cloth, clothBlended, clothBack, clothOwn, clothWas, clothAgain>>

ClothDrawBegins == BeginDraw /\ UNCHANGED clothVars

\* onDrawPhaseEnd: in the order they were written.
ClothDrawEnds ==
  /\ EndDraw
  /\ IF inTick
       THEN /\ cloth' = [cloth EXCEPT !.buffer = PutBack(clothBack, @)]
            /\ clothBack' = <<>> /\ clothBlended' = {}
       ELSE UNCHANGED <<cloth, clothBack, clothBlended>>
  /\ UNCHANGED <<clothSeen, clothOwn, clothWas, clothAgain>>

ClothNext ==
  \/ Unheard /\ UNCHANGED clothVars
  \/ \E place \in Places, size \in {1, 2} : ClothExecute(place, size)
  \/ ClothDrawBegins \/ ClothDrawEnds
  \/ \E p \in Packets, refused \in SUBSET BufferKind : Upload(p, refused)
  \/ \E p \in Packets : UploadUnread(p)

\* A kind but the first is not spoken of in a buffer that a packet blended after one whose
\* first kind was refused: that one blends midpoints, and they are what is put back.
Known(kind, b) == kind = 1 \/ b \notin clothAgain

\* The in-between draw phase leaves the buffers as the logic filled them, however many
\* packets upload them: the cloth's next step is computed from them.
ClothKeepsItsOwn ==
  ~InTickDraw =>
    /\ cloth.current = clothOwn.current /\ cloth.size = clothOwn.size
    /\ \A b \in Buffers : Known(b[1], b[2]) => cloth.buffer[b] = clothOwn.buffer[b]

\* What is uploaded in it is the tick's cloth, or halfway from the last tick's of
\* the same size, and never halfway again; kind by kind.
ClothIsBetween ==
  InTickDraw /\ switches = 0 =>
    \A kind \in BufferKind : Known(kind, 0) /\ Known(kind, 1) =>
      LET at == Uploaded(clothOwn)[kind] IN
      \/ Uploaded(cloth)[kind] = at
      \/ clothWas.size = clothOwn.size /\ Uploaded(cloth)[kind] = Mid(clothWas.at[kind], at)
=============================================================================
