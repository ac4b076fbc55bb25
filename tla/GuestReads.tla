----------------------------- MODULE GuestReads ------------------------------
(***************************************************************************)
(* What the runtime answers from guest memory it only reads: the chain of   *)
(* callers of a call (CallerCensus), a range a tool asks for                *)
(* (GuestMemoryRead), and the name the keyboard is filled with              *)
(* (QuestLogNames).  Memory is chosen at the start and stays.               *)
(***************************************************************************)
EXTENDS Integers, Sequences, FiniteSets, SequencesExt

CONSTANTS
  Frames,      \* addresses of stack frames; 0 is no frame
  ChainDepth,  \* kChainDepth
  Addresses,   \* how many addresses there are, from 0 on
  MaxBytes,    \* kMaxBytes of a read
  Names        \* kChoices in order, then a name of the player's own

ASSUME ReadsAreBounded == ChainDepth \in Nat \ {0} /\ Addresses \in Nat \ {0} /\ MaxBytes \in Nat
ASSUME ThereAreChoices == Names \in Seq({Names[i] : i \in DOMAIN Names}) /\ Len(Names) > 1

VARIABLES
  guest,    \* the stack, the mapped bytes, the quest logs of the save
  answer    \* the last answer: a chain, a range or a name, and what it was of

readVars == <<guest, answer>>

KeyboardNames == SubSeq(Names, 1, Len(Names) - 1)
Unmapped == <<>>
Frame0 == 0

\* A frame's words: its caller's frame, and the link its callee saved in it.
FrameWords == {Unmapped} \cup {<<back, link>> : back \in Frames \cup {Frame0}, link \in {1, 2}}
QuestLogs == [inUse : BOOLEAN, name : {Names[i] : i \in DOMAIN Names}]

ReadsInit ==
  /\ \/ \E stack \in [Frames -> FrameWords] : guest = [stack |-> stack, mapped |-> {}, logs |-> <<>>]
     \/ \E mapped \in SUBSET (0..Addresses - 1) :
          guest = [stack |-> [f \in Frames |-> Unmapped], mapped |-> mapped, logs |-> <<>>]
     \/ \E logs \in [1..3 -> QuestLogs] :
          guest = [stack |-> [f \in Frames |-> Unmapped], mapped |-> {}, logs |-> logs]
  /\ answer = [of |-> "none"]

Mapped(frame) == frame \in Frames /\ guest.stack[frame] # Unmapped

\* Mutant: the link saved in the frame itself, not in its caller's.
OwnLink(at) ==
  LET back == IF Mapped(at.frame) THEN guest.stack[at.frame][1] ELSE Frame0
  IN IF at.ended \/ ~Mapped(at.frame) \/ ~Mapped(back) THEN [at EXCEPT !.ended = TRUE]
     ELSE [frame |-> back, chain |-> Append(at.chain, guest.stack[at.frame][2]), ended |-> FALSE]

\* chainOf: from the frame in r1 up the back chain, ended by what does not read.
NextLink(at) ==
  LET back == IF Mapped(at.frame) THEN guest.stack[at.frame][1] ELSE Frame0
  IN IF at.ended \/ ~Mapped(at.frame) \/ ~Mapped(back) THEN [at EXCEPT !.ended = TRUE]
     ELSE [frame |-> back, chain |-> Append(at.chain, guest.stack[back][2]), ended |-> FALSE]

ChainOf(frame, returnAddress) ==
  LET walk[callers \in 0..ChainDepth - 1] ==
        IF callers = 0 THEN [frame |-> frame, chain |-> <<returnAddress>>, ended |-> FALSE]
        ELSE NextLink(walk[callers - 1])
      chain == walk[ChainDepth - 1].chain
  IN [i \in 1..ChainDepth |-> IF i <= Len(chain) THEN chain[i] ELSE 0]

OnGuestCall(frame, returnAddress) ==
  /\ \E f \in Frames : Mapped(f)
  /\ answer' = [of |-> "chain", frame |-> frame, from |-> returnAddress, chain |-> ChainOf(frame, returnAddress)]
  /\ UNCHANGED guest

\* A range within bounds that does not pass the end, every byte of it mapped.
Parses(address, size) ==
  size \in 1..MaxBytes /\ ~(address > Addresses - 1 - size)

GuestBytes(address, size) == \A i \in 0..size - 1 : (address + i) % Addresses \in guest.mapped

GetMemory(address, size) ==
  /\ guest.mapped # {}
  /\ answer' = IF Parses(address, size) /\ GuestBytes(address, size)
               THEN [of |-> "bytes", bytes |-> {(address + i) % Addresses : i \in 0..size - 1},
                     first |-> address, size |-> size]
               ELSE [of |-> "refused"]
  /\ UNCHANGED guest

\* choose: the first of the choices no quest log in use is named; the last when all are.
Taken(logs, name) == \E i \in DOMAIN logs : logs[i].inUse /\ logs[i].name = name
Choose(logs) ==
  IF \A i \in DOMAIN KeyboardNames : Taken(logs, KeyboardNames[i]) THEN Last(KeyboardNames)
  ELSE KeyboardNames[CHOOSE i \in DOMAIN KeyboardNames :
                 ~Taken(logs, KeyboardNames[i]) /\ \A j \in 1..i - 1 : Taken(logs, KeyboardNames[j])]

\* Provide, on the Name stage: no save is no quest log; on another stage nothing is filled.
Provide(onNameStage, hasSave) ==
  /\ guest.logs # <<>>
  /\ answer' = IF ~onNameStage THEN [of |-> "no name"]
               ELSE [of |-> "name", name |-> IF hasSave THEN Choose(guest.logs) ELSE KeyboardNames[1],
                     logs |-> IF hasSave THEN guest.logs ELSE <<>>]
  /\ UNCHANGED guest

\* The player takes the name filled in and saves: a quest log in use by that name.
SavesUnderName(slot) ==
  /\ answer.of = "name" /\ answer.logs = guest.logs /\ ~guest.logs[slot].inUse
  /\ guest' = [guest EXCEPT !.logs[slot] = [inUse |-> TRUE, name |-> answer.name]]
  /\ answer' = [of |-> "none"]

ReadsNext ==
  \/ \E frame \in Frames \cup {Frame0}, from \in {1, 2} : OnGuestCall(frame, from)
  \/ \E address \in 0..Addresses - 1, size \in 0..MaxBytes + 1 : GetMemory(address, size)
  \/ \E onNameStage, hasSave \in BOOLEAN : Provide(onNameStage, hasSave)
  \/ \E slot \in 1..3 : SavesUnderName(slot)
-----------------------------------------------------------------------------
\* The frame n callers up, where the n before it read.
Up(frame, n) == LET up[i \in 0..n] == IF i = 0 THEN frame
                                      ELSE IF Mapped(up[i - 1]) THEN guest.stack[up[i - 1]][1] ELSE Frame0
                IN up[n]

\* A chain's link is its frame's own, and is zero from the first frame that does not read,
\* even where the back chain runs in a circle.
ChainIsBackChain ==
  \A frame \in Frames \cup {Frame0} :
    answer.of = "chain" /\ answer.frame = frame =>
      /\ answer.chain[1] = answer.from
      /\ \A d \in 2..ChainDepth :
           LET reads == \A n \in 0..d - 1 : Mapped(Up(frame, n))
           IN answer.chain[d] = IF reads THEN guest.stack[Up(frame, d - 1)][2] ELSE 0

\* A range answered is the range asked for: mapped, and not around the end of the addresses.
BytesAreTheRange ==
  answer.of = "bytes" =>
    /\ answer.bytes \subseteq guest.mapped /\ Cardinality(answer.bytes) = answer.size
    /\ answer.bytes = {b \in 0..Addresses - 1 : answer.first <= b /\ b < answer.first + answer.size}

\* A name filled in is no other quest log's, while a choice is free.
NameIsFree ==
  answer.of = "name" /\ Taken(answer.logs, answer.name)
    => \A i \in DOMAIN KeyboardNames : Taken(answer.logs, KeyboardNames[i])
=============================================================================
