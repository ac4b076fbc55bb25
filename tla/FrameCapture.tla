---------------------------- MODULE FrameCapture -----------------------------
(***************************************************************************)
(* Images of presented frames, armed from the control channel, delivered by *)
(* the renderer on a thread of each one's own, and read back (FrameCapture).*)
(* The fork's side: one request is armed at a time, the next present takes  *)
(* it, and a run is armed again as each of its images lands.                *)
(***************************************************************************)
EXTENDS Integers, FiniteSets, Sequences

CONSTANTS
  SlotCount,     \* kSlotCount
  AskedSlots,    \* the slots a request may name
  MaxPresents,   \* bound: presents of a behaviour
  MaxArms        \* bound: requests of a behaviour

ASSUME CapturesAreBounded == SlotCount \in Nat /\ AskedSlots \subseteq Nat

VARIABLES
  captures,  \* the slots, and the counters a request's answer and GET /counters read
  fork       \* the armed request, the images in flight, the requests so far (a run's m_next among them)

captureVars == <<captures, fork>>

Unarmed == 0
NoImage == [present |-> 0, arm |-> 0]

CaptureInit ==
  /\ captures = [slots |-> [s \in 0..SlotCount - 1 |-> NoImage], requested |-> 0, refused |-> 0,
                 received |-> 0]
  /\ fork = [armed |-> Unarmed, flights |-> {}, presents |-> 0, asked |-> <<>>]

Arm(slot, count) == [first |-> slot, count |-> count, next |-> 0, from |-> fork.presents]

\* LatteFrameHooks::RequestFrameCapture: refused while another request is armed.
Takes == fork.armed = Unarmed

Counts(asked, refused) ==
  captures' = [captures EXCEPT !.requested = @ + asked, !.refused = @ + refused]

\* A run is counted as requested only where there is no room for it.
Requests(arm, asked) ==
  IF Takes
  THEN /\ fork' = [fork EXCEPT !.asked = Append(@, arm), !.armed = Len(fork.asked) + 1]
       /\ Counts(asked, 0)
  ELSE Counts(asked, 1) /\ UNCHANGED fork

ArmOnce(slot) ==
  IF slot >= SlotCount THEN Counts(1, 1) /\ UNCHANGED fork ELSE Requests(Arm(slot, 1), 1)

ArmRun(slot, count) ==
  IF slot + count > SlotCount THEN Counts(1, 1) /\ UNCHANGED fork ELSE Requests(Arm(slot, count), 0)

PostCapture(slot, count) ==
  /\ Len(fork.asked) + captures.refused < MaxArms
  /\ IF count <= 1 THEN ArmOnce(slot) ELSE ArmRun(slot, count)

\* A present takes the armed request's image, to be delivered by a thread of its own.
Present ==
  /\ fork.presents < MaxPresents
  /\ fork' = [fork EXCEPT !.presents = @ + 1, !.armed = Unarmed,
                          !.flights = IF fork.armed = Unarmed THEN @
                                      ELSE @ \cup {[present |-> fork.presents + 1, arm |-> fork.armed]}]
  /\ UNCHANGED captures

\* The callback's slot: chosen when armed, or for a run by how many of it have landed.
SlotFor(image) == fork.asked[image.arm].first + fork.asked[image.arm].next

Receives(slot, image) ==
  captures' = [captures EXCEPT !.slots[slot] = image, !.received = @ + 1]

\* A run with images left is armed again, unless another request has been armed meanwhile.
Rearmed(arm) == arm.next + 1 < arm.count /\ Takes

Land(image) ==
  /\ fork' = [fork EXCEPT !.flights = @ \ {image}, !.asked[image.arm].next = @ + 1,
                          !.armed = IF Rearmed(fork.asked[image.arm]) THEN image.arm ELSE @]
  /\ IF SlotFor(image) < SlotCount THEN Receives(SlotFor(image), image) ELSE UNCHANGED captures

CaptureNext ==
  \/ \E slot \in AskedSlots, count \in 1..2 : PostCapture(slot, count)
  \/ Present
  \/ \E image \in fork.flights : Land(image)
-----------------------------------------------------------------------------
\* An image answers the request that named its slot: presented after it was armed, and in
\* a run's slots in the order presented, whatever else was armed, refused or in flight.
ImagesAnswerTheirRequest ==
  \A s \in DOMAIN captures.slots :
    LET image == captures.slots[s]
    IN image # NoImage =>
         LET arm == fork.asked[image.arm]
         IN /\ s \in arm.first..arm.first + arm.count - 1 /\ image.present > arm.from
            /\ \A t \in arm.first..s - 1 :
                 captures.slots[t].arm = image.arm => captures.slots[t].present < image.present
=============================================================================
