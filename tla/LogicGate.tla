------------------------------ MODULE LogicGate ------------------------------
(***************************************************************************)
(* title::LogicGate: every other call of the title's frame logic runs only *)
(* its draw phase.  Standing probes send every call of the frame logic and *)
(* of the controller calc into guest blocks this class fills; which words  *)
(* a block holds is all that decides what a call does.  The host rewrites  *)
(* the blocks one word at a time while the guest goes on calling.          *)
(*                                                                         *)
(* A word here stands for a run of consecutive instructions of the payload *)
(* that end in its one store, branch or call.                              *)
(***************************************************************************)
EXTENDS Naturals, Sequences

CONSTANTS
  Settings,     \* what a behaviour may meet: see setting
  MaxRequests   \* bound: requests to put the gate in or out

ASSUME BoundIsNatural == MaxRequests \in Nat
ASSUME SettingsAreKnown ==
  Settings \subseteq [kinds : SUBSET {"gate", "direct", "counter"}, refusals : BOOLEAN,
                      wirings : SUBSET SUBSET {"frame", "scene", "controller"},
                      quiet : {"untilFilled", "never"}]

VARIABLES
  setting,    \* never changes: the payloads requests ask for, whether a guest word
              \* may refuse a write, the sets of standing probes the link-time moment
              \* may leave, and when a block is rewritten only between calls (Apart)
  block,      \* the words of the two blocks the host rewrites
  wired,      \* which standing probes were registered at link time
  in,         \* m_enabled with m_through and m_installedFlavour: a kind or "out"
  todo,       \* the writes a request holding m_mutex has still to make
  wants,      \* what `in` becomes once they are made
  requests,   \* how many requests were made
  counters,   \* what the guest's counter words say: whether the calls are odd,
              \* whether `ticks` differs from the count the calc last saw, and
              \* the skipping word
  order,      \* which call the title's loop makes first
  turn,       \* which of its two calls the loop makes next
  pc,         \* the word the guest is at, or Title outside both blocks
  reg,        \* the register the guest carries between two words
  fate        \* "ok", or how the guest died
\* History: what the last frame-logic call did, how many calcs ran since the
\* last tick (2: or more), whether a tick has run since the blocks last changed, and whether
\* the scene's tick work ran in a skipped call.
VARIABLES last, calcs, settled, sceneSlip

host == <<block, in, todo, wants, requests>>
guest == <<counters, turn, pc, reg, fate>>
history == <<last, calcs, settled, sceneSlip>>
rigid == <<setting, wired, order>>
vars == <<rigid, host, guest, history>>

\* Mutant: the words of the skipped draw are not in the payload.
GateWordsCut == <<"count", "test", "tick", "body">>

\* payload(): count the call; even ones branch to the skipped draw, odd ones
\* count a tick and branch to the frame logic's body.
GateWords == <<"count", "test", "tick", "body",
               "mark", "draw", "unmark", "flip", "return">>
\* controllerPayload(): compare the tick count with the one last seen; a new
\* one is stored and the calc runs, an old one returns.
ControllerWords == <<"compare", "see", "calc", "return">>
\* throughPayload(): a direct branch, or one through the count register.
ThroughWords == [direct |-> <<"body">>, counter |-> <<"load", "jump">>]

SkippedDrawWord == 5

Title == <<"title", 0>>
Calls == {"frame", "controller"}

\* onInstalled: word one of each block is its pass-through, the rest is zeroes
\* of the allocation.  A refused write ends it with the probes wired so far.
Init ==
  /\ block = [frame |-> [i \in 1..9 |-> IF i = 1 THEN "body" ELSE "zero"],
              controller |-> [i \in 1..4 |-> IF i = 1 THEN "calc" ELSE "zero"]]
  /\ setting \in Settings
  /\ wired \in setting.wirings
  /\ in = "out" /\ todo = <<>> /\ wants = "out" /\ requests = 0
  /\ counters = [odd |-> FALSE, ticked |-> FALSE, skipping |-> FALSE]
  /\ order \in {<<"frame", "controller">>, <<"controller", "frame">>}
  /\ turn = 1 /\ pc = Title /\ reg = "none" /\ fate = "ok"
  /\ last = "none" /\ calcs = 1 /\ settled = FALSE /\ sceneSlip = FALSE

-----------------------------------------------------------------------------
(* The host: enable and disable, under m_mutex.                            *)

Write(region, i, word) == [region |-> region, i |-> i, word |-> word]
WritesOf(region, words) == [i \in DOMAIN words |-> Write(region, i, words[i])]
\* Mutants: the controller's block is forgotten, or sent to the frame logic's body.
NoPassThrough == <<>>
CrossedPassThrough == <<Write("controller", 1, "body")>>

ControllerPassThrough == <<Write("controller", 1, "calc")>>
PassThrough == <<Write("frame", 1, "body")>>

WritesFor(kind) ==
  CASE kind = "out"  -> PassThrough \o ControllerPassThrough
    [] kind = "gate" -> WritesOf("frame", GateWords)
                          \o WritesOf("controller", ControllerWords)
    [] OTHER -> WritesOf("frame", ThroughWords[kind]) \o ControllerPassThrough

\* A request for what is in already is answered with nothing written.  Nothing
\* here asks which probes were wired.
Request(kind) ==
  /\ todo = <<>>
  /\ in # kind
  /\ requests < MaxRequests
  /\ requests' = requests + 1
  /\ wants' = kind
  /\ todo' = WritesFor(kind)
  /\ UNCHANGED <<block, in, rigid, guest, history>>

\* How the writes fall between the guest's words, which the code does not
\* order: Apart, only between two calls, calls waiting for them; else anyhow.
Filled == \A r \in DOMAIN block : \A i \in DOMAIN block[r] : block[r][i] # "zero"
Apart == setting.quiet = "untilFilled" /\ ~Filled

WriteWord ==
  /\ todo # <<>>
  /\ Apart => pc = Title
  /\ LET w == Head(todo) IN block' = [block EXCEPT ![w.region][w.i] = w.word]
  /\ todo' = Tail(todo)
  /\ in' = IF Len(todo) = 1 THEN wants ELSE in
  /\ settled' = FALSE
  /\ UNCHANGED <<wants, requests, rigid, guest, last, calcs, sceneSlip>>

\* The refusal is returned with the earlier words left as they are.
WriteRefused ==
  /\ setting.refusals
  /\ todo # <<>>
  /\ todo' = <<>>
  /\ UNCHANGED <<block, in, wants, requests, rigid, guest, history>>

-----------------------------------------------------------------------------
(* The guest: the title's loop, one controller calc and one frame logic an *)
(* iteration, either first.                                                *)

NextTurn == turn' = 3 - turn

TickRuns == /\ last' = "tick" /\ calcs' = 0 /\ settled' = (todo = <<>>)
            /\ UNCHANGED sceneSlip
CalcRuns == /\ calcs' = IF calcs = 2 THEN 2 ELSE calcs + 1
            /\ UNCHANGED <<last, settled, sceneSlip>>

Return == pc' = Title /\ NextTurn

\* The probe's stub branches to the block; an unwired entry runs the title's own.
CallBlock ==
  /\ pc = Title /\ fate = "ok"
  /\ order[turn] \in wired
  /\ Apart => todo = <<>>
  /\ pc' = <<order[turn], 1>>
  /\ UNCHANGED <<host, rigid, counters, turn, reg, fate, history>>

CallTitle ==
  /\ pc = Title /\ fate = "ok"
  /\ order[turn] \notin wired
  /\ NextTurn
  /\ IF order[turn] = "frame" THEN TickRuns ELSE CalcRuns
  /\ UNCHANGED <<host, rigid, counters, pc, reg, fate>>

AtWord(word) == fate = "ok" /\ pc # Title /\ block[pc[1]][pc[2]] = word
GoOn == pc' = [pc EXCEPT ![2] = @ + 1]

Count ==
  /\ AtWord("count")
  /\ counters' = [counters EXCEPT !.odd = ~@]
  /\ reg' = IF counters.odd THEN "even" ELSE "odd"
  /\ GoOn
  /\ UNCHANGED <<turn, fate, history>>

\* Mutant: the branch to the skipped draw is taken whatever the count.
TestAlways ==
  /\ AtWord("test")
  /\ pc' = <<pc[1], SkippedDrawWord>>
  /\ UNCHANGED <<counters, turn, reg, fate, history>>

Test ==
  /\ AtWord("test")
  /\ \/ reg = "odd" /\ GoOn
     \/ reg # "odd" /\ pc' = <<pc[1], SkippedDrawWord>>
  /\ UNCHANGED <<counters, turn, reg, fate, history>>

\* Mutant: a tick runs uncounted.
TickUncounted == AtWord("tick") /\ GoOn /\ UNCHANGED <<counters, turn, reg, fate, history>>

CountTick ==
  /\ AtWord("tick")
  /\ counters' = [counters EXCEPT !.ticked = TRUE]
  /\ GoOn
  /\ UNCHANGED <<turn, reg, fate, history>>

\* A branch into the frame logic's body: the whole call runs.
Body ==
  /\ AtWord("body")
  /\ Return /\ TickRuns
  /\ UNCHANGED <<counters, reg, fate>>

\* Mutant: the call stays marked.
StaysMarked == AtWord("unmark") /\ GoOn /\ UNCHANGED <<counters, turn, reg, fate, history>>

Mark ==
  /\ AtWord("mark")
  /\ counters' = [counters EXCEPT !.skipping = TRUE]
  /\ GoOn
  /\ UNCHANGED <<turn, reg, fate, history>>

\* The draw phase alone.  dScnPly_Draw reaches the scene gate, which sends it
\* past its tick work while the call marks itself; unwired, the work runs.
Draw ==
  /\ AtWord("draw")
  /\ last' = "skip"
  /\ sceneSlip' = (sceneSlip \/ "scene" \notin wired \/ ~counters.skipping)
  /\ GoOn
  /\ UNCHANGED <<counters, turn, reg, fate, calcs, settled>>

Unmark ==
  /\ AtWord("unmark")
  /\ counters' = [counters EXCEPT !.skipping = FALSE]
  /\ GoOn
  /\ UNCHANGED <<turn, reg, fate, history>>

Flip == AtWord("flip") /\ GoOn /\ UNCHANGED <<counters, turn, reg, fate, history>>

ReturnWord ==
  /\ AtWord("return")
  /\ Return
  /\ UNCHANGED <<counters, reg, fate, history>>

\* The count register is loaded and branched through.
Load ==
  /\ AtWord("load")
  /\ reg' = "loaded"
  /\ GoOn
  /\ UNCHANGED <<counters, turn, fate, history>>

Jump ==
  /\ AtWord("jump")
  /\ \/ reg = "loaded" /\ Return /\ TickRuns /\ UNCHANGED fate
     \/ reg # "loaded" /\ fate' = "wild" /\ UNCHANGED <<pc, turn, history>>
  /\ UNCHANGED <<counters, reg>>

Compare ==
  /\ AtWord("compare")
  /\ \/ ~counters.ticked /\ Return
     \/ counters.ticked /\ GoOn /\ UNCHANGED turn
  /\ UNCHANGED <<counters, reg, fate, history>>

\* Mutant: the count just seen is not kept.
SeeForgets == AtWord("see") /\ GoOn /\ UNCHANGED <<counters, turn, reg, fate, history>>

See ==
  /\ AtWord("see")
  /\ counters' = [counters EXCEPT !.ticked = FALSE]
  /\ GoOn
  /\ UNCHANGED <<turn, reg, fate, history>>

Calc ==
  /\ AtWord("calc")
  /\ Return /\ CalcRuns
  /\ UNCHANGED <<counters, reg, fate>>

\* A zero word is an illegal instruction: the guest raises an exception.
Illegal ==
  /\ AtWord("zero")
  /\ fate' = "illegal"
  /\ UNCHANGED <<counters, turn, pc, reg, history>>

GuestWord ==
  /\ \/ Count \/ Test \/ CountTick \/ Body \/ Mark \/ Draw \/ Unmark \/ Flip
     \/ ReturnWord \/ Load \/ Jump \/ Compare \/ See \/ Calc \/ Illegal
  /\ UNCHANGED <<host, rigid>>

GuestStep == CallBlock \/ CallTitle \/ GuestWord
HostStep == WriteWord \/ WriteRefused

Next == GuestStep \/ HostStep \/ \E kind \in setting.kinds \cup {"out"} : Request(kind)

Spec == Init /\ [][Next]_vars

\* The guest's thread runs, and a request in hand is carried out; nobody has to
\* make another.
FairSpec == Spec /\ WF_vars(GuestStep) /\ WF_vars(WriteWord)

-----------------------------------------------------------------------------
TypeOK ==
  /\ block.frame \in [1..9 -> {"count", "test", "tick", "body", "mark", "draw",
                               "unmark", "flip", "return", "load", "jump", "zero"}]
  /\ block.controller \in [1..4 -> {"compare", "see", "calc", "return", "zero"}]
  /\ in \in setting.kinds \cup {"out"} /\ wants \in setting.kinds \cup {"out"}
  /\ pc = Title \/ pc \in ({"frame"} \X (1..9)) \cup ({"controller"} \X (1..4))
  /\ counters \in [odd : BOOLEAN, ticked : BOOLEAN, skipping : BOOLEAN]
  /\ reg \in {"none", "odd", "even", "loaded"} /\ turn \in {1, 2} /\ fate \in {"ok", "illegal", "wild"}
  /\ Len(todo) <= 13 /\ requests \in 0..MaxRequests

\* What the code counts on: the blocks are whole before a call can reach them, nothing
\* is refused, and the control that branches through the count register, which a call
\* already inside the gate has not loaded, is not put over the gate.
AsMeant ==
  /\ setting.quiet = "untilFilled" /\ ~setting.refusals
  /\ ~({"gate", "counter"} \subseteq setting.kinds)

\* The comment in onInstalled: "The block is filled before anything can reach it".
FilledBeforeReached == fate = "ok"

\* Once a block has been filled, the guest never runs into a word that was not
\* written, and never branches through a count register nobody loaded, whenever the
\* gate goes in or out or is replaced under it.
NeverDies == AsMeant => fate = "ok"

\* The paint alternates with the logic: no two calls in a row are skipped, over
\* any number of times the gate goes in and out, so the logic never runs below
\* half its calls.
NeverTwoSkips == [][AsMeant /\ Draw => last # "skip"]_vars

\* "Every tick sees one controller update, whichever runs first": as long as
\* the blocks are left alone and every call comes to them, exactly one calc runs
\* between two ticks.
TickRan == (Body \/ Jump) /\ fate' = "ok"
AllWired == {"frame", "controller"} \subseteq wired
OneUpdatePerTick == [][AsMeant /\ AllWired /\ TickRan /\ settled => calcs = 1]_vars

\* With no request in hand the blocks hold what the report says is in: out, both
\* branch straight to the title's own code; in, both hold their gate.
BlocksAreAsReported ==
  AsMeant /\ todo = <<>> =>
    /\ in = "out" => block.frame[1] = "body" /\ block.controller[1] = "calc"
    /\ in = "gate" => block.frame = GateWords /\ block.controller = ControllerWords

\* Whatever is refused and whichever probes are missing, the word that sends the
\* scene past its tick work is up only inside a skipped call, so a frame logic that
\* runs whole always finds it down; and with the scene's probe in place it keeps
\* every skipped call's draw phase from advancing the tick, even when the blocks
\* change under the call.
SkipIsClean ==
  /\ counters.skipping => pc[1] = "frame" /\ pc[2] \in 6..7
  /\ sceneSlip => "scene" \notin wired

\* The title goes on: ticks and controller updates keep coming.
TitleGoesOn == AsMeant => []<>(calcs = 0) /\ []<>(calcs > 0)
=============================================================================
