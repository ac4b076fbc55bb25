--------------------------- MODULE ControllerChoice --------------------------
(***************************************************************************)
(* Controller Selection taking the Pro Controller (ProControllerChoice): a  *)
(* block of guest code written when the title is linked, and a probe on the *)
(* screen's Display that sends its calls there.  The title calls Display    *)
(* while the block is being written; the block's words run one at a time on *)
(* the registers and the stack they touch.                                  *)
(***************************************************************************)
EXTENDS Integers, Sequences

CONSTANT MaxLinks   \* bound: links of the title

VARIABLES
  choice,   \* ProControllerChoice's members, and the words in the arena
  display   \* a call of Display: where it is, its registers, its stack frame, what it did

choiceVars == <<choice, display>>

\* The block's words as what they do; a branch says how many words on it goes.
Op(name) == [op |-> name, by |-> 1]
NotReadyWord == 24
ReadyBranchWord == 9
ToNotReady == NotReadyWord - ReadyBranchWord

Payload ==
  <<Op("saveRegisters"), Op("readLink"), Op("saveLink"), Op("keepScreen"),
    Op("loadCallee"), Op("loadCallee"), Op("toCounter"), Op("callReady"), Op("compare"),
    [op |-> "branchIfNotReady", by |-> ToNotReady],
    Op("loadPro"), Op("choose"), Op("stateMachine"), Op("loadState"), Op("loadState"),
    Op("loadCallee"), Op("loadCallee"), Op("toCounter"), Op("callChangeState"),
    Op("restoreRegisters"), Op("loadLink"), Op("toLink"), Op("closeFrame"), Op("return"),
    Op("restoreScreen"), Op("loadLink"), Op("toLink"), Op("restoreRegisters"), Op("toBody")>>

BlockWords == Len(Payload)

\* What Display was entered with: the screen, the caller's registers and link.
AsEntered == [r0 |-> "any", r3 |-> "screen", r24 |-> "callers", r28 |-> "callers",
              link |-> "callers", equal |-> FALSE]
NoCall == [at |-> "none", word |-> 0, regs |-> AsEntered, saved |-> "none", savedLink |-> "none",
           open |-> FALSE, chose |-> "none", state |-> "none"]

ChoiceInit ==
  /\ choice = [block |-> 0, words |-> <<>>, sends |-> FALSE, refusal |-> "none", links |-> 0, writing |-> FALSE]
  /\ display = NoCall

\* onLinked: once the block is there, or was tried to be, a later link changes nothing.
OnLinked(room, reaches) ==
  /\ choice.links < MaxLinks /\ ~choice.writing
  /\ choice' = [choice EXCEPT
       !.links = @ + 1,
       !.block = IF choice.block = 0 /\ room THEN 1 ELSE @,
       !.writing = choice.block = 0 /\ room /\ reaches,
       !.refusal = CASE choice.block # 0 -> @
                     [] ~room -> "noRoom"
                     [] ~reaches -> "outOfReach"
                     [] OTHER -> @]
  /\ UNCHANGED display

\* writeWord, word by word, under the lock; the first refused leaves the block as it is.
WritesWordOf(taken) ==
  /\ choice.writing /\ Len(choice.words) < BlockWords
  /\ choice' = IF taken THEN [choice EXCEPT !.words = Append(@, Payload[Len(@) + 1])]
               ELSE [choice EXCEPT !.writing = FALSE, !.refusal = "word"]
  /\ UNCHANGED display

\* "The block is complete before the probe can send a call to it."
RegistersDisplay ==
  /\ choice.writing /\ Len(choice.words) = BlockWords
  /\ choice' = [choice EXCEPT !.writing = FALSE, !.sends = TRUE]
  /\ UNCHANGED display

\* The title calls Display: the entry opens the frame, and the call goes to the block or on.
CallDisplay ==
  /\ display.at \in {"none", "returned", "body"}
  /\ display' = [NoCall EXCEPT !.at = IF choice.sends THEN "block" ELSE "body", !.open = TRUE]
  /\ UNCHANGED choice

Runs(op, ready) ==
  LET d == display
      regs == d.regs
      on == [d EXCEPT !.word = d.word + 1]
  IN CASE op.op = "saveRegisters" -> [on EXCEPT !.saved = <<regs.r24, regs.r28>>]
     [] op.op = "readLink" -> [on EXCEPT !.regs.r0 = regs.link]
     [] op.op = "saveLink" -> [on EXCEPT !.savedLink = regs.r0]
     [] op.op = "keepScreen" -> [on EXCEPT !.regs.r28 = regs.r3]
     [] op.op = "callReady" -> [on EXCEPT !.regs = [regs EXCEPT !.r3 = IF ready THEN "ready" ELSE "zero",
                                                          !.link = "block", !.r0 = "any"]]
     [] op.op = "compare" -> [on EXCEPT !.regs.equal = (regs.r3 = "zero")]
     [] op.op = "branchIfNotReady" -> [d EXCEPT !.word = d.word + (IF regs.equal THEN op.by ELSE 1)]
     [] op.op = "loadPro" -> [on EXCEPT !.regs.r24 = "pro"]
     [] op.op = "choose" -> [on EXCEPT !.chose = <<regs.r28, regs.r24>>]
     [] op.op = "stateMachine" -> [on EXCEPT !.regs.r3 = regs.r28]
     [] op.op = "callChangeState" -> [on EXCEPT !.state = regs.r3,
                                   !.regs = [regs EXCEPT !.r3 = "any", !.link = "block", !.r0 = "any"]]
     [] op.op = "restoreRegisters" -> [on EXCEPT !.regs = [regs EXCEPT !.r24 = d.saved[1], !.r28 = d.saved[2]]]
     [] op.op = "loadLink" -> [on EXCEPT !.regs.r0 = d.savedLink]
     [] op.op = "toLink" -> [on EXCEPT !.regs.link = regs.r0]
     [] op.op = "closeFrame" -> [on EXCEPT !.open = FALSE]
     [] op.op = "restoreScreen" -> [on EXCEPT !.regs.r3 = regs.r28]
     [] op.op = "return" -> [d EXCEPT !.at = "returned"]
     [] op.op = "toBody" -> [d EXCEPT !.at = "body"]
     [] OTHER -> on

Executes(ready) ==
  /\ display.at = "block"
  /\ display' = IF display.word + 1 \in DOMAIN choice.words THEN Runs(choice.words[display.word + 1], ready)
                ELSE [display EXCEPT !.at = "unwritten"]
  /\ UNCHANGED choice

ChoiceNext ==
  \/ \E room, reaches \in BOOLEAN : OnLinked(room, reaches)
  \/ \E taken \in BOOLEAN : WritesWordOf(taken)
  \/ RegistersDisplay
  \/ CallDisplay
  \/ \E ready \in BOOLEAN : Executes(ready)
-----------------------------------------------------------------------------
\* However the linking and the calls of Display fall, a call runs only words that are
\* written, and leaves as the title expects: the body goes on as it was entered, or the
\* screen has the Pro Controller chosen and its state changed and the caller its registers,
\* its link and its stack back.
DisplayIsWhole ==
  /\ display.at # "unwritten"
  /\ display.at = "body" => /\ display.open /\ display.chose = "none"
                            /\ <<display.regs.r3, display.regs.r24, display.regs.r28, display.regs.link>>
                                 = <<"screen", "callers", "callers", "callers">>
  /\ display.at = "returned" => /\ ~display.open /\ display.chose = <<"screen", "pro">>
                                /\ display.state = "screen"
                                /\ <<display.regs.r24, display.regs.r28, display.regs.link>>
                                     = <<"callers", "callers", "callers">>
=============================================================================
