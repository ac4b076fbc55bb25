------------------------------ MODULE StageWarp ------------------------------
(***************************************************************************)
(* A stage change asked for from the control channel (StageWarp), in the    *)
(* same words of guest memory the title's own exits write and its play      *)
(* scene reads: the request is read and written one seam call at a time     *)
(* while the title runs.                                                    *)
(***************************************************************************)
EXTENDS Integers, Sequences

CONSTANTS
  Askers,      \* the control channel's clients: no lock keeps one's request from another's
  MaxWarps,    \* bound: requests of a behaviour
  MaxExits     \* bound: the title's own stage changes

VARIABLES
  stage,   \* the guest's words: who wrote each part of the next stage request last
  warp,    \* StageWarp::warp's place and locals, by asker, and whether another wrote meanwhile
  warps    \* history: requests made, and whether one's words are in another's enabled request

warpVars == <<stage, warp, warps>>

Requested == <<"name", "place", "speed", "mode", "restart", "enable">>   \* in the order written
Words == {Requested[i] : i \in 1..5}
NoWarp == [at |-> "idle", id |-> 0, seen |-> 0, left |-> <<>>, overtaken |-> FALSE]

WarpInit ==
  /\ stage = [words |-> [w \in Words |-> 0], enable |-> 0, inPlay |-> FALSE, player |-> FALSE, exits |-> 0]
  /\ warp = [c \in Askers |-> NoWarp]
  /\ warps = [asks |-> 0, mixed |-> FALSE]

\* Writers of the words: the title's own, numbered below zero, and the warps above.
TitleWrites == -1 - stage.exits

\* What is written is written over by those who looked before, and have not done.
Overtaken(others) ==
  [c \in Askers |-> IF c \in others /\ warp[c].at # "idle" THEN [warp[c] EXCEPT !.overtaken = TRUE]
                    ELSE warp[c]]

\* The title's exits write the request whole, unless one is pending (dStage_nextStage_c::set).
TitleAsks ==
  /\ stage.inPlay /\ stage.enable = 0 /\ stage.exits < MaxExits
  /\ stage' = [stage EXCEPT !.words = [w \in Words |-> TitleWrites], !.enable = TitleWrites,
                            !.exits = @ + 1]
  /\ warp' = Overtaken(Askers) /\ warps' = [warps EXCEPT !.mixed = FALSE]

\* The play scene changes stage once it sees the request enabled; a player may be there or not.
TitleTakes ==
  /\ stage.enable # 0
  /\ \E player \in BOOLEAN : stage' = [stage EXCEPT !.enable = 0, !.player = player]
  /\ UNCHANGED <<warp, warps>>

TitleBegins ==
  /\ ~stage.inPlay
  /\ stage' = [stage EXCEPT !.inPlay = TRUE]
  /\ UNCHANGED <<warp, warps>>

Refuses(c) == warp' = [warp EXCEPT ![c] = NoWarp] /\ UNCHANGED <<stage, warps>>
Starts(c, requested) ==
  /\ warp' = [warp EXCEPT ![c].at = "writing", ![c].left = requested]
  /\ UNCHANGED <<stage, warps>>

\* POST /warp: the request is looked at.
PostWarp(c) ==
  /\ warp[c].at = "idle" /\ warps.asks < MaxWarps
  /\ warp' = [warp EXCEPT ![c] = [NoWarp EXCEPT !.at = "reading", !.id = warps.asks + 1, !.seen = stage.enable]]
  /\ warps' = [warps EXCEPT !.asks = @ + 1]
  /\ UNCHANGED stage

\* Mutant: the request is enabled before it is written.
ReadsEnablesFirst(c) ==
  /\ warp[c].at = "reading"
  /\ \/ stage.inPlay /\ warp[c].seen = 0 /\ Starts(c, <<"enable">> \o SubSeq(Requested, 1, 5))
     \/ ~(stage.inPlay /\ warp[c].seen = 0) /\ Refuses(c)
     \/ stage.player /\ Refuses(c)

\* Refused where the save or the player does not read, or a request was pending.
ReadsStage(c) ==
  /\ warp[c].at = "reading"
  /\ \/ stage.inPlay /\ warp[c].seen = 0 /\ Starts(c, Requested)
     \/ ~(stage.inPlay /\ warp[c].seen = 0) /\ Refuses(c)
     \/ stage.player /\ Refuses(c)   \* "the player does not read"

\* One writeWords after another, enable last; one that fails leaves the rest unwritten.
Writes(c) ==
  LET word == Head(warp[c].left)
      rest == [warp[c] EXCEPT !.left = Tail(@), !.overtaken = @ /\ word # "name"]
  IN /\ stage' = IF word = "enable" THEN [stage EXCEPT !.enable = warp[c].id]
                  ELSE [stage EXCEPT !.words[word] = warp[c].id]
     /\ warp' = [Overtaken(Askers \ {c}) EXCEPT ![c] = IF rest.left = <<>> THEN NoWarp ELSE rest]
     /\ warps' = [warps EXCEPT !.mixed = IF word = "enable" THEN warp[c].overtaken
                                         ELSE @ \/ (warp[c].overtaken /\ stage.enable # 0)]
WritesStage(c) == warp[c].at = "writing" /\ (Writes(c) \/ Refuses(c))

WarpNext ==
  \/ TitleAsks \/ TitleTakes \/ TitleBegins
  \/ \E c \in Askers : PostWarp(c) \/ ReadsStage(c) \/ WritesStage(c)
-----------------------------------------------------------------------------
\* "Enable last, so the request is whole when seen": the request the play scene sees is all
\* of one asker's, whatever a failed request left written, unless another asker (the title,
\* or another client's request) wrote its own between an asker's look, or its first write,
\* and its last: the look and the writes are under no lock.
StageSeenIsWhole ==
  stage.enable # 0 /\ ~warps.mixed => \A w \in Words : stage.words[w] = stage.enable
=============================================================================
