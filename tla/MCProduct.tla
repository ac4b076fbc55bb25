------------------------------ MODULE MCProduct -------------------------------
(***************************************************************************)
(* The product over two discs of two titles, two pads, and every shape of   *)
(* command line; the bounds of one behaviour are shared between launches,   *)
(* kills, discs taken away and pads plugged in and out.                     *)
(***************************************************************************)
EXTENDS ShellHost

CONSTANTS
  A, B,        \* disc images
  MaxEffort    \* bound: launches, kills, discs and pads moved, in one behaviour

MCTitles == {A, B}
MCIdOf == (A :> "id A") @@ (B :> "id B")

\* The product with nothing fixed, and one that runs A's title under its own name.
MCProducts == {[title |-> None, name |-> None], [title |-> "id A", name |-> "A"]}

\* As the player starts it, with a disc, hidden; and with what a launcher may name or append.
MCLines == {
  <<>>,
  <<Argument("disc image", A)>>,
  <<Argument("disc image", B)>>,
  <<Argument("--hidden", None)>>,
  <<Argument("--title-id", "id A"), Argument("--title-id", "id B")>>,
  <<Argument("--title-id", NotAnId)>>,
  <<Argument("--product-name", "A"), Argument("--width", 0)>>,
  <<Argument("--product-name", "B"), Argument("--title-id", "id B")>>,
  <<Argument("--height", Missing)>>,
  <<Argument("disc image", A), Argument("disc image", B)>>,
  <<Argument("--unknown", None)>>}

MCPacks == <<"English", "French">>
MCParts == {"font", "layouts"}
MCPartsOf == (A :> MCParts) @@ (B :> {"font"})

\* A launch differs from the one before by the disk and the cache alone, so stops and pauses
\* belong to behaviours of one launch; and pads to the loop of a launch that is otherwise the
\* simplest, since the loop looks at all of them as it begins and at nothing else.
Effort == host.launches + host.kills + disk.taken + plugged.moved
Simplest ==
  /\ host.launches = 1 /\ host.of.at \in {"start", "loop"} /\ host.of.given = A
  /\ packs.redirected = {} /\ disk.record = None /\ disk.taken = 0
Within == Effort' <= MaxEffort
MCLaunch ==
  \E product \in Products, arguments \in Lines :
    Launch(product, arguments) /\ Within /\ (host'.launches > 1 => plugged.moved = 0)
MCPostQuit == PostQuit /\ host.launches = 1
MCPlayerActs == PlayerActs /\ Within /\ (plugged' # plugged => Simplest)
MCPauseOrResume == PauseOrResume /\ host.launches = 1 /\ (gate.paused \/ host.of.running)
MCKill == Kill /\ Within
MCNext ==
  \/ HostStep \/ RunScreen \/ RequestStop \/ HoldFrame \/ LetFrameGo
  \/ MCLaunch \/ MCPostQuit \/ MCPlayerActs \/ MCPauseOrResume \/ MCKill
MCSpec == ShellInit /\ [][MCNext]_shellVars /\ WF_shellVars(HostStep) /\ WF_shellVars(LetFrameGo)
=============================================================================
