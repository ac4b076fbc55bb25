----------------------------- MODULE SetupScreen ------------------------------
(***************************************************************************)
(* The screen that asks the player for a title (SetupScreen::run): one      *)
(* request of the shared view at a time, the picker's answer delivered      *)
(* while a frame is drawn, and the files chosen taken after it.  The shared *)
(* view and session are outside the repository: a session holds one file    *)
(* and its verdict.                                                         *)
(***************************************************************************)
EXTENDS TitleSelection, SequencesExt

CONSTANT MaxPicks   \* bound: answers of the picker

VARIABLE screen   \* SetupScreen's members, its session, and whether the channel holds it

NoScreen == [shown |-> FALSE, browsing |-> FALSE, chosen |-> <<>>, accepted |-> None,
             staged |-> None, status |-> "collecting", state |-> "collecting", offered |-> 0,
             held |-> FALSE]

ScreenInit == screen = NoScreen

\* The screen is held by the channel, and opens or does not.
OpensScreen == screen' = [NoScreen EXCEPT !.shown = TRUE, !.held = TRUE]

\* The player asks for the picker; a second while one is open is not opened.
Browses ==
  /\ screen.shown /\ screen.offered < MaxPicks
  /\ screen' = [screen EXCEPT !.browsing = TRUE]

\* onFilesChosen, on the screen's own thread: the picker failed, was closed, or files.
PickerAnswers(files) ==
  /\ screen.shown /\ screen.browsing
  /\ screen' = [screen EXCEPT !.browsing = FALSE, !.chosen = @ \o files, !.offered = @ + Len(files)]

\* What the session makes of a file it holds; one that passes is what a start then runs.
Verdict(file, expected) ==
  [screen EXCEPT !.staged = file, !.chosen = <<>>, !.state = screen.status,
                 !.accepted = IF Validates(file, expected) THEN file ELSE @,
                 !.status = IF Validates(file, expected) THEN "accepted" ELSE "rejected"]

\* add_selected took nothing of what was chosen.
NotTaken == [screen EXCEPT !.chosen = <<>>, !.state = screen.status]

\* What was chosen is taken and judged; or not taken, and what the session holds judged again.
JudgesChosen(expected) ==
  \E file \in {Last(screen.chosen), screen.staged} : file # None /\ screen' = Verdict(file, expected)

\* A frame drawn: the state the channel answers is stored first, then what was chosen taken.
DrawsScreen(expected) ==
  /\ screen.shown
  /\ \/ screen.chosen = <<>> /\ screen' = [screen EXCEPT !.state = screen.status]
     \/ screen.chosen # <<>> /\ (screen' = NotTaken \/ JudgesChosen(expected))

\* A start that could not be kept starts the session over; the screen stays.
StartsOver == screen' = [screen EXCEPT !.staged = None, !.status = "collecting"]

CloseScreen == screen' = [screen EXCEPT !.shown = FALSE]

LetsGoOfScreen == screen' = NoScreen

\* GET /setup.
SetupJson ==
  IF ~screen.held THEN [hostReports |-> FALSE, shown |-> FALSE, state |-> "", offered |-> 0]
  ELSE [hostReports |-> TRUE, shown |-> screen.shown, state |-> screen.state, offered |-> screen.offered]
=============================================================================
