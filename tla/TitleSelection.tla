---------------------------- MODULE TitleSelection ----------------------------
(***************************************************************************)
(* Which title the product runs, kept in one line of a file between         *)
(* launches (TitleSelection), and what makes a file a title to run          *)
(* (ShellHost::titleProblem, TitleIdentity::refusal).  The file is          *)
(* truncated and then written; a launch may end in between, and a player    *)
(* may take a disc image away at any time.                                  *)
(***************************************************************************)
EXTENDS ProductCommandLine

CONSTANTS
  Titles,      \* files the player may name
  IdOf,        \* the id of each, where it is a title
  MaxTaken     \* bound: discs taken away and put back

VARIABLE disk   \* the record, the files that mount, and what the player's answers came to

Empty == "empty"   \* a record with no title that can be read in it

ASSUME TitlesAreNamed == None \notin Titles /\ Empty \notin Titles

DiskInit ==
  disk = [record |-> None, mounts |-> Titles, taken |-> 0,
          answer |-> None, cut |-> FALSE]

\* titleProblem: a file that mounts, of the one title expected where one is.
NoProblem(title, expected) ==
  /\ title \in disk.mounts
  /\ expected # None => IdOf[title] = expected

Validates(title, expected) == title # None /\ NoProblem(title, expected)

\* remembered: the record's title, or none.
Remembered(expected) ==
  IF disk.record \notin {None, Empty} /\ Validates(disk.record, expected) THEN disk.record ELSE None

\* remember, up to the record's truncation: what is refused leaves the record alone.
Truncates == disk' = [disk EXCEPT !.record = Empty]

\* The line written and flushed: the player's answer, kept.
WritesRecord(title) ==
  disk' = [disk EXCEPT !.record = title, !.answer = title, !.cut = FALSE]

\* The line did not write: the record that was there is gone.
LosesRecord == disk' = [disk EXCEPT !.cut = TRUE]

\* A disc image is taken away, or put back.
Taken(title) ==
  /\ disk.taken < MaxTaken
  /\ disk' = [disk EXCEPT !.mounts = IF title \in @ THEN @ \ {title} ELSE @ \cup {title},
                          !.taken = @ + 1]
=============================================================================
