--------------------------- MODULE ShellHostProofs ----------------------------
(***************************************************************************)
(* The product from launch to launch, for any titles, pads and packs, any   *)
(* command lines, any number of launches, and one killed at any step.       *)
(***************************************************************************)
EXTENDS ShellHost, SequenceTheorems, FiniteSetTheorems, TLAPS

Asking == {"ask", "screen", "close screen"}
Keeping == {"remember", "write record"}
Chosen == {"resolved", "open window", "renderer", "launch", "packs", "start", "loop"}
Checked == Chosen \ {"resolved"}
Ending == {"shut down", "shut title", "close"}

\* The records keep their fields.
HostShape ==
  /\ host = [of |-> host.of, launches |-> host.launches, kills |-> host.kills,
             askedAgain |-> host.askedAgain]
  /\ host.of = [at |-> host.of.at, title |-> host.of.title, given |-> host.of.given,
                fixed |-> host.of.fixed, expected |-> host.of.expected,
                hidden |-> host.of.hidden, running |-> host.of.running,
                keeping |-> host.of.keeping, code |-> host.of.code]
ScreenShape ==
  screen = [shown |-> screen.shown, browsing |-> screen.browsing, chosen |-> screen.chosen,
            accepted |-> screen.accepted, staged |-> screen.staged, status |-> screen.status,
            state |-> screen.state, offered |-> screen.offered, held |-> screen.held]
MapShape(m) ==
  m = [mapped |-> m.mapped, made |-> m.made, attached |-> m.attached,
       gained |-> m.gained, lost |-> m.lost, failed |-> m.failed]
Shapes ==
  /\ HostShape
  /\ disk = [record |-> disk.record, mounts |-> disk.mounts, taken |-> disk.taken,
             answer |-> disk.answer, cut |-> disk.cut]
  /\ ScreenShape
  /\ plugged = [there |-> plugged.there, connect |-> plugged.connect, moved |-> plugged.moved]
  /\ MapShape(pads)
  /\ packs = [next |-> packs.next, redirected |-> packs.redirected, writing |-> packs.writing]
  /\ events = [queue |-> events.queue, quit |-> events.quit]

Place == {"off", "bring up", "resolve"} \cup Asking \cup Keeping \cup Chosen \cup Ending
Within == {"start", "loop", "shut down", "shut title"}

\* The record is the answer kept last, unless a write was cut short.
Recorded ==
  /\ disk.mounts \subseteq Titles
  /\ disk.answer \in Titles \cup {None}
  /\ disk.record \in {None, Empty, disk.answer}
  /\ disk.answer # None /\ ~disk.cut /\ ~At("write record") => disk.record = disk.answer
  /\ ~host.askedAgain

\* What a title is at each place of the main thread.
Titled ==
  /\ host.of.at \in Place
  /\ host.of.running \in BOOLEAN
  /\ host.of.running => host.of.at \in Within
  /\ host.of.fixed # None => Expected = host.of.fixed
  /\ At("write record") => host.of.title \in Titles
  /\ host.of.at \in Asking => host.of.given = None
  /\ At("close screen") /\ host.of.title # None => host.of.title = disk.answer
  /\ host.of.at \in Keeping =>
       \/ host.of.keeping = "given" /\ host.of.given # None /\ host.of.title = host.of.given
       \/ host.of.keeping = "screen" /\ host.of.given = None
  /\ host.of.at \in Chosen \/ host.of.running =>
       host.of.title = IF host.of.given # None THEN host.of.given ELSE disk.answer
  /\ (host.of.at \in Checked \/ host.of.running) /\ Expected # None =>
       IdOf[host.of.title] = Expected

\* The screen is up while the main thread is in it, or keeps what it was told there.
Shown ==
  screen.shown => \/ host.of.at \in {"screen", "close screen"}
                  \/ host.of.at \in Keeping /\ host.of.keeping = "screen"

\* Nothing stands in its place in the cache that was not finished, whatever was left beside it.
Placed(files) == \A file \in files : file.name = "built" => file.written = Parts
Whole ==
  /\ Placed(cache)
  /\ host.of.at \in {"packs", "start", "loop"} \/ host.of.running => PacksAreWhole(host.of.title)

\* What is mapped is one pad, the one named, and is counted.
Named(m) ==
  /\ MapShape(m)
  /\ m.mapped \subseteq Pads /\ m.gained \in Nat /\ m.lost \in Nat
  /\ ~m.made => m.mapped = {}
  /\ m.mapped = (IF m.attached = NoPad THEN {} ELSE {m.attached})
  /\ m.gained = m.lost + Cardinality(m.mapped)
NoPads == [mapped |-> {}, made |-> FALSE, attached |-> NoPad, gained |-> 0, lost |-> 0,
            failed |-> FALSE]
Played ==
  /\ plugged.there \in Seq(Pads)
  /\ events.queue \in Seq({"quit", "pad"})
  /\ host.of.at \notin {"loop"} \cup Ending => pads = NoPads
  /\ At("loop") => Named(pads) /\ PadIsTheOnePlugged

Inv == Shapes /\ Recorded /\ Titled /\ Shown /\ Whole /\ Played

USE DEF At, Expected
-----------------------------------------------------------------------------
\* A step of the main thread comes to a place with a title, and changes no other of these.
Comes(place, title) ==
  /\ HostShape'
  /\ host'.of.at = place /\ host'.of.title = title /\ host'.askedAgain = host.askedAgain
  /\ host'.of.given = host.of.given /\ host'.of.fixed = host.of.fixed
  /\ host'.of.expected = host.of.expected /\ host'.of.running = host.of.running
  /\ host'.of.keeping = host.of.keeping

LEMMA Coming ==
  ASSUME HostShape
  PROVE  /\ \A place : Goes(place) => Comes(place, host.of.title)
         /\ \A place, title : Runs(title, place) => Comes(place, title)
         /\ \A code : Fails(code) => Comes("shut down", host.of.title)
  <1>1. ASSUME NEW place, Goes(place) PROVE Comes(place, host.of.title)
    BY <1>1 DEF Goes, HostShape, Comes
  <1>2. ASSUME NEW place, NEW title, Runs(title, place) PROVE Comes(place, title)
    BY <1>2 DEF Runs, HostShape, Comes
  <1>3. ASSUME NEW code, Fails(code) PROVE Comes("shut down", host.of.title)
    BY <1>3 DEF Fails, HostShape, Comes
  <1> QED BY <1>1, <1>2, <1>3

\* What a step of the main thread alone leaves as it was.
LEMMA ShapesStay ==
  ASSUME Shapes, HostShape', UNCHANGED <<disk, screen, cache, packs, plugged, pads, events>>
  PROVE  Shapes'
  BY DEF Shapes, ScreenShape

LEMMA RecordStays ==
  ASSUME Recorded, UNCHANGED disk, host'.askedAgain = host.askedAgain, ~At("write record")
  PROVE  Recorded'
  BY DEF Recorded

LEMMA PacksStay ==
  ASSUME Whole, UNCHANGED <<cache, packs>>,
         host'.of.at \in {"packs", "start", "loop"} \/ host'.of.running =>
           /\ host'.of.title = host.of.title
           /\ host.of.at \in {"packs", "start", "loop"} \/ host.of.running
  PROVE  Whole'
  BY DEF Whole, PacksAreWhole

LEMMA PadsStay ==
  ASSUME Played, UNCHANGED <<plugged, pads, events>>,
         host'.of.at # "loop", host.of.at \in {"loop"} \cup Ending => host'.of.at \in Ending
  PROVE  Played'
  BY DEF Played, Ending

\* The stages that only go on, or end in the shutdown.
LEMMA StagesKeep ==
  ASSUME Inv, BringUpSystem \/ CheckTitle \/ OpenWindow \/ BringUpRenderer PROVE Inv'
  <1> USE DEF Inv
  <1>1. UNCHANGED <<disk, screen, cache, packs, plugged, pads, events>>
    BY DEF BringUpSystem, CheckTitle, OpenWindow, BringUpRenderer, KeepsAllBut
  <1>2. PICK place :
          /\ Comes(place, host.of.title)
          /\ \/ At("bring up") /\ place = "resolve"
             \/ At("resolved") /\ NoProblem(host.of.title, Expected) /\ place = "open window"
             \/ At("open window") /\ place = "renderer"
             \/ At("renderer") /\ place = "launch"
             \/ host.of.at \in {"bring up", "resolved", "open window", "renderer"} /\ place = "shut down"
    BY Coming DEF Shapes, BringUpSystem, CheckTitle, OpenWindow, BringUpRenderer
  <1>3. Titled'
    BY <1>1, <1>2 DEF Titled, Comes, Place, Within, Asking, Keeping, Chosen, Checked, Ending, NoProblem
  <1>4. Shown'
    BY <1>1, <1>2 DEF Shown, Comes, Keeping
  <1>5. Shapes' /\ Recorded' /\ Whole' /\ Played'
    BY <1>1, <1>2, ShapesStay, RecordStays, PacksStay, PadsStay DEF Comes, Ending, Titled, Within
  <1> QED BY <1>3, <1>4, <1>5

\* A launch begins with nothing but the disk, the cache and what is plugged in.
LEMMA LaunchKeeps ==
  ASSUME Inv, NEW product, NEW arguments, Launch(product, arguments) PROVE Inv'
  <1> USE DEF Inv
  <1> DEFINE request == ParseCommandLine(product, arguments)
  <1>1. UNCHANGED <<disk, screen, cache, packs, plugged, pads, events>> /\ At("off")
    BY DEF Launch, KeepsAllBut
  <1>2. /\ HostShape' /\ host'.askedAgain = host.askedAgain
        /\ host'.of.at \in {"off", "bring up"} /\ host'.of.running = FALSE
        /\ host'.of.fixed # None => host'.of.expected = host'.of.fixed
    <2>1. product.title # None => request.expected = product.title
      BY DEF ParseCommandLine, Fixed
    <2>2. CASE request.error
      BY <2>2 DEF Launch, HostShape, Shapes, NoHost
    <2>3. CASE ~request.error
      BY <2>1, <2>3 DEF Launch, HostShape, Shapes, NoHost
    <2> QED BY <2>2, <2>3
  <1>3. Titled'
    BY <1>1, <1>2 DEF Titled, Place, Within, Asking, Keeping, Chosen, Checked, Ending
  <1>4. Shown'
    BY <1>1, <1>2 DEF Shown, Keeping
  <1>5. Shapes' /\ Recorded' /\ Whole' /\ Played'
    BY <1>1, <1>2, ShapesStay, RecordStays, PacksStay, PadsStay DEF Ending
  <1> QED BY <1>3, <1>4, <1>5

\* A title remembered is the answer kept last, and a player is asked only when it is lost
\* or does not validate.
LEMMA ResolveKeeps == ASSUME Inv, ResolveTitle PROVE Inv'
  <1> USE DEF Inv
  <1>1. UNCHANGED <<disk, screen, cache, packs, plugged, pads, events>> /\ At("resolve")
    BY DEF ResolveTitle, KeepsAllBut
  <1>2. Remembered(Expected) # None =>
          Remembered(Expected) = disk.answer /\ Remembered(Expected) = disk.record
    BY DEF Remembered, Recorded
  <1>3. Remembered(Expected) = None =>
          ~(disk.answer # None /\ ~disk.cut /\ Validates(disk.answer, Expected))
    BY <1>1, TitlesAreNamed DEF Remembered, Recorded
  <1>4. /\ HostShape' /\ ~host'.askedAgain
        /\ host'.of.given = host.of.given /\ host'.of.fixed = host.of.fixed
        /\ host'.of.expected = host.of.expected /\ host'.of.running = host.of.running
        /\ \/ /\ host'.of.at = "remember" /\ host'.of.title = host.of.given
              /\ host'.of.keeping = "given" /\ host.of.given # None
           \/ /\ host'.of.at = "resolved" /\ host'.of.title = disk.answer /\ host.of.given = None
           \/ /\ host'.of.at = "ask" /\ host.of.given = None
    <2>1. CASE host.of.given # None
      <3>1. host' = [host EXCEPT !.of.at = "remember", !.of.title = host.of.given,
                                 !.of.keeping = "given"]
        BY <2>1 DEF ResolveTitle
      <3>2. ~host.askedAgain
        BY DEF Recorded
      <3> QED BY <2>1, <3>1, <3>2 DEF HostShape, Shapes
    <2>2. CASE host.of.given = None /\ Remembered(Expected) # None
      <3>1. Runs(disk.answer, "resolved")
        BY <1>2, <2>2 DEF ResolveTitle
      <3> QED BY <2>2, <3>1, Coming DEF Shapes, Comes, Recorded
    <2>3. CASE host.of.given = None /\ Remembered(Expected) = None
      <3>1. host' = [host EXCEPT
               !.of.at = "ask",
               !.askedAgain = disk.answer # None /\ ~disk.cut /\ Validates(disk.answer, Expected)]
        BY <2>3 DEF ResolveTitle
      <3> QED BY <1>3, <2>3, <3>1 DEF HostShape, Shapes
    <2> QED BY <2>1, <2>2, <2>3
  <1>5. Titled'
    BY <1>1, <1>4 DEF Titled, Place, Within, Asking, Keeping, Chosen, Checked, Ending
  <1>6. Shown'
    BY <1>1, <1>4 DEF Shown, Keeping
  <1>7. Recorded'
    BY <1>1, <1>4 DEF Recorded
  <1>8. Shapes' /\ Whole' /\ Played'
    BY <1>1, <1>4, ShapesStay, PacksStay, PadsStay DEF Ending, Titled, Within
  <1> QED BY <1>5, <1>6, <1>7, <1>8

\* The screen keeps its fields, and is up or not as it was.
LEMMA StartsOverStays ==
  ASSUME Shapes, StartsOver
  PROVE  /\ screen'.shown = screen.shown
         /\ ScreenShape'
  BY DEF Shapes, ScreenShape, StartsOver

\* A record opened is cut until its line is written; a title given runs whatever became
\* of it, and one of the screen's only once it was kept.
LEMMA KeepingKeeps == ASSUME Inv, Remember \/ WriteRecord PROVE Inv'
  <1> USE DEF Inv
  <1>1. /\ UNCHANGED <<cache, packs, plugged, pads, events>>
        /\ UNCHANGED screen \/ StartsOver
        /\ host.of.keeping = "given" => UNCHANGED screen
    BY DEF Remember, WriteRecord, KeepsAllBut, StartOver
  <1>2. /\ screen'.shown = screen.shown
        /\ ScreenShape'
    BY <1>1, StartsOverStays DEF Shapes, ScreenShape
  <1>3. PICK place : Comes(place, host.of.title) /\ Goes(place)
    BY Coming DEF Shapes, Remember, WriteRecord
  <1>4. /\ \/ At("remember") \/ At("write record")
        /\ host.of.at \in Keeping /\ ~host.of.running
    BY DEF Remember, WriteRecord, Titled, Keeping, Within
  <1>5. \/ /\ At("remember") /\ place = "write record" /\ Truncates
           /\ Validates(host.of.title, Expected)
        \/ /\ place = Returned(FALSE) /\ At("remember") /\ UNCHANGED disk
        \/ /\ place = Returned(FALSE) /\ At("write record") /\ LosesRecord
        \/ /\ place = Returned(TRUE) /\ At("write record") /\ WritesRecord(host.of.title)
    <2>1. \A other : Goes(other) => other = place
      BY <1>3, Coming DEF Shapes, Comes
    <2> QED BY <2>1 DEF Remember, WriteRecord
  <1>6. /\ Recorded'
        /\ disk' = [record |-> disk'.record, mounts |-> disk'.mounts, taken |-> disk'.taken,
                    answer |-> disk'.answer, cut |-> disk'.cut]
        /\ place = "close screen" => disk'.answer = host.of.title
        /\ place = "write record" => host.of.title \in Titles
    <2> USE DEF Recorded, Shapes, Comes, Returned
    <2>1. CASE At("remember") /\ place = "write record" /\ Truncates
      BY <1>3, <1>5, <2>1 DEF Truncates, Validates, NoProblem
    <2>2. CASE place = Returned(FALSE) /\ At("remember") /\ UNCHANGED disk
      BY <1>3, <2>2
    <2>3. CASE place = Returned(FALSE) /\ At("write record") /\ LosesRecord
      BY <1>3, <2>3 DEF LosesRecord
    <2>4. CASE place = Returned(TRUE) /\ At("write record") /\ WritesRecord(host.of.title)
      <3>1. host.of.title \in Titles
        BY <2>4 DEF Titled
      <3>2. disk' = [disk EXCEPT !.record = host.of.title, !.answer = host.of.title, !.cut = FALSE]
        BY <2>4 DEF WritesRecord
      <3> QED BY <1>3, <2>4, <3>1, <3>2, TitlesAreNamed
    <2> QED BY <1>5, <2>1, <2>2, <2>3, <2>4
  <1>7. \/ place = "write record" /\ At("remember")
        \/ place = "resolved" /\ host.of.keeping = "given"
        \/ place \in {"screen", "close screen"} /\ host.of.keeping # "given"
    BY <1>5 DEF Returned
  <1>8. Titled'
    BY <1>3, <1>4, <1>6, <1>7 DEF Titled, Comes, Place, Within, Asking, Keeping, Chosen, Checked, Ending
  <1>9. Shown'
    BY <1>2, <1>3, <1>4, <1>7 DEF Shown, Comes, Keeping
  <1>10. Shapes'
    BY <1>1, <1>2, <1>3, <1>6 DEF Shapes, Comes
  <1>11. Whole' /\ Played'
    BY <1>1, <1>3, <1>4, <1>7, PacksStay, PadsStay DEF Comes, Ending, Keeping
  <1> QED BY <1>6, <1>8, <1>9, <1>10, <1>11

\* The screen's loop ends with a title to keep, or with none.
LEMMA ScreenKeeps == ASSUME Inv, AskPlayer \/ RunScreen \/ CloseSetup PROVE Inv'
  <1> USE DEF Inv
  <1>1. UNCHANGED <<disk, cache, packs, plugged, pads, events>>
    BY DEF AskPlayer, RunScreen, CloseSetup, KeepsAllBut
  <1>2. /\ host.of.at \in Asking /\ host.of.given = None /\ ~host.of.running
    BY DEF AskPlayer, RunScreen, CloseSetup, Titled, Asking, Within
  <1>3. ScreenShape'
    <2>1. CASE RunScreen
      <3>1. CASE Browses
        BY <3>1 DEF Browses, Shapes, ScreenShape
      <3>2. ASSUME NEW files, PickerAnswers(files) PROVE ScreenShape'
        BY <3>2 DEF PickerAnswers, Shapes, ScreenShape
      <3>3. CASE DrawsScreen(Expected)
        BY <3>3 DEF DrawsScreen, JudgesChosen, NotTaken, Verdict, Shapes, ScreenShape
      <3>4. CASE UNCHANGED screen \/ StartsOver
        BY <3>4, StartsOverStays DEF Shapes, ScreenShape
      <3> QED BY <2>1, <3>1, <3>2, <3>3, <3>4 DEF RunScreen
    <2>2. CASE AskPlayer \/ CloseSetup
      <3>1. CASE OpensScreen
        BY <3>1 DEF OpensScreen, NoScreen, ScreenShape
      <3>2. CASE CloseScreen
        BY <3>2 DEF CloseScreen, Shapes, ScreenShape
      <3>3. CASE LetsGoOfScreen
        BY <3>3 DEF LetsGoOfScreen, NoScreen, ScreenShape
      <3>4. CASE UNCHANGED screen
        BY <3>4 DEF Shapes, ScreenShape
      <3> QED BY <2>2, <3>1, <3>2, <3>3, <3>4 DEF AskPlayer, CloseSetup
    <2> QED BY <2>1, <2>2
  <1>4. /\ HostShape' /\ host'.askedAgain = host.askedAgain
        /\ host'.of.given = host.of.given /\ host'.of.fixed = host.of.fixed
        /\ host'.of.expected = host.of.expected /\ host'.of.running = host.of.running
        /\ \/ host'.of.at \in {"screen", "shut down"}
           \/ /\ host'.of.at = "remember" /\ host'.of.keeping = "screen"
           \/ /\ host'.of.at = "close screen"
              /\ host'.of.title = None \/ (At("close screen") /\ host'.of.title = host.of.title)
           \/ /\ host'.of.at = "resolved" /\ At("close screen")
              /\ host'.of.title = host.of.title /\ host.of.title # None
        /\ screen'.shown => \/ host'.of.at \in {"screen", "close screen"}
                            \/ host'.of.at = "remember" /\ host'.of.keeping = "screen"
    <2>1. CASE AskPlayer
      <3>1. \/ Comes("screen", host.of.title)
            \/ Comes("shut down", host.of.title) /\ UNCHANGED screen /\ At("ask")
        BY <2>1, Coming DEF AskPlayer, Shapes
      <3> QED BY <3>1 DEF Comes, Shown, Keeping
    <2>2. CASE CloseSetup
      <3>1. CASE screen.shown
        BY <2>2, <3>1 DEF CloseSetup, CloseScreen, Shapes, HostShape, ScreenShape
      <3>2. CASE ~screen.shown
        <4>1. /\ \/ host.of.title = None /\ Comes("shut down", host.of.title)
                 \/ host.of.title # None /\ Comes("resolved", host.of.title)
              /\ screen' = NoScreen /\ At("close screen")
          BY <2>2, <3>2, Coming DEF CloseSetup, LetsGoOfScreen, Shapes
        <4>2. ~screen'.shown
          BY <4>1 DEF NoScreen
        <4> QED BY <4>1, <4>2 DEF Comes
      <3> QED BY <3>1, <3>2
    <2>3. CASE RunScreen
      <3>1. At("screen")
        BY <2>3 DEF RunScreen
      <3>2. CASE UNCHANGED host
        BY <3>1, <3>2 DEF Shapes, HostShape
      <3>3. CASE host' = [host EXCEPT !.of.at = "remember", !.of.title = screen.accepted,
                                      !.of.keeping = "screen"]
        BY <3>3 DEF Shapes, HostShape
      <3>4. CASE Runs(None, "close screen")
        BY <3>4, Coming DEF Shapes, Comes
      <3> QED BY <2>3, <3>2, <3>3, <3>4 DEF RunScreen
    <2> QED BY <2>1, <2>2, <2>3
  <1>5. Titled'
    BY <1>1, <1>2, <1>4 DEF Titled, Place, Within, Asking, Keeping, Chosen, Checked, Ending
  <1>6. Shown'
    BY <1>4 DEF Shown, Keeping
  <1>7. Shapes'
    BY <1>1, <1>3, <1>4 DEF Shapes
  <1>8. Recorded'
    BY <1>1, <1>2, <1>4 DEF Recorded, Asking
  <1>9. Whole' /\ Played'
    BY <1>1, <1>2, <1>4, PacksStay, PadsStay DEF Asking, Ending
  <1> QED BY <1>5, <1>6, <1>7, <1>8, <1>9

\* A title is checked again as it is launched, with no pack in front of its own yet.
LEMMA LaunchTitleKeeps == ASSUME Inv, LaunchTitle PROVE Inv'
  <1> USE DEF Inv
  <1>1. UNCHANGED <<disk, screen, plugged, pads, events, cache>> /\ At("launch")
    BY DEF LaunchTitle, KeepsAllBut, StartPacks
  <1>2. \/ /\ Comes("packs", host.of.title) /\ StartPacks
        \/ /\ Comes("shut down", host.of.title) /\ UNCHANGED packs
    BY Coming DEF LaunchTitle, Shapes
  <1>3. Titled'
    BY <1>1, <1>2 DEF Titled, Comes, Place, Within, Asking, Keeping, Chosen, Checked, Ending
  <1>4. Shapes'
    <2>1. packs' = [next |-> packs'.next, redirected |-> packs'.redirected,
                   writing |-> packs'.writing]
      BY <1>2 DEF Shapes, StartPacks
    <2> QED BY <1>1, <1>2, <2>1 DEF Shapes, ScreenShape, Comes
  <1>5. Shown' /\ Recorded'
    BY <1>1, <1>2, RecordStays DEF Shown, Comes, Keeping
  <1>6. Whole'
    <2>1. ~host.of.running
      BY <1>1 DEF Titled, Within
    <2>2. CASE StartPacks
      BY <1>1, <2>2 DEF Whole, PacksAreWhole, StartPacks
    <2>3. CASE Comes("shut down", host.of.title) /\ UNCHANGED packs
      BY <1>1, <2>1, <2>3 DEF Whole, Comes
    <2> QED BY <1>2, <2>2, <2>3
  <1>7. Played'
    BY <1>1, <1>2, PadsStay DEF Comes, Ending
  <1> QED BY <1>3, <1>4, <1>5, <1>6, <1>7

\* A step of the packs' installation puts whole packs of this title's in front.
LEMMA PacksStepKeeps ==
  ASSUME NEW source, Shapes, PacksStep(source), PacksAreWhole(source),
         Placed(cache)
  PROVE  /\ PacksAreWhole(source)' /\ Placed(cache)'
         /\ packs' = [next |-> packs'.next, redirected |-> packs'.redirected,
                      writing |-> packs'.writing]
  <1>1. \A more : NextPack(more) =>
          /\ packs'.redirected = packs.redirected \cup more
          /\ packs' = [next |-> packs'.next, redirected |-> packs'.redirected,
                      writing |-> packs'.writing]
    BY DEF NextPack
  <1>2. CASE SkipsPack \/ RefusesPack(source) \/ LeavesPack
    <2>1. NextPack({}) /\ UNCHANGED cache
      BY <1>2 DEF SkipsPack, RefusesPack, LeavesPack
    <2>2. packs'.redirected = packs.redirected
      BY <1>1, <2>1
    <2> QED BY <1>1, <2>1, <2>2 DEF PacksAreWhole
  <1>3. CASE UsesPack(source)
    <2>1. NextPack(InPlace(source, Pack)) /\ UNCHANGED cache
      BY <1>3 DEF UsesPack
    <2>2. packs'.redirected = packs.redirected \cup InPlace(source, Pack)
      BY <1>1, <2>1
    <2>3. \A file \in InPlace(source, Pack) : file.written = Parts /\ file.source = source
      BY DEF InPlace, Files, Placed
    <2> QED BY <1>1, <2>1, <2>2, <2>3 DEF PacksAreWhole
  <1>4. CASE BeginsPack(source)
    <2>1. Kept(source, Pack, "partial", Begun).name = "partial"
      BY DEF Kept
    <2>2. cache' \subseteq cache \cup {Kept(source, Pack, "partial", Begun)}
      BY <1>4 DEF BeginsPack, Opens
    <2>3. Placed(cache)'
      BY <2>1, <2>2 DEF Placed
    <2>4. /\ packs' = [packs EXCEPT !.writing = TRUE]
          /\ packs = [next |-> packs.next, redirected |-> packs.redirected,
                      writing |-> packs.writing]
      BY <1>4 DEF BeginsPack, Shapes
    <2>5. /\ packs'.redirected = packs.redirected
          /\ packs' = [next |-> packs'.next, redirected |-> packs'.redirected,
                       writing |-> packs'.writing]
      BY <2>4
    <2> QED BY <2>3, <2>5 DEF PacksAreWhole
  <1>5. CASE FinishesPack(source)
    <2> DEFINE whole == Kept(source, Pack, "built", Parts)
    <2>1. /\ NextPack({whole})
          /\ cache' \subseteq cache \cup {whole}
      BY <1>5 DEF FinishesPack
    <2>2. whole.written = Parts /\ whole.source = source
      BY DEF Kept
    <2> HIDE DEF whole
    <2>3. packs'.redirected = packs.redirected \cup {whole}
      BY <1>1, <2>1
    <2> QED BY <1>1, <2>1, <2>2, <2>3 DEF PacksAreWhole, Placed
  <1> QED BY <1>2, <1>3, <1>4, <1>5 DEF PacksStep

LEMMA InstallKeeps == ASSUME Inv, InstallPacks PROVE Inv'
  <1> USE DEF Inv
  <1>1. UNCHANGED <<disk, screen, plugged, pads, events>> /\ At("packs")
    BY DEF InstallPacks, KeepsAllBut
  <1>2. /\ HostShape' /\ host'.of.at \in {"packs", "start"} /\ host'.of.running \in BOOLEAN
        /\ host'.of.running => host'.of.at = "start"
        /\ host'.of.title = host.of.title /\ host'.askedAgain = host.askedAgain
        /\ host'.of.given = host.of.given /\ host'.of.fixed = host.of.fixed
        /\ host'.of.expected = host.of.expected
    <2>1. ~host.of.running /\ host.of.running \in BOOLEAN
      BY <1>1 DEF Titled, Within
    <2>2. CASE UNCHANGED host
      <3>1. HostShape'
        BY <2>2 DEF Shapes, HostShape
      <3> QED BY <1>1, <2>1, <2>2, <3>1
    <2>3. CASE host' = [host EXCEPT !.of.at = "start", !.of.running = TRUE]
      BY <2>3 DEF Shapes, HostShape
    <2> QED BY <2>2, <2>3 DEF InstallPacks
  <1>3. /\ PacksAreWhole(host.of.title)' /\ Placed(cache)'
        /\ packs' = [next |-> packs'.next, redirected |-> packs'.redirected,
                     writing |-> packs'.writing]
    <2>1. PacksAreWhole(host.of.title) /\ Placed(cache)
      BY <1>1 DEF Whole
    <2>2. CASE PacksStep(host.of.title)
      BY <1>2, <2>1, <2>2, PacksStepKeeps DEF PacksAreWhole
    <2>3. CASE UNCHANGED <<cache, packs>>
      BY <1>2, <2>1, <2>3 DEF PacksAreWhole, Shapes
    <2> QED BY <2>2, <2>3 DEF InstallPacks
  <1>4. Titled'
    BY <1>1, <1>2 DEF Titled, Place, Within, Asking, Keeping, Chosen, Checked, Ending
  <1>5. Shapes' /\ Shown' /\ Recorded'
    BY <1>1, <1>2, <1>3, RecordStays DEF Shown, Shapes, ScreenShape, Keeping
  <1>6. Whole' /\ Played'
    BY <1>1, <1>2, <1>3, PadsStay DEF Whole, Ending
  <1> QED BY <1>4, <1>5, <1>6
-----------------------------------------------------------------------------
\* The pads of the map that are there no more.
Gone(m) == IF m.made THEN Lost(m.mapped) ELSE {}

\* The map of the player's controller keeps its fields.
LEMMA MapFields ==
  ASSUME NEW m, MapShape(m)
  PROVE  /\ MapShape(WithoutLost(m)) /\ MapShape(Unnamed(m))
         /\ MapShape([m EXCEPT !.failed = FALSE])
         /\ MapShape([m EXCEPT !.made = TRUE, !.mapped = {}])
         /\ MapShape([m EXCEPT !.made = FALSE, !.mapped = {}])
         /\ \A makes \in BOOLEAN : MapShape(Attached(m, makes))
  <1>1. MapShape(WithoutLost(m))
    <2> DEFINE p == WithoutLost(m)
    <2>1. /\ DOMAIN p = {"mapped", "made", "attached", "gained", "lost", "failed"}
          /\ p = [i \in DOMAIN p |-> p[i]]
      BY DEF MapShape, WithoutLost
    <2> HIDE DEF p
    <2>2. MapShape(p)
      BY <2>1 DEF MapShape
    <2> QED BY <2>2 DEF p
  <1>2. MapShape([m EXCEPT !.failed = FALSE])
    <2> DEFINE p == [m EXCEPT !.failed = FALSE]
    <2>1. /\ DOMAIN p = {"mapped", "made", "attached", "gained", "lost", "failed"}
          /\ p = [i \in DOMAIN p |-> p[i]]
      BY DEF MapShape
    <2> HIDE DEF p
    <2>2. MapShape(p)
      BY <2>1 DEF MapShape
    <2> QED BY <2>2 DEF p
  <1>5. MapShape(Unnamed(m))
    <2> DEFINE p == Unnamed(m)
    <2>1. /\ DOMAIN p = {"mapped", "made", "attached", "gained", "lost", "failed"}
          /\ p = [i \in DOMAIN p |-> p[i]]
      BY DEF MapShape, Unnamed
    <2> HIDE DEF p
    <2>2. MapShape(p)
      BY <2>1 DEF MapShape
    <2> QED BY <2>2 DEF p
  <1>3. ASSUME NEW made \in BOOLEAN PROVE MapShape([m EXCEPT !.made = made, !.mapped = {}])
    <2> DEFINE p == [m EXCEPT !.made = made, !.mapped = {}]
    <2>1. /\ DOMAIN p = {"mapped", "made", "attached", "gained", "lost", "failed"}
          /\ p = [i \in DOMAIN p |-> p[i]]
      BY DEF MapShape
    <2> HIDE DEF p
    <2>2. MapShape(p)
      BY <2>1 DEF MapShape
    <2> QED BY <2>2 DEF p
  <1>4. ASSUME NEW makes \in BOOLEAN PROVE MapShape(Attached(m, makes))
    <2> DEFINE p == Attached(m, makes)
    <2>1. /\ DOMAIN p = {"mapped", "made", "attached", "gained", "lost", "failed"}
          /\ p = [i \in DOMAIN p |-> p[i]]
      BY DEF MapShape, Attached
    <2> HIDE DEF p
    <2>2. MapShape(p)
      BY <2>1 DEF MapShape
    <2> QED BY <2>2 DEF p
  <1> QED BY <1>1, <1>2, <1>3, <1>4, <1>5

\* The pad mapped is one that is there.
There(m) ==
  /\ m.mapped \subseteq Range(plugged.there)
  /\ plugged.there # <<>> /\ ~m.failed => m.mapped # {}

\* A pad that attaches is the one named, and the first that is there.
LEMMA AttachedNames ==
  ASSUME NEW m, NEW makes \in BOOLEAN, Named(m), m.mapped = {},
         plugged.there \in Seq(Pads), plugged.there # <<>>
  PROVE  Named(Attached(m, makes)) /\ There(Attached(m, makes))
  <1> DEFINE p == Attached(m, makes)
  <1>1. plugged.there[1] \in Pads /\ plugged.there[1] \in Range(plugged.there)
    BY EmptySeq DEF Range
  <1>2. MapShape(p)
    BY MapFields DEF Named
  <1>3. CASE plugged.there[1] \in plugged.connect /\ makes
    <2> DEFINE first == plugged.there[1]
    <2>1. /\ p.mapped = {first} /\ p.made = TRUE /\ p.attached = first
          /\ p.gained = m.gained + 1 /\ p.lost = m.lost
      <3>1. p = [m EXCEPT !.mapped = {first}, !.made = TRUE, !.attached = first,
                          !.gained = m.gained + 1, !.failed = FALSE]
        BY <1>3 DEF Attached
      <3> HIDE DEF p, first
      <3>2. DOMAIN m = {"mapped", "made", "attached", "gained", "lost", "failed"}
        BY DEF Named, MapShape
      <3> QED BY <3>1, <3>2
    <2>2. m.gained = m.lost
      <3>1. Cardinality(m.mapped) = 0
        BY FS_EmptySet
      <3> QED BY <3>1 DEF Named
    <2>3. Cardinality({plugged.there[1]}) = 1
      BY FS_Singleton
    <2> HIDE DEF p
    <2> QED BY <1>1, <1>2, <2>1, <2>2, <2>3, PadsAreNamed DEF Named, There, p
  <1>4. CASE ~(plugged.there[1] \in plugged.connect /\ makes)
    <2>1. /\ p.mapped = m.mapped /\ p.made = m.made /\ p.attached = m.attached
          /\ p.gained = m.gained /\ p.lost = m.lost /\ p.failed
      <3>1. p = [m EXCEPT !.failed = TRUE]
        BY <1>4 DEF Attached
      <3> HIDE DEF p
      <3>2. DOMAIN m = {"mapped", "made", "attached", "gained", "lost", "failed"}
        BY DEF Named, MapShape
      <3> QED BY <3>1, <3>2
    <2> HIDE DEF p
    <2>2. Named(p) /\ There(p)
      BY <1>2, <2>1 DEF Named, There
    <2> QED BY <2>2 DEF p
  <1> QED BY <1>3, <1>4

\* Whatever comes and goes, the pad mapped is one that is there, or the last would not attach.
LEMMA ReconciledNames ==
  ASSUME NEW m, NEW makes \in BOOLEAN, Named(m), plugged.there \in Seq(Pads)
  PROVE  Named(Reconciled(m, makes)) /\ There(Reconciled(m, makes))
  <1> DEFINE left == WithoutLost(m)
             none == Unnamed(left)
  <1>1. /\ left.mapped = m.mapped \ Gone(m) /\ left.lost = m.lost + Cardinality(Gone(m))
        /\ left.made = m.made /\ left.attached = m.attached /\ left.gained = m.gained
    BY DEF WithoutLost, Named, MapShape, Gone
  <1>2. MapShape(left) /\ MapShape(none)
    BY MapFields DEF Named
  <1>3. /\ Cardinality(m.mapped) \in {0, 1} /\ (m.mapped = {} <=> Cardinality(m.mapped) = 0)
        /\ \A p \in m.mapped : m.mapped = {p}
    BY FS_EmptySet, FS_Singleton DEF Named
  <1>4. Gone(m) = {} \/ Gone(m) = m.mapped
    BY <1>3 DEF Lost, Gone
  <1>5. Reconciled(m, makes) =
          IF m.made /\ Keeps(m.mapped) THEN left
          ELSE IF plugged.there = <<>> THEN [none EXCEPT !.failed = FALSE]
          ELSE Attached(none, makes)
    BY DEF Reconciled
  <1>6. CASE m.made /\ Keeps(m.mapped)
    <2>1. Gone(m) = {}
      BY <1>3, <1>4, <1>6 DEF Keeps, Gone, Lost
    <2>2. m.mapped # {} /\ m.mapped \subseteq Range(plugged.there)
      BY <1>3, <1>6 DEF Keeps, Lost
    <2>3. left.mapped = m.mapped /\ left.lost = m.lost
      BY <1>1, <2>1, FS_EmptySet DEF Named
    <2> HIDE DEF left
    <2>4. Named(left) /\ There(left)
      BY <1>1, <1>2, <2>2, <2>3 DEF Named, There
    <2> QED BY <1>5, <1>6, <2>4
  <1>7. CASE ~(m.made /\ Keeps(m.mapped))
    <2>1. /\ none.mapped = left.mapped /\ none.lost = left.lost /\ none.made = left.made
          /\ none.attached = NoPad /\ none.gained = left.gained
      BY <1>2 DEF Unnamed, MapShape
    <2>2. m.mapped \ Gone(m) = {}
      BY <1>7 DEF Keeps, Gone, Lost, Named
    <2>3. m.lost + Cardinality(Gone(m)) = m.gained
      BY <1>3, <1>4, <2>2, FS_EmptySet DEF Named
    <2> HIDE DEF none, left
    <2>4. none.mapped = {} /\ none.lost = m.gained /\ none.gained = m.gained /\ none.attached = NoPad
      BY <1>1, <2>1, <2>2, <2>3
    <2>5. Named(none)
      BY <1>2, <2>4, FS_EmptySet DEF Named
    <2>6. CASE plugged.there = <<>>
      <3> DEFINE p == [none EXCEPT !.failed = FALSE]
      <3>1. /\ p.mapped = none.mapped /\ p.lost = none.lost /\ p.made = none.made
            /\ p.attached = none.attached /\ p.gained = none.gained
        BY <1>2 DEF MapShape
      <3>2. MapShape(p)
        BY <1>2, MapFields
      <3> HIDE DEF p
      <3>3. Named(p) /\ There(p)
        BY <2>4, <2>5, <2>6, <3>1, <3>2 DEF Named, There
      <3> QED BY <1>5, <1>7, <2>6, <3>3 DEF p
    <2>7. CASE plugged.there # <<>>
      <3>1. Named(Attached(none, makes)) /\ There(Attached(none, makes))
        BY <2>4, <2>5, <2>7, AttachedNames
      <3> QED BY <1>5, <1>7, <2>7, <3>1
    <2> QED BY <2>6, <2>7
  <1> QED BY <1>6, <1>7

\* Once every event of a pad is handled, the property is of those that are there.
LEMMA PadsAsThePropertySays ==
  ASSUME At("loop"), PadIsTheOnePlugged, "pad" \notin Range(events.queue) PROVE There(pads)
  BY DEF PadIsTheOnePlugged, There, PlayedWithWhatIsThere

\* An event handled is gone from the queue, and one posted is in it.
LEMMA QueueTail ==
  ASSUME NEW Kinds, NEW queue \in Seq(Kinds), queue # <<>>
  PROVE  /\ Tail(queue) \in Seq(Kinds) /\ Head(queue) \in Kinds
         /\ \A kind \in Range(queue) : kind = Head(queue) \/ kind \in Range(Tail(queue))
  <1>1. /\ Tail(queue) \in Seq(Kinds) /\ Len(Tail(queue)) = Len(queue) - 1
        /\ Head(queue) = queue[1] /\ Head(queue) \in Kinds
        /\ \A i \in 1 .. Len(queue) - 1 : Tail(queue)[i] = queue[i + 1]
        /\ Len(queue) \in Nat /\ DOMAIN queue = 1 .. Len(queue)
    BY HeadTailProperties, LenProperties
  <1>2. DOMAIN Tail(queue) = 1 .. Len(queue) - 1
    BY <1>1, LenProperties
  <1>3. ASSUME NEW i \in DOMAIN queue, i # 1 PROVE queue[i] \in Range(Tail(queue))
    <2>1. i - 1 \in DOMAIN Tail(queue) /\ Tail(queue)[i - 1] = queue[i]
      BY <1>1, <1>2, <1>3
    <2> QED BY <2>1 DEF Range
  <1>4. ASSUME NEW kind \in Range(queue) PROVE kind = Head(queue) \/ kind \in Range(Tail(queue))
    <2>1. PICK i \in DOMAIN queue : queue[i] = kind
      BY DEF Range
    <2> QED BY <1>1, <1>3, <2>1
  <1> QED BY <1>1, <1>4

LEMMA QueueAppend ==
  ASSUME NEW Kinds, NEW queue \in Seq(Kinds), NEW kind \in Kinds
  PROVE  /\ Append(queue, kind) \in Seq(Kinds)
         /\ Range(Append(queue, kind)) = Range(queue) \cup {kind}
  <1> DEFINE more == Append(queue, kind)
  <1>1. /\ more \in Seq(Kinds) /\ Len(more) = Len(queue) + 1
        /\ \A i \in 1 .. Len(queue) : more[i] = queue[i]
        /\ more[Len(queue) + 1] = kind
        /\ Len(queue) \in Nat /\ DOMAIN queue = 1 .. Len(queue)
    BY AppendProperties, LenProperties
  <1>2. DOMAIN more = 1 .. Len(queue) + 1
    BY <1>1, LenProperties
  <1> HIDE DEF more
  <1>3. ASSUME NEW one \in Range(more) PROVE one \in Range(queue) \cup {kind}
    <2>1. PICK i \in DOMAIN more : more[i] = one
      BY DEF Range
    <2>2. i = Len(queue) + 1 \/ i \in DOMAIN queue
      BY <1>1, <1>2
    <2> QED BY <1>1, <2>1, <2>2 DEF Range
  <1>4. ASSUME NEW one \in Range(queue) PROVE one \in Range(more)
    <2>1. PICK i \in DOMAIN queue : queue[i] = one
      BY DEF Range
    <2>2. i \in DOMAIN more /\ more[i] = one
      BY <1>1, <1>2, <2>1
    <2> QED BY <2>2 DEF Range
  <1>5. kind \in Range(more)
    BY <1>1, <1>2 DEF Range
  <1>6. Range(more) = Range(queue) \cup {kind}
    BY <1>3, <1>4, <1>5
  <1> QED BY <1>1, <1>6 DEF more

\* A pad taken out of those there leaves a sequence of pads.
LEMMA RemovedIsThere ==
  ASSUME NEW S, NEW seq \in Seq(S), NEW i \in DOMAIN seq PROVE RemoveAt(seq, i) \in Seq(S)
  <1>1. i \in 1 .. Len(seq) /\ Len(seq) \in Nat
    BY LenProperties
  <1>2. SubSeq(seq, 1, i - 1) \in Seq(S) /\ SubSeq(seq, i + 1, Len(seq)) \in Seq(S)
    BY <1>1, SubSeqProperties
  <1>3. RemoveAt(seq, i) = SubSeq(seq, 1, i - 1) \o SubSeq(seq, i + 1, Len(seq))
    BY DEF RemoveAt
  <1> QED BY <1>2, <1>3, ConcatProperties
-----------------------------------------------------------------------------
\* The events of the player and the main thread's loop.

\* Where the pads and the queue change and nothing else that the invariant speaks of.
LEMMA OthersStay ==
  ASSUME Inv, UNCHANGED <<disk, screen, cache, packs>>,
         HostShape', host'.of.title = host.of.title, host'.of.running = host.of.running,
         host'.of.given = host.of.given, host'.of.fixed = host.of.fixed,
         host'.of.expected = host.of.expected, host'.of.keeping = host.of.keeping,
         host'.askedAgain = host.askedAgain,
         host'.of.at = host.of.at \/ (At("start") /\ host'.of.at = "loop"),
         plugged' = [there |-> plugged'.there, connect |-> plugged'.connect,
                     moved |-> plugged'.moved],
         MapShape(pads)',
         events' = [queue |-> events'.queue, quit |-> events'.quit],
         Played'
  PROVE  Inv'
  <1> USE DEF Inv
  <1>1. Shapes'
    BY DEF Shapes, ScreenShape, MapShape
  <1>2. Recorded'
    BY DEF Recorded
  <1>3. Titled'
    BY DEF Titled, Place, Within, Asking, Keeping, Chosen, Checked, Ending
  <1>4. Shown'
    BY DEF Shown, Keeping
  <1>5. Whole'
    BY DEF Whole, PacksAreWhole
  <1> QED BY <1>1, <1>2, <1>3, <1>4, <1>5

\* The first look at the pads is at none mapped.
LEMMA StartLoopKeeps ==
  ASSUME Inv, NEW created \in BOOLEAN, NEW makes \in BOOLEAN, StartLoop(created, makes)
  PROVE  Inv'
  <1> USE DEF Inv
  <1> DEFINE m == [pads EXCEPT !.made = created, !.mapped = {}]
  <1>1. /\ UNCHANGED <<disk, screen, cache, packs, plugged, events>> /\ At("start")
        /\ pads' = Reconciled(m, makes)
    BY DEF StartLoop, KeepsAllBut, StartPads
  <1>2. Comes("loop", host.of.title)
    BY Coming DEF StartLoop, Shapes
  <1>3. pads = NoPads /\ plugged.there \in Seq(Pads)
    BY <1>1 DEF Played, Ending
  <1>4. Named(m)
    <2>1. /\ m.mapped = {} /\ m.attached = NoPad /\ m.gained = 0 /\ m.lost = 0
      BY <1>3 DEF NoPads
    <2>2. MapShape(m)
      BY MapFields DEF Shapes
    <2> HIDE DEF m
    <2>3. Cardinality(m.mapped) = 0
      BY <2>1, FS_EmptySet
    <2> QED BY <2>1, <2>2, <2>3 DEF Named
  <1> HIDE DEF m
  <1>5. Named(pads)' /\ There(pads)'
    <2>1. Named(Reconciled(m, makes)) /\ There(Reconciled(m, makes))
      BY <1>3, <1>4, ReconciledNames
    <2> QED BY <1>1, <2>1 DEF Named, There, MapShape
  <1>6. PadIsTheOnePlugged'
    BY <1>5 DEF PadIsTheOnePlugged, Named, There, NamedIsMapped, PlayedWithWhatIsThere,
              ControllersJson
  <1>7. Played'
    BY <1>1, <1>2, <1>5, <1>6 DEF Played, Comes
  <1> QED BY <1>1, <1>2, <1>5, <1>7, OthersStay DEF Comes, Shapes, Named

\* An event of a pad is looked at by what is there; a quit leaves the pads as they are.
LEMMA PumpKeeps ==
  ASSUME Inv, NEW makes \in BOOLEAN, PumpEvent(makes) PROVE Inv'
  <1> USE DEF Inv
  <1>1. /\ UNCHANGED <<disk, screen, cache, packs, plugged, host>> /\ At("loop")
        /\ events.queue # <<>> /\ events'.queue = Tail(events.queue)
        /\ events' = [queue |-> events'.queue, quit |-> events'.quit]
        /\ IF Head(events.queue) = "pad" THEN pads' = Reconciled(pads, makes) ELSE UNCHANGED pads
    BY DEF PumpEvent, KeepsAllBut, HandlePadEvent
  <1>2. /\ plugged.there \in Seq(Pads) /\ Named(pads) /\ PadIsTheOnePlugged
        /\ events.queue \in Seq({"quit", "pad"})
    BY <1>1 DEF Played
  <1>3. /\ events'.queue \in Seq({"quit", "pad"})
        /\ \A kind \in Range(events.queue) :
             kind = Head(events.queue) \/ kind \in Range(events'.queue)
    BY <1>1, <1>2, QueueTail
  <1>4. Named(pads)' /\ ("pad" \notin Range(events'.queue) => There(pads)')
    <2>1. CASE Head(events.queue) = "pad"
      <3>1. Named(Reconciled(pads, makes)) /\ There(Reconciled(pads, makes))
        BY <1>2, ReconciledNames
      <3> QED BY <1>1, <2>1, <3>1 DEF Named, There, MapShape
    <2>2. CASE Head(events.queue) # "pad"
      <3>1. "pad" \notin Range(events'.queue) => There(pads)
        BY <1>1, <1>2, <1>3, <2>2, PadsAsThePropertySays
      <3> QED BY <1>1, <1>2, <2>2, <3>1 DEF Named, There, MapShape
    <2> QED BY <2>1, <2>2
  <1>5. PadIsTheOnePlugged'
    BY <1>4 DEF PadIsTheOnePlugged, Named, There, NamedIsMapped, PlayedWithWhatIsThere,
              ControllersJson
  <1>6. Played'
    BY <1>1, <1>2, <1>3, <1>4, <1>5 DEF Played
  <1>7. HostShape' /\ MapShape(pads)'
    BY <1>1, <1>4 DEF Shapes, HostShape, Named
  <1> QED BY <1>1, <1>6, <1>7, OthersStay DEF Shapes

\* A quit in the queue says nothing of the pads.
LEMMA QuitQueued ==
  ASSUME Inv, UNCHANGED <<disk, screen, cache, packs, plugged, pads, host>>,
         events' = [events EXCEPT !.queue = Append(@, "quit")]
  PROVE  Inv'
  <1> USE DEF Inv
  <1>1. /\ events'.queue = Append(events.queue, "quit")
        /\ events' = [queue |-> events'.queue, quit |-> events'.quit]
    BY DEF Shapes
  <1>2. /\ events'.queue \in Seq({"quit", "pad"})
        /\ Range(events'.queue) = Range(events.queue) \cup {"quit"}
    BY <1>1, QueueAppend DEF Played
  <1>3. At("loop") => Named(pads)' /\ ("pad" \notin Range(events'.queue) => There(pads)')
    <2>1. At("loop") /\ "pad" \notin Range(events'.queue) => There(pads)
      BY <1>2, PadsAsThePropertySays DEF Played
    <2> QED BY <2>1 DEF Played, Named, There, MapShape
  <1>4. ASSUME At("loop") PROVE PadIsTheOnePlugged'
    <2>1. Named(pads)' /\ ("pad" \notin Range(events'.queue) => There(pads)')
      BY <1>3, <1>4
    <2>2. NamedIsMapped'
      BY <2>1 DEF Named, NamedIsMapped, ControllersJson
    <2>3. ("pad" \notin Range(events.queue))' => PlayedWithWhatIsThere'
      BY <2>1 DEF There, PlayedWithWhatIsThere
    <2> QED BY <2>2, <2>3 DEF PadIsTheOnePlugged
  <1>5. Played'
    BY <1>2, <1>3, <1>4 DEF Played
  <1>6. HostShape' /\ MapShape(pads)'
    BY DEF Shapes, HostShape, MapShape
  <1> QED BY <1>1, <1>5, <1>6, OthersStay DEF Shapes

\* Nothing that the invariant speaks of.
LEMMA StuttersKeep ==
  ASSUME Inv, UNCHANGED <<disk, screen, cache, packs, plugged, pads, host, events>> PROVE Inv'
  <1>1. Shapes'
    BY DEF Inv, Shapes, HostShape, ScreenShape, MapShape
  <1>2. Recorded'
    BY DEF Inv, Recorded
  <1>4. Titled'
    BY DEF Inv, Titled, Place, Within, Asking, Keeping, Chosen, Checked, Ending
  <1>5. Shown' /\ Whole'
    BY DEF Inv, Shown, Whole, PacksAreWhole, Keeping
  <1>3. Played'
    BY DEF Inv, Played, Named, MapShape, PadIsTheOnePlugged, NamedIsMapped, ControllersJson,
           PlayedWithWhatIsThere
  <1> QED BY <1>1, <1>2, <1>3, <1>4, <1>5 DEF Inv

\* The player moves a pad, and the event of it is not handled yet; or closes the window;
\* or takes a disc away.
LEMMA PlayerKeeps == ASSUME Inv, PlayerActs PROVE Inv'
  <1> USE DEF Inv
  <1>1. ASSUME UNCHANGED <<disk, screen, cache, packs, plugged, pads, host>>,
               events' = [events EXCEPT !.queue = Append(@, "quit")]
        PROVE Inv'
    BY <1>1, QuitQueued
  <1>2. ASSUME NEW pad \in Pads, UNCHANGED <<disk, screen, cache, packs, pads, host>>,
               \/ Moves(pad) /\ events' = [events EXCEPT !.queue = Append(@, "pad")]
               \/ ConnectsOrNot(pad) /\ UNCHANGED events
        PROVE Inv'
    <2>1. /\ plugged' = [there |-> plugged'.there, connect |-> plugged'.connect,
                         moved |-> plugged'.moved]
          /\ plugged'.there \in Seq(Pads)
      <3>1. CASE \E i \in DOMAIN plugged.there :
                   plugged' = [plugged EXCEPT !.moved = @ + 1, !.there = RemoveAt(@, i)]
        <4>1. PICK i \in DOMAIN plugged.there :
                plugged' = [plugged EXCEPT !.moved = @ + 1, !.there = RemoveAt(@, i)]
          BY <3>1
        <4>2. RemoveAt(plugged.there, i) \in Seq(Pads)
          BY RemovedIsThere DEF Played
        <4> QED BY <4>1, <4>2 DEF Shapes
      <3>2. CASE plugged' = [plugged EXCEPT !.moved = @ + 1, !.there = Append(@, pad)]
        <4>1. Append(plugged.there, pad) \in Seq(Pads)
          BY QueueAppend DEF Played
        <4> QED BY <3>2, <4>1 DEF Shapes
      <3>3. CASE ConnectsOrNot(pad)
        BY <3>3 DEF ConnectsOrNot, Shapes, Played
      <3> QED BY <1>2, <3>1, <3>2, <3>3 DEF Moves
    <2>2. /\ events' = [queue |-> events'.queue, quit |-> events'.quit]
          /\ events'.queue \in Seq({"quit", "pad"})
          /\ "pad" \in Range(events'.queue) \/ (UNCHANGED events /\ ConnectsOrNot(pad))
      <3>1. CASE events' = [events EXCEPT !.queue = Append(@, "pad")]
        <4>1. /\ events'.queue = Append(events.queue, "pad")
              /\ events' = [queue |-> events'.queue, quit |-> events'.quit]
          BY <3>1 DEF Shapes
        <4> QED BY <4>1, QueueAppend DEF Played
      <3>2. CASE ConnectsOrNot(pad) /\ UNCHANGED events
        BY <3>2 DEF Shapes, Played
      <3> QED BY <1>2, <3>1, <3>2
    <2>3. At("loop") => Named(pads)' /\ ("pad" \notin Range(events'.queue) => There(pads)')
      <3>1. At("loop") /\ "pad" \notin Range(events'.queue) => There(pads)
        BY <2>2, PadsAsThePropertySays DEF Played
      <3>2. "pad" \notin Range(events'.queue) => plugged'.there = plugged.there
        BY <2>2 DEF ConnectsOrNot, Shapes
      <3> QED BY <1>2, <3>1, <3>2 DEF Played, Named, There, MapShape
    <2>4. ASSUME At("loop") PROVE PadIsTheOnePlugged'
      <3>1. Named(pads)' /\ ("pad" \notin Range(events'.queue) => There(pads)')
        BY <2>3, <2>4
      <3> QED BY <3>1 DEF PadIsTheOnePlugged, Named, There, NamedIsMapped,
                          PlayedWithWhatIsThere, ControllersJson
    <2>5. Played'
      BY <1>2, <2>1, <2>2, <2>3, <2>4 DEF Played
    <2>6. HostShape' /\ MapShape(pads)'
      BY <1>2 DEF Shapes, HostShape, MapShape
    <2> QED BY <1>2, <2>1, <2>2, <2>5, <2>6, OthersStay
  <1>3. ASSUME NEW title \in Titles, Taken(title),
               UNCHANGED <<screen, cache, packs, plugged, pads, host, events>>
        PROVE Inv'
    <2>1. /\ disk' = [record |-> disk'.record, mounts |-> disk'.mounts, taken |-> disk'.taken,
                      answer |-> disk'.answer, cut |-> disk'.cut]
          /\ disk'.record = disk.record /\ disk'.answer = disk.answer /\ disk'.cut = disk.cut
          /\ disk'.mounts \subseteq Titles
      <3>1. disk' = [disk EXCEPT
              !.mounts = IF title \in disk.mounts THEN disk.mounts \ {title}
                         ELSE disk.mounts \cup {title},
              !.taken = disk.taken + 1]
        BY <1>3 DEF Taken
      <3> QED BY <3>1 DEF Shapes, Recorded
    <2>2. Shapes'
      BY <1>3, <2>1 DEF Shapes, HostShape, ScreenShape, MapShape
    <2>3. Recorded'
      BY <1>3, <2>1 DEF Recorded
    <2>4. Titled'
      BY <1>3, <2>1 DEF Titled, Place, Within, Asking, Keeping, Chosen, Checked, Ending
    <2>5. Shown' /\ Whole'
      BY <1>3 DEF Shown, Whole, PacksAreWhole, Keeping
    <2>6. Played'
      BY <1>3 DEF Played, Named, MapShape, PadIsTheOnePlugged, NamedIsMapped, ControllersJson,
                  PlayedWithWhatIsThere
    <2> QED BY <2>2, <2>3, <2>4, <2>5, <2>6
  <1> QED BY <1>1, <1>2, <1>3 DEF PlayerActs, KeepsAllBut

\* A quit posted and a tool's pauses say nothing of the title or the pads.
LEMMA ToolsKeep ==
  ASSUME Inv, PostQuit \/ RequestStop \/ PauseOrResume \/ HoldFrame \/ LetFrameGo PROVE Inv'
  <1>1. CASE RequestStop
    BY <1>1, QuitQueued, StuttersKeep DEF RequestStop, KeepsAllBut
  <1>2. CASE PostQuit \/ PauseOrResume \/ HoldFrame \/ LetFrameGo
    BY <1>2, StuttersKeep DEF PostQuit, PauseOrResume, HoldFrame, LetFrameGo, KeepsAllBut
  <1> QED BY <1>1, <1>2

\* The shutdown, in which the title runs until its rendering thread came round.
LEMMA ShutdownKeeps == ASSUME Inv, LeaveLoop \/ ShutDown \/ ShutTitle PROVE Inv'
  <1> USE DEF Inv
  <1>1. UNCHANGED <<disk, screen, cache, packs, plugged, pads, events>>
    BY DEF LeaveLoop, ShutDown, ShutTitle, KeepsAllBut
  <1>2. /\ HostShape' /\ host'.askedAgain = host.askedAgain
        /\ host'.of.title = host.of.title /\ host'.of.given = host.of.given
        /\ host'.of.fixed = host.of.fixed /\ host'.of.expected = host.of.expected
        /\ host'.of.keeping = host.of.keeping
        /\ \/ At("loop") /\ host'.of.at = "shut down" /\ host'.of.running = host.of.running
           \/ At("shut down") /\ host'.of.at = "shut title" /\ host'.of.running = host.of.running
           \/ At("shut title") /\ host'.of.at = "close" /\ host'.of.running = FALSE
    <2>1. CASE LeaveLoop
      BY <2>1, Coming DEF LeaveLoop, Shapes, Comes
    <2>2. CASE ShutDown
      BY <2>2, Coming DEF ShutDown, Shapes, Comes
    <2>3. CASE ShutTitle
      BY <2>3 DEF ShutTitle, Shapes, HostShape
    <2> QED BY <2>1, <2>2, <2>3
  <1>3. Titled'
    BY <1>1, <1>2 DEF Titled, Place, Within, Asking, Keeping, Chosen, Checked, Ending
  <1>4. Shown'
    BY <1>1, <1>2 DEF Shown, Keeping
  <1>5. Shapes' /\ Recorded' /\ Whole' /\ Played'
    BY <1>1, <1>2, ShapesStay, RecordStays, PacksStay, PadsStay DEF Ending
  <1> QED BY <1>3, <1>4, <1>5

\* What a process held goes with it; a record it was writing stays cut.
LEMMA EndKeeps == ASSUME Inv, Exit \/ Kill PROVE Inv'
  <1> USE DEF Inv
  <1>1. EndOfProcess
    BY DEF Exit, Kill
  <1>2. /\ screen' = NoScreen /\ events' = [queue |-> <<>>, quit |-> FALSE]
        /\ pads' = NoPads /\ packs' = [next |-> 0, redirected |-> {}, writing |-> FALSE]
        /\ UNCHANGED <<plugged, cache>>
    BY <1>1 DEF EndOfProcess, NoPads
  <1>3. /\ HostShape' /\ host'.askedAgain = host.askedAgain
        /\ host'.of.at = "off" /\ host'.of.running = FALSE /\ host'.of.fixed = None
    <2>1. CASE Exit
      <3> DEFINE of == [NoHost EXCEPT !.code = host.of.code]
      <3>1. host' = [host EXCEPT !.of = of]
        BY <2>1 DEF Exit
      <3>2. /\ DOMAIN of = {"at", "title", "given", "fixed", "expected", "hidden", "running",
                           "keeping", "code"}
            /\ of = [i \in DOMAIN of |-> of[i]]
            /\ of.at = "off" /\ of.running = FALSE /\ of.fixed = None
        BY DEF NoHost
      <3> HIDE DEF of
      <3>3. of = [at |-> of.at, title |-> of.title, given |-> of.given, fixed |-> of.fixed,
                  expected |-> of.expected, hidden |-> of.hidden, running |-> of.running,
                  keeping |-> of.keeping, code |-> of.code]
        BY <3>2
      <3>4. host' = [of |-> of, launches |-> host.launches, kills |-> host.kills,
                     askedAgain |-> host.askedAgain]
        BY <3>1 DEF Shapes, HostShape
      <3> QED BY <3>2, <3>3, <3>4 DEF HostShape
    <2>2. CASE Kill
      <3> DEFINE more == host.kills + 1
      <3>1. host' = [host EXCEPT !.of = NoHost, !.kills = more]
        BY <2>2 DEF Kill
      <3> HIDE DEF more
      <3>2. host' = [of |-> NoHost, launches |-> host.launches, kills |-> more,
                     askedAgain |-> host.askedAgain]
        BY <3>1 DEF Shapes, HostShape
      <3> QED BY <3>2 DEF NoHost, HostShape
    <2> QED BY <2>1, <2>2
  <1>4. /\ disk' = [record |-> disk'.record, mounts |-> disk'.mounts, taken |-> disk'.taken,
                    answer |-> disk'.answer, cut |-> disk'.cut]
        /\ disk'.record = disk.record /\ disk'.answer = disk.answer
        /\ disk'.mounts = disk.mounts
        /\ ~disk'.cut => ~disk.cut /\ ~At("write record")
    <2>1. CASE Exit
      BY <2>1 DEF Exit, Shapes
    <2>2. CASE Kill
      BY <2>2 DEF Kill, Shapes
    <2> QED BY <2>1, <2>2
  <1>5. Shapes'
    BY <1>2, <1>3, <1>4 DEF Shapes, ScreenShape, NoScreen, MapShape, NoPads
  <1>6. Recorded'
    BY <1>3, <1>4 DEF Recorded
  <1>7. Titled'
    BY <1>3 DEF Titled, Place, Within, Asking, Keeping, Chosen, Checked, Ending
  <1>8. Shown' /\ Whole'
    BY <1>2, <1>3 DEF Shown, NoScreen, Whole
  <1>9. Played'
    <2>1. events'.queue = <<>> /\ <<>> \in Seq({"quit", "pad"})
      BY <1>2
    <2> QED BY <1>2, <1>3, <2>1 DEF Played, NoPads
  <1> QED BY <1>5, <1>6, <1>7, <1>8, <1>9
-----------------------------------------------------------------------------
\* Before the first launch nothing runs and nothing is kept.
LEMMA InitKeeps == ASSUME ShellInit PROVE Inv
  <1> USE DEF ShellInit, DiskInit, ScreenInit, PadsInit, PacksInit
  <1>1. Shapes
    BY DEF Shapes, HostShape, ScreenShape, NoScreen, MapShape, NoHost
  <1>2. Recorded
    BY DEF Recorded, NoHost
  <1>3. Titled
    BY DEF Titled, NoHost, Place, Within, Asking, Keeping, Chosen, Checked, Ending
  <1>4. Shown /\ Whole
    BY DEF Shown, Whole, Placed, NoScreen, NoHost
  <1>5. Played
    <2>1. plugged.there = <<>> /\ events.queue = <<>> /\ pads = NoPads /\ host.of.at = "off"
      BY DEF NoHost, NoPads
    <2>2. <<>> \in Seq(Pads) /\ <<>> \in Seq({"quit", "pad"})
      OBVIOUS
    <2> QED BY <2>1, <2>2 DEF Played
  <1> QED BY <1>1, <1>2, <1>3, <1>4, <1>5 DEF Inv

\* At every place of every launch the record is the answer kept last or was cut short, the
\* title is the one given or answered and the one expected, the packs in front of it are
\* whole, and the pad mapped is the one named.
THEOREM InductiveInvariant == ShellSpec => []Inv
  <1>1. ShellInit => Inv
    BY InitKeeps
  <1>2. Inv /\ [ShellNext]_shellVars => Inv'
    <2> SUFFICES ASSUME Inv, [ShellNext]_shellVars PROVE Inv'
      OBVIOUS
    <2>1. CASE \E product \in Products, arguments \in Lines : Launch(product, arguments)
      BY <2>1, LaunchKeeps
    <2>2. CASE HostStep
      <3>1. CASE BringUpSystem \/ CheckTitle \/ OpenWindow \/ BringUpRenderer
        BY <3>1, StagesKeep
      <3>2. CASE ResolveTitle
        BY <3>2, ResolveKeeps
      <3>3. CASE Remember \/ WriteRecord
        BY <3>3, KeepingKeeps
      <3>4. CASE AskPlayer \/ CloseSetup
        BY <3>4, ScreenKeeps
      <3>5. CASE LaunchTitle
        BY <3>5, LaunchTitleKeeps
      <3>6. CASE InstallPacks
        BY <3>6, InstallKeeps
      <3>7. CASE \E created, makes \in BOOLEAN : StartLoop(created, makes)
        BY <3>7, StartLoopKeeps
      <3>8. CASE \E makes \in BOOLEAN : PumpEvent(makes)
        BY <3>8, PumpKeeps
      <3>9. CASE LeaveLoop \/ ShutDown \/ ShutTitle
        BY <3>9, ShutdownKeeps
      <3>10. CASE Exit
        BY <3>10, EndKeeps
      <3> QED BY <2>2, <3>1, <3>2, <3>3, <3>4, <3>5, <3>6, <3>7, <3>8, <3>9, <3>10 DEF HostStep
    <2>3. CASE RunScreen
      BY <2>3, ScreenKeeps
    <2>4. CASE Kill
      BY <2>4, EndKeeps
    <2>5. CASE PostQuit \/ RequestStop \/ PauseOrResume \/ HoldFrame \/ LetFrameGo
      BY <2>5, ToolsKeep
    <2>6. CASE PlayerActs
      BY <2>6, PlayerKeeps
    <2>7. CASE UNCHANGED shellVars
      BY <2>7, StuttersKeep DEF shellVars, hostVars
    <2> QED BY <2>1, <2>2, <2>3, <2>4, <2>5, <2>6, <2>7 DEF ShellNext
  <1> QED BY <1>1, <1>2, PTL DEF ShellSpec

\* A product runs the title it fixes, the one given or the answer kept last, from packs that
\* are whole and of that title; a player is asked again only when the answer was cut short
\* or its disc is not there; and the screen is reported only while it is up.
THEOREM RunsTheAnswer == ShellSpec => []RunsWhatWasAnswered
  <1>1. Inv => RunsWhatWasAnswered
    BY DEF Inv, Recorded, Titled, Shown, Whole, RunsWhatWasAnswered, SetupJson, Keeping
  <1> QED BY <1>1, InductiveInvariant, PTL

\* In the loop the pad named is the one mapped and counted, and with no event of a pad
\* waiting it is one that is there, whatever order pads come and go in.
THEOREM PlaysThePadPlugged == ShellSpec => []PadIsTheOnePlugged
  <1>1. Inv => PadIsTheOnePlugged
    BY DEF Inv, Played, PadIsTheOnePlugged
  <1> QED BY <1>1, InductiveInvariant, PTL
=============================================================================
