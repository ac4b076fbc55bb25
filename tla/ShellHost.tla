------------------------------ MODULE ShellHost -------------------------------
(***************************************************************************)
(* The product from its command line to its exit (runProduct and            *)
(* ShellHost::run): the title resolved, its window, renderer and packs, the *)
(* event loop, and the shutdown the rendering thread may be held through.   *)
(* The control channel reads and stops the host on threads of its own; the  *)
(* process may be killed at any step, and is started again.                 *)
(***************************************************************************)
EXTENDS SetupScreen, ControllerAutoMap, GlyphPacks

CONSTANTS
  Products,      \* what a title project fixes: [title, name]
  Lines,         \* the command lines a launch may have
  MaxLaunches,   \* bound: launches
  MaxKills       \* bound: launches killed

VARIABLES
  host,     \* ShellHost's members and place, and the launch it is of
  events,   \* SDL's queue, and whether the loop has seen a quit
  stop,     \* the channel's stop target, and a POST /quit under way
  gate      \* the frame gate, and the rendering thread of the title

hostVars == <<host, events, stop, gate>>
shellVars == <<hostVars, disk, screen, plugged, pads, cache, packs>>

NoHost == [at |-> "off", title |-> None, given |-> None, fixed |-> None,
           expected |-> None, hidden |-> FALSE,
           running |-> FALSE, keeping |-> "", code |-> 0]
NoStop == [target |-> FALSE, at |-> "idle", loaded |-> FALSE, answered |-> "none"]
Open == [paused |-> FALSE, released |-> FALSE, drawing |-> TRUE]

ShellInit ==
  /\ DiskInit /\ ScreenInit /\ PadsInit /\ PacksInit
  /\ host = [of |-> NoHost, launches |-> 0, kills |-> 0, askedAgain |-> FALSE]
  /\ events = [queue |-> <<>>, quit |-> FALSE]
  /\ stop = NoStop /\ gate = Open

At(place) == host.of.at = place
Goes(place) == host' = [host EXCEPT !.of.at = place]
Runs(title, place) == host' = [host EXCEPT !.of.at = place, !.of.title = title]
Fails(code) == host' = [host EXCEPT !.of.at = "shut down", !.of.code = code]
Expected == host.of.expected

KeepsAllBut(changed) ==
  /\ "disk" \notin changed => UNCHANGED disk
  /\ "screen" \notin changed => UNCHANGED screen
  /\ "pads" \notin changed => UNCHANGED <<plugged, pads>>
  /\ "packs" \notin changed => UNCHANGED <<cache, packs>>
  /\ "events" \notin changed => UNCHANGED events
  /\ "stop" \notin changed => UNCHANGED stop
  /\ "gate" \notin changed => UNCHANGED gate
  /\ "host" \notin changed => UNCHANGED host

\* runProduct: a line that is refused ends the process before there is a host.
Launch(product, arguments) ==
  LET request == ParseCommandLine(product, arguments)
  IN /\ At("off") /\ host.launches < MaxLaunches
     /\ host' = [host EXCEPT
          !.launches = @ + 1,
          !.of = IF request.error THEN [NoHost EXCEPT !.code = 2]
                 ELSE [NoHost EXCEPT !.at = "bring up", !.given = request.title, !.fixed = product.title,
                                     !.expected = request.expected, !.hidden = request.hidden]]
     /\ KeepsAllBut({"host"})

\* publish, SystemBringup::Run and prepareNand, any of which may refuse.
BringUpSystem ==
  /\ At("bring up")
  /\ Goes("resolve") \/ Fails(1)
  /\ KeepsAllBut({"host"})

\* An explicitly given title is the player's answer; else the one remembered; else the player.
ResolveTitle ==
  /\ At("resolve")
  /\ LET remembered == Remembered(Expected)
     IN CASE host.of.given # None -> host' = [host EXCEPT !.of.at = "remember", !.of.title = host.of.given,
                                                          !.of.keeping = "given"]
          [] host.of.given = None /\ remembered # None -> Runs(remembered, "resolved")
          [] OTHER -> host' = [host EXCEPT
               !.of.at = "ask",
               !.askedAgain = disk.answer # None /\ ~disk.cut /\ Validates(disk.answer, Expected)]
  /\ KeepsAllBut({"host"})

\* Where remember returns to: a title given runs whatever became of it.
Returned(kept) == IF host.of.keeping = "given" THEN "resolved" ELSE IF kept THEN "close screen" ELSE "screen"
StartOver == IF host.of.keeping = "given" THEN UNCHANGED screen ELSE StartsOver

\* Mutant: the record is opened before the title is validated.
OpensFirst ==
  /\ At("remember") /\ Truncates
  /\ IF Validates(host.of.title, Expected) THEN Goes("write record") /\ UNCHANGED screen
     ELSE Goes(Returned(FALSE)) /\ StartOver
  /\ KeepsAllBut({"host", "disk", "screen"})

\* remember: refused, or without a directory for it, the record is as it was.
Remember ==
  /\ At("remember")
  /\ \/ Validates(host.of.title, Expected) /\ Truncates /\ Goes("write record") /\ UNCHANGED screen
     \/ UNCHANGED disk /\ Goes(Returned(FALSE)) /\ StartOver
  /\ KeepsAllBut({"host", "disk", "screen"})

WriteRecord ==
  /\ At("write record")
  /\ \/ WritesRecord(host.of.title) /\ Goes(Returned(TRUE)) /\ UNCHANGED screen
     \/ LosesRecord /\ Goes(Returned(FALSE)) /\ StartOver
  /\ KeepsAllBut({"host", "disk", "screen"})

\* The setup screen opens, or has its reason: a hidden run has nobody to ask.
AskPlayer ==
  /\ At("ask")
  /\ \/ ~host.of.hidden /\ OpensScreen /\ Goes("screen")
     \/ UNCHANGED screen /\ Fails(1)
  /\ KeepsAllBut({"host", "screen"})

\* The screen's loop on the host's thread: its requests, and its frames.
RunScreen ==
  /\ At("screen")
  /\ \/ Browses /\ UNCHANGED host
     \/ \E files \in {<<>>} \cup {<<title>> : title \in Titles} : PickerAnswers(files) /\ UNCHANGED host
     \/ DrawsScreen(Expected) /\ UNCHANGED host
     \/ /\ screen.accepted # None
        /\ host' = [host EXCEPT !.of.at = "remember", !.of.title = screen.accepted, !.of.keeping = "screen"]
        /\ UNCHANGED screen
     \/ screen.accepted = None /\ StartsOver /\ UNCHANGED host
     \/ Runs(None, "close screen") /\ UNCHANGED screen
  /\ KeepsAllBut({"host", "screen"})

\* Closed first, and let go of by the channel once it has returned; the player chose or did not.
CloseSetup ==
  /\ At("close screen")
  /\ IF screen.shown THEN CloseScreen /\ UNCHANGED host
     ELSE /\ LetsGoOfScreen
          /\ IF host.of.title = None THEN Fails(0) ELSE Goes("resolved")
  /\ KeepsAllBut({"host", "screen"})

\* Checked before any graphics exist; then the window and the renderer, which may not be had.
CheckTitle ==
  /\ At("resolved")
  /\ IF NoProblem(host.of.title, Expected) THEN Goes("open window") ELSE Fails(1)
  /\ KeepsAllBut({"host"})

OpenWindow == At("open window") /\ (Goes("renderer") \/ Fails(1)) /\ KeepsAllBut({"host"})
BringUpRenderer == At("renderer") /\ (Goes("launch") \/ Fails(1)) /\ KeepsAllBut({"host"})

\* "The disc can change between here and there": checked again, and prepared or not.
LaunchTitle ==
  /\ At("launch")
  /\ \/ NoProblem(host.of.title, Expected) /\ Goes("packs") /\ StartPacks
     \/ Fails(1) /\ UNCHANGED <<cache, packs>>
  /\ KeepsAllBut({"host", "packs"})

InstallPacks ==
  /\ At("packs")
  /\ \/ PacksStep(host.of.title) /\ UNCHANGED host
     \/ Done /\ host' = [host EXCEPT !.of.at = "start", !.of.running = TRUE] /\ UNCHANGED <<cache, packs>>
  /\ KeepsAllBut({"host", "packs"})

\* The pads are looked at, and the channel may stop the host from here on.
StartLoop(created, makes) ==
  /\ At("start")
  /\ StartPads(created, makes) /\ stop' = [stop EXCEPT !.target = TRUE] /\ Goes("loop")
  /\ KeepsAllBut({"host", "pads", "stop"})

\* pumpEvents: each event to its observer, and the loop left once all were handled.
PumpEvent(makes) ==
  /\ At("loop") /\ events.queue # <<>>
  /\ events' = [queue |-> Tail(events.queue), quit |-> events.quit \/ Head(events.queue) = "quit"]
  /\ IF Head(events.queue) = "pad" THEN HandlePadEvent(makes) ELSE UNCHANGED <<plugged, pads>>
  /\ KeepsAllBut({"events", "pads"})

LeaveLoop ==
  /\ At("loop") /\ events.queue = <<>> /\ events.quit
  /\ Fails(0)
  /\ KeepsAllBut({"host"})

\* Mutant: the gate is not opened for the rendering thread the shutdown waits on.
ClearsTargetOnly ==
  /\ At("shut down")
  /\ stop' = [stop EXCEPT !.target = FALSE] /\ Goes("shut title")
  /\ KeepsAllBut({"host", "stop"})

\* shutdown: no stop is taken any more, the gate is opened for good, the title ended.
ShutDown ==
  /\ At("shut down")
  /\ stop' = [stop EXCEPT !.target = FALSE] /\ gate' = [gate EXCEPT !.released = TRUE]
  /\ Goes("shut title")
  /\ KeepsAllBut({"host", "stop", "gate"})

\* ShutdownTitle waits for the rendering thread to come round.
ShutTitle ==
  /\ At("shut title") /\ (host.of.running => gate.drawing)
  /\ host' = [host EXCEPT !.of.at = "close", !.of.running = FALSE]
  /\ KeepsAllBut({"host"})

\* What the process held goes with it; the disk stays.
EndOfProcess ==
  /\ screen' = NoScreen /\ events' = [queue |-> <<>>, quit |-> FALSE]
  /\ pads' = [mapped |-> {}, made |-> FALSE, attached |-> NoPad, gained |-> 0, lost |-> 0, failed |-> FALSE]
  /\ packs' = [next |-> 0, redirected |-> {}, writing |-> FALSE]
  /\ stop' = NoStop /\ gate' = Open
  /\ UNCHANGED <<plugged, cache>>

\* Window and renderer closed, the host gone, the process ended by its owner.
Exit ==
  /\ At("close")
  /\ host' = [host EXCEPT !.of = [NoHost EXCEPT !.code = host.of.code]]
  /\ EndOfProcess /\ UNCHANGED disk

\* The process killed: a record truncated and not written stays so.
Kill ==
  /\ ~At("off") /\ host.kills < MaxKills
  /\ host' = [host EXCEPT !.of = NoHost, !.kills = @ + 1]
  /\ disk' = [disk EXCEPT !.cut = @ \/ At("write record")]
  /\ EndOfProcess

\* POST /quit: the target loaded, and asked to stop by an event that may not be taken.
PostQuit ==
  /\ ~At("off") /\ stop.at = "idle" /\ stop.answered = "none"
  /\ stop' = [stop EXCEPT !.at = "posting", !.loaded = stop.target]
  /\ KeepsAllBut({"stop"})

RequestStop ==
  /\ stop.at = "posting"
  /\ \/ stop.loaded /\ stop' = [stop EXCEPT !.at = "idle", !.answered = "stopping"]
        /\ events' = [events EXCEPT !.queue = Append(@, "quit")]
     \/ stop.loaded /\ stop' = [stop EXCEPT !.at = "idle", !.answered = "lost"] /\ UNCHANGED events
     \/ ~stop.loaded /\ stop' = [stop EXCEPT !.at = "idle"] /\ UNCHANGED events
  /\ KeepsAllBut({"stop", "events"})

\* The player closes the window, once (the loop is left whatever comes after), or plugs a pad in or out; a tool pauses and resumes the title.
PlayerActs ==
  \/ /\ At("loop") /\ ~events.quit /\ "quit" \notin Range(events.queue)
     /\ events' = [events EXCEPT !.queue = Append(@, "quit")]
     /\ KeepsAllBut({"events"})
  \/ /\ ~At("off") /\ plugged.moved < MaxPlugged
     /\ \E pad \in Pads : \/ Moves(pad) /\ events' = [events EXCEPT !.queue = Append(@, "pad")]
                          \/ ConnectsOrNot(pad) /\ UNCHANGED events
     /\ UNCHANGED pads
     /\ KeepsAllBut({"events", "pads"})
  \/ \E title \in Titles : Taken(title) /\ KeepsAllBut({"disk"})

PauseOrResume ==
  /\ ~At("off")
  /\ gate' = [gate EXCEPT !.paused = ~@]
  /\ KeepsAllBut({"gate"})

\* onFrameShown: held while paused and not released for good.
HoldFrame ==
  /\ host.of.running /\ gate.drawing /\ gate.paused /\ ~gate.released
  /\ gate' = [gate EXCEPT !.drawing = FALSE]
  /\ KeepsAllBut({"gate"})

LetFrameGo ==
  /\ ~gate.drawing /\ (~gate.paused \/ gate.released)
  /\ gate' = [gate EXCEPT !.drawing = TRUE]
  /\ KeepsAllBut({"gate"})

HostStep ==
  \/ BringUpSystem \/ ResolveTitle \/ Remember \/ WriteRecord \/ AskPlayer \/ CloseSetup
  \/ CheckTitle \/ OpenWindow \/ BringUpRenderer \/ LaunchTitle \/ InstallPacks
  \/ \E created, makes \in BOOLEAN : StartLoop(created, makes)
  \/ \E makes \in BOOLEAN : PumpEvent(makes)
  \/ LeaveLoop \/ ShutDown \/ ShutTitle \/ Exit

ShellNext ==
  \/ \E product \in Products, arguments \in Lines : Launch(product, arguments)
  \/ HostStep \/ RunScreen \/ Kill \/ PostQuit \/ RequestStop \/ PlayerActs
  \/ PauseOrResume \/ HoldFrame \/ LetFrameGo

\* The host's thread goes on, and the rendering thread once it may; the screen is the player's.
ShellSpec == ShellInit /\ [][ShellNext]_shellVars /\ WF_shellVars(HostStep) /\ WF_shellVars(LetFrameGo)
-----------------------------------------------------------------------------
\* A product runs its own title only, the one given, or the answer kept last, with packs of
\* that title's; a player is asked again only when the answer was lost to a write cut short
\* or its disc is not there; and the screen is reported only while it is up.
RunsWhatWasAnswered ==
  /\ host.of.running =>
       /\ host.of.fixed # None => IdOf[host.of.title] = host.of.fixed
       /\ Expected # None => IdOf[host.of.title] = Expected
       /\ host.of.title = IF host.of.given # None THEN host.of.given ELSE disk.answer
       /\ PacksAreWhole(host.of.title)
  /\ ~host.askedAgain
  /\ SetupJson.shown => host.of.at \in {"screen", "remember", "write record", "close screen"}
  /\ disk.record \in {None, Empty, disk.answer}

\* A pad is mapped as it is named, and once the events are handled it is one that is there.
PadIsTheOnePlugged ==
  At("loop") => NamedIsMapped /\ ("pad" \notin Range(events.queue) => PlayedWithWhatIsThere)

\* A stop that was answered ends the process, though a tool pauses the title meanwhile.
StopEnds == stop.answered = "stopping" ~> At("off")
=============================================================================
