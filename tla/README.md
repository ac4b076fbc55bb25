# Wiiuport in TLA+

`wiiuport` runs one Wii U title, Wind Waker HD, on a fork of an emulator. The
title's logic ticks thirty times a second; this code makes it paint sixty, with
the extra picture drawn halfway between two ticks. It does so from outside: it
rewrites words of the running guest's code and data, from threads the title knows
nothing of, and lets tools pause, step and switch all of it over HTTP. What can
go wrong is therefore mostly a matter of order — a word written under a call that
is running, a midpoint left in memory when the logic runs, a thread held through
the shutdown that waits for it — and that is what these modules are about.

Source paths below are relative to `src/src/wiiuport/` unless they start with
`docs/` or `tests/`.

## The system

| Part | State it keeps | Operations | Talks to |
|---|---|---|---|
| Frame gate, `frame/FrameGate` | paused, holding, steps left, released, the pending job; one mutex and condition variable | pause, step, resume, release, awaitHeld, runWhileHeld; onFrameShown | rendering thread (held in it), `POST /gate`, the shutdown |
| Logic gate, `title/LogicGate` | two guest code blocks, guest counters, what is in; one mutex | link-time install, enable, disable, the two pass-through controls | the guest's threads (through the blocks), `POST /logic`, the sixty switch |
| Second paint, `title/WindWakerPaint` | a vtable slot, the interval field and pacing it replaced, the display seen; two mutexes | enable, disable, the frame probe | the guest's display thread, `POST /paint`, the sixty switch |
| Sixty switch, `title/SixtyHertz` | first paint seen, stopping; one mutex, one thread | onPaint, switchOn, the destructor | the two above |
| In-between picture, `title/DrawInterpolation` | a tick number, what was seen last of each camera, actor and model, the changes to put back | eight probes in the title's calls; setEnabled | its listeners, the logic gate, `POST /interpolation` |
| In-between paint: fade, waves, clouds, snow, particles | the last tick's values, the values to put back | blended when the in-between paint opens or draws, put back when it closes | the in-between picture |
| Draw-phase listeners: sea, ropes, cloth, materials; camera cuts | the last tick's values; the shot started | blended at an actor's draw | the in-between picture |
| Frame recorder, shape log, snapshot, vertex changes, pacing, capture | recorded frames, counters, rings and slots | the emulator's frame hooks; arm, restart, read | rendering thread, control channel |
| Input driver, gamepads | presses with reads left; the mapped pad | press, sticks, release, Poll; arrivals and departures | guest's input thread, SDL |
| Stage warp, item grant, controller choice | none: words of guest memory | `POST /warp`, `POST /item`; a block written at link time | the guest that reads the same words |
| Caller census, memory reads, quest log names | a map of callers | a probe's chain, `GET /memory`, the keyboard's fill | guest memory |
| Control channel | a listening socket; pointers to everything | HTTP routes | everything above |
| Shell | window, renderer, events, the command line, paths | bring-up, event loop, shutdown | emulator core, control channel |
| Title selection, setup screen | one line of a file; the file chosen, the title accepted | resolve, remember; the screen's requests | the shell, the player, the disk |
| Glyph packs | a cache of built packs | install before launch | the disk, the title's files |
| Content and glyphs | none | Yaz0, SARC, fonts, messages, drawing | the packs built before launch |
| Python tools | a process | build, drive, measure | the control channel |

Threads that meet in this code: the guest's own (its logic and its display
thread), the emulator's rendering thread, control-channel threads, SixtyHertz's
thread, and the shell's main thread.

## The modules

Three groups, each composed by the module in its last row.

**The title at sixty.**

| Module | Models | State and actions against the code |
|---|---|---|
| `FrameGate` | `frame/FrameGate`, the `/gate` route's wait, the shutdown's release | A variable for each member of `m_status`, `released` and `job` for `m_released` and `m_job`. A method is one critical section between two waits, so one action; `asleep` holds the threads inside `m_changed`, and a thread leaves it by a notification or spuriously before it looks at its predicate again. `onFrameShown` is `FramePasses`, `FrameHeld`, `WakeToJob`, `WakeHeld`, `JobDone`, by the points where it blocks or runs the job unlocked. |
| `Turnstile` | what a frame gate promises, without locks or flags | Open, close owing some frames, pass, hold, go on. `FrameGate` is shown to implement it. |
| `FrameGateProofs` | theorems about `FrameGate` | see *What is proved*. |
| `LogicGate` | `title/LogicGate` and the guest that executes its blocks | `block` is guest memory: each entry stands for a run of the payload's instructions ending in its one store, branch or call. The host's `WriteWord` writes one of them at a time, in the order of `enable` and `disable`; every guest action executes the word it is at, whatever the host has put there by then. |
| `SixtySwitch` | `WindWakerPaint`, `SixtyHertz`, the display thread, and the clients of `/paint` and `/logic` | Each action is one critical section or one guest write with its refusal; a mutex held across several is in `lock`. The display thread dispatches through the slot, and its probe takes the frame mutex and then SixtyHertz's. |
| `LogicGateProofs`, `SixtySwitchProofs` | theorems about the two modules above | see *What is proved*. |
| `TitlePaints` | the order in which `DrawInterpolation` calls its listeners | The abstract schedule: draw phases and in-between paints that open and close, the gate and the interpolation switched at any moment. `DrawInterpolation` is shown to implement it, and the listeners are modelled over it. |
| `DrawInterpolation` | `DrawInterpolation`, `FadeInterpolation`, the wave of `EnvironmentInterpolation` | The probes are actions in the order the title makes its calls: management, execute, before the draw, camera, actor, model, after the draw, the fade's step, the fader, the end of the paint. `mem` is the guest memory both sides use; `restores`, `waveBack`, `fadeBack` are what is to be put back. `world` and `actor` are history: where the logic itself left things. |
| `SeaInterpolation`, `RopeInterpolation`, `ClothInterpolation`, `MaterialInterpolation` | the listeners of the same names, in the draw phase | Each extends `TitlePaints`: its `...Execute` is what the title's tick does to the memory it watches, its draw is the title's draw with the probes around it. `...Seen` is `m_seen`, `...Back` is `m_restores`; `...Own` is history, the same memory with nothing blended or held. A cloth's packets share its buffers, one of a kind, and `Upload` writes each kind on its own: `refused` is the kinds whose write was not taken. |
| `CameraCuts` | `CameraCuts`, and the camera's blend that asks it | What announces a shot (the cutscene's variable, the event's counter), the paragraph kept between two ticks, and the view that starts a shot. |
| `MidPaintListeners` | the waves, clouds and snow of `EnvironmentInterpolation`, and `ParticleInterpolation` | A slot is a packet's element or a pool's particle, which the title renews for another; each kind has its own test of what is still the same one. |
| `MCListeners` | the six above over one schedule | No listener reads another's state, so a behaviour is about one of them (`subject`). |
| `DrawInterpolationProofs`, `ListenersProofs` | theorems about `DrawInterpolation` and about `MCListeners` with all its listeners | see *What is proved*. |

**What tools ask of the running title.**

| Module | Models | State and actions against the code |
|---|---|---|
| `FrameRecorder` | `RecordingObserver`, `FrameRecording`, `RecordingSnapshot`, `FrameShapeLog` | The rendering thread's hooks fill one of three recordings that rotate at a frame's end and are handed to the snapshot and the log; a request arms the snapshot and reads it, framed and parsed. |
| `VertexChanges` | `VertexChanges` | The three tallies (plain shaders, the others, by attribute), the census and its end; a hash stands for the bytes. |
| `Places` | no code: where an element of a subsequence stands in it | Used by `FrameRecorder` and `PresentPacing` to say what they compare with. |
| `PresentPacing` | `PresentPacing` | Frames of the title's or the runtime's on two clocks, the intervals kept, up to a number, the restart, the summary. |
| `FrameCapture` | `FrameCapture` with the fork's one armed request | Arming one or a run, refusals, images in flight that land in any order. |
| `InputDriver` | `InputDriver` and `ControlChannel::applyInput` | `Poll` against a request applied one lock at a time. |
| `StageWarp` | `StageWarp` and the title's own exits in the same words | Any number of clients (`Askers`), as the code takes no lock: each one's `PostWarp`, `ReadsStage`, then `WritesStage` once a word; the title asks, takes and begins, and the other clients go on, between any two. |
| `ItemGrant` | `ItemGrant` and the title's pickups in the same words | Any number of clients (`Givers`), under no lock either: every byte of a grant is `ReadsWord` and `WritesWord`; a pickup, or another client's byte, between them can be lost. |
| `ControllerChoice` | `ProControllerChoice` and the title's `Display` | The block's words are written one by one when the title links and run one by one by a call. |
| `GuestReads` | `CallerCensus`'s chain, `GuestMemoryRead`, `QuestLogNames` | Functions of a memory chosen at the start, with unmapped frames, circles and the end of the addresses. |
| `MCRequests` | all of these | No two of them read the same state; a behaviour is about one (`subject`). |
| `RequestsProofs` | theorems about the requests that write (stages, items, presses, the controller block) and about the census | see *What is proved*. |
| `ToolsProofs` | theorems about the requests that read (recordings, snapshots, shapes, pacing, images, memory) | see *What is proved*. |

**The product around them.**

| Module | Models | State and actions against the code |
|---|---|---|
| `ProductCommandLine` | `parseCommandLine` | What each option of the line comes to, any wrong one refusing the whole line: whichever the code meets first, the launch ends the same. |
| `TitleSelection` | `TitleSelection`, `TitleIdentity::refusal`, `ShellHost::titleProblem` | The record on the disk: none, empty or a title; truncation and write are two steps. |
| `SetupScreen` | `SetupScreen::run` | One request of the view per frame, the picker's answers, what is taken of them or not, the verdict, `m_accepted`. |
| `ControllerAutoMap` | `ControllerAutoMap`, `PadRoster` | The pads plugged in, the one named, the one mapped; `Reconciled` by what is there. |
| `GlyphPacks` | `GlyphPacks::install` | The cache over launches, its files with their names and what is written of them: looked at, begun beside the place, finished and renamed, or left half written beside it. |
| `ShellHost` | `runProduct`, `ShellHost`, `ShellWindow` and the host side of `/quit`, `/setup`, `/controllers` | `host.of.at` is where the main thread is; each stage of `run` is an action with its failures. A title's rendering thread is held by the gate as in `FrameGate`, reduced to paused, drawing and released. `Kill` ends the process at any step; disk and cache stay. |
| `MCProduct` | the above on two discs and two pads | Bounds a behaviour as a whole (below). |
| `ShellHostProofs` | theorems about `ShellHost` | see *What is proved*. |

`MCFrameGate`, `MCLogicGate` and `MCDrawInterpolation` give the constants that a
configuration cannot spell.

How the groups meet: `SixtySwitch` has the logic gate as what it answers and leaves
behind, which `LogicGate` justifies in detail: `GateOn` refused may leave its
words, `GateOff` on a gate that is out writes nothing. `DrawInterpolation` and
`TitlePaints` have it as the alternation of calls (`TickCall`, `SkipCall`), which
`LogicGate` proves as `NeverTwoSkips` and `OneUpdatePerTick`; that the listeners' schedule
is `DrawInterpolation`'s own is proved too (`KeepsTheSchedule`). `ShellHost` has the
frame gate as what holds its shutdown, which `FrameGate` shows in detail.

What was abstracted, and why it is enough:

- `LogicGate`: the guest's 32-bit counters are read only for the call count's
  parity and for whether the tick count equals the one last seen, so those two
  bits are kept. Instructions with no store, branch or call of their own cannot
  be told apart by a reordering and share a word.
- `SixtySwitch`: intervals are one or two vblanks. The checks of `enable` (vtable,
  slot, loop, reservation) are one step that may refuse. Where `enable` puts
  something back after a later refusal, the code does not look at that write's
  answer, and the model lets it succeed.
- `DrawInterpolation` and the listeners: a thing is one coordinate; a tick moves it
  between a few places, even numbers so that halving is exact. One camera,
  actor, model (one joint), wave, sea, rope, segment: the maps they live in are
  keyed by address and entries never touch each other; where they share something
  (a cloth's buffers, a pool's slots) there are two, or the slot changes hands. A
  camera that starts a shot, a number that cannot be blended and a write that is
  refused have the same effect in `DrawInterpolation`, the outcome `left`;
  `CameraCuts` has the shots themselves. What a probe cannot read is `unreadable`.
- `ClothInterpolation`: a kind of buffer that cannot be blended leaves all of them out
  (`refused` is every kind), as the code returns before the first write. A third blend
  of one draw phase has nothing left to do that the second has not (`MaxBlends`).
- `MaterialInterpolation`: rates are even and so are the lengths of the animations
  (`FramesAreWhole`), the same unit as the places. An animation may be as short as it
  likes, or of no length.
- `MCRequests`: bytes, shaders, names, items and addresses are members of small
  sets; the lengths that are compared with a budget, a limit or a slot count are
  numbers.
- `ShellHost`: an argument is its option and its value; a disc is a title or none;
  a pack is the set of its parts that were rewritten; window system, paths and
  emulator start are outcomes.

## The runs

Twelve runs. A reader can repeat each with
`tlc -config <run>.cfg <module>.tla`, the module being the one `PROJECT.json` names.

| Run | Instance | What it shows |
|---|---|---|
| `FrameGateThreads` | 2 clients, steps of up to 2, 3 changes | All of the gate, safety and liveness, under fairness. Two clients are enough for one's request to overtake the other's at any point, a third change for a resume between them, steps of two for a frame that is neither first nor last. |
| `FrameGateAwait` | 2 clients, 2 changes | *Violation*: `awaitHeld` answers true for a gate that is no longer paused. |
| `LogicGateInOut` | three settings, 3 requests | `Toggled`: the first fill falls between two calls, from then on the words change anywhere; three requests put the gate in, out and in, or through the direct pass-through. `Controls`: the two pass-throughs one over the other, all probes wired or the frame logic's alone. `Anyhow`: any probes wired, writes refused, nothing ordered: what still holds when everything goes wrong at once. |
| `LogicGateFill` | gate only | *Violation*: the first fill under a guest that is calling. |
| `Sixty` | 2 clients, 2 requests, any step refusable, gate words left behind | Pacing against the stand-in in every interleaving with SixtyHertz, what is left when a step is refused, and that no wait on the three mutexes lasts for ever. |
| `SixtyMidFrame` | SixtyHertz alone | *Violation*: the slot changes with the display thread in the middle of a frame. |
| `Draw` | three settings: steady, failing probes and things not drawn, 3 switches of gate and interpolation; 3 or 4 ticks | Each tick halfway, then as it is; no picture older than a tick; no midpoint reaching the logic; and the schedule of `TitlePaints`. |
| `DrawWeather` | 4 ticks, 1 switch | *Violation*: the weather steps from its midpoints once. |
| `Listeners` | 6 subjects, 3 ticks, 2 switches, 3 places, 2 packets over 2 kinds of buffer, animations that loop or end, of four lengths | What each listener writes is taken back, and nothing is shown halfway between two different things. |
| `Requests` | 9 subjects, 2 clients, bounds below | What a tool is answered is what was drawn or is there; what the guest acts on is whole. |
| `DrawCensus` | `VertexChanges` alone | *Violation*: a census asked for mid-frame counts unchanged draws as changed. |
| `Product` | 2 discs, 2 files picked, 2 pads, 2 products, 11 command lines, 3 launches, 1 kill | The title run is the one answered, the pad is one that is there, and a stop ends the process. |

Bounds. Counters that only grow (`framesStepped`, `tick`) are bounded by the
bounds on what makes them grow. Three ticks make an entry two ticks old, which is
the oldest the code distinguishes from the last; the fourth lets the mistake show
in a picture. Two places apart are enough for a midpoint to differ from both of its
ends, a third, in `Listeners`, for a move longer than what is blended.
`MaxSwitches` of three is off, on and off in either order with a further one of
the other switch; two, in `Listeners`, is off and on again with a gap between.
Two kinds of buffer, in place of the code's three, have a first and one that is not; two
blends a draw phase (`MaxBlends`) are a packet's and the one after it. Animations of 0, 2, 6
and 12 frames at a rate of 4 have no length, come round within a step, within two, and
after more. Packets are told apart by what is remembered of them alone (`PacketsAlike`).
Requests switch at any moment in the specification, and in the theorems; the run takes a switch
where the next call is made (`SwitchesBeforeCalls`), as that call is what reads it.

`Requests`: five frames fill the three recordings and reuse two of them, with two
draws over the budget of three; a snapshot of two and a log of two are both
outrun. Four frames and two censuses put one census over the end of another. Two
intervals kept of up to three leave one out, over a restart. Two slots take a run
of both, one of them out of range, with an image still in flight. Four polls are
longer than the longest press, with a second request in between. Three warps of two
clients against two exits of the title's put one half-written request under another, of the
same client or of the other's while it is being written. Two grants, by one client or by
both at once, of two items, one of which is counted, on two buttons in one word, against
two pickups. Clients, and buttons, are interchangeable (`ClientsAlike`).
Three stack frames and a chain of five find every circle; eight addresses
wrap. Two links rewrite the controller block once it is in use.

`Product`: three launches are one that answers, one that is killed while it keeps
the answer or a pack, and one that must find what they left. Two files picked are one
accepted and one rejected after it. `MaxEffort` of four is
shared between launches, kills, discs taken away and pads moved. Stops, pauses and
pads belong to behaviours of one launch, as a launch differs from the one before by
disk and cache alone, and pads to the loop of an otherwise simplest launch, as the
loop looks at all of them when it begins and at nothing else.

Deadlock is checked where the system goes on for ever (`FrameGateThreads`, `Sixty`,
and the violations about them and about the logic gate); elsewhere a bound ends a behaviour: ticks, requests,
launches, or a guest at an illegal word.

### The properties

`FrameGateThreads`
- `JobIsHeld`: a job handed to `runWhileHeld` is never left behind by a rendering
  thread that went on, though pauses, resumes and the release come while it is
  set; the caller whose stack it lives on is still waiting.
- `NoLostWakeup`: whoever sleeps in `m_changed` sleeps on a false predicate.
- `StepIsExact`: a client told its frames have ended, with no later request,
  finds exactly the frames owed at its request stepped.
- `NeverHeldOnceReleased`, `NobodyIsKept`: the shutdown that waits on the
  rendering thread is not kept waiting, and an accepted job is run and cleared.
- `IsTurnstile`: the gate refines `Turnstile`, fairness included.

`LogicGateInOut`
- `NeverDies`: the guest never meets an unwritten word nor branches through a
  register nobody loaded, with the first fill between two calls, no write refused and
  not both the gate and the counter control asked for (`AsMeant`; see *Met while
  modelling*).
- `BlocksAreAsReported`: between requests, the words in memory are those the report names.
- `NeverTwoSkips`, `OneUpdatePerTick`, `TitleGoesOn`: the alternation, with one
  controller update for each tick whichever of the two calls the title's loop makes
  first; over toggles, never two skipped calls in a row.
- `SkipIsClean`: the word that sends the scene past its tick work is up inside a
  skipped call alone, and keeps the tick from advancing there unless the scene's
  probe was never wired.

`Sixty`
- `PacingFollowsSlot`: the slot, the interval field and the emulator's pacing, three
  words changed one at a time by whichever thread, never disagree where it shows.
- `NeverDiscardedInside`: the stand-in's code is not rewritten while the display
  thread is inside it (`docs/issues/ISSUE-010`).
- `SixtyAsksInTime`, `NeitherAlone`, `ComesOn`: SixtyHertz asks only once the
  display was seen, comes on when nothing is in its way, and leaves neither half
  alone when something refused.
- `EveryoneGetsOn`: no deadlock or starvation over the three mutexes.

`Draw`
- `TitleReadsItsOwn`: midpoints are the picture's alone; the logic steps from the
  values it wrote.
- `SkippedShowsTheTick`, `EveryTickTwice`: the second picture of a tick is the
  tick itself; the first, where nothing is refused, switched or left undrawn
  (`NothingInTheWay`), exactly halfway.
- `PictureIsInBetween`: what the first picture shows lies between the last two
  ticks, whatever could not be read, blended or drawn, and (placement and fade)
  whatever was switched.
- `ModelStandsOnActor`: a model whose base follows the draw is recognised as such, no
  other is, and once recognised it stands on its actor.
- `IsTitlePaints`: the refinement of `TitlePaints`, which makes the listeners' runs
  about this code's schedule.

`Listeners`
- `LeavesNothing`: after the phase a listener writes in, guest memory is what the
  title itself made of it, whatever was refused, drawn twice or switched meanwhile. Left
  out is what the code does leave: the kinds of a cloth's buffers that a packet blended
  after another's first kind was refused (`clothAgain`; see *Met while modelling*), and an
  animation whose play in the draw was not held.
- `ShowsInBetween`: what is shown is this tick's or halfway from the last tick's of
  the same thing: never across a warp, a replacement at the same address or a gap,
  and never halved twice, with the same cloth buffers left out.
- `NoViewAcrossACut`, `ShotGoesOn`: a view that starts a shot is not blended, and one
  that goes on with its shot is, with cutscenes and events that begin and end.

`Requests`
- `ToolsReadTheFrames`: recordings, snapshots, framing, shapes, intervals and images
  are of the frames drawn, shown and presented, consecutive and in their slots.
- `ChangesAreCounted`: the census against a count taken with whole frames.
- `AnswersAreTheGuests`: chains, ranges and names against memory.
- `GuestSeesItWhole`: a stage request, an item, a block of code is never acted on
  half written, whatever is refused part-way and however requests follow one another.
  Requests are under no lock, so two at once can spoil each other: a stage request mixed
  by another asker's words written between one's look, or its first write, and its last
  (`mixed`), and a grant's word written over a change made since it was read (`clobbers`), are
  reached by the run and excused; everything up to there is not.
- `PadIsAsAsked`: a press is held for exactly the reads it was asked for, counting the
  reads whose answer had its buttons, and a player handed back stays so.

`Product`
- `RunsWhatWasAnswered`: a product runs its own title, the one given, or the answer
  kept last, with its packs whole, over kills, failed writes and discs taken away; the
  player is asked again only when the answer was lost.
- `PadIsTheOnePlugged`: the pad named is the pad mapped, and once events are handled
  it is one that is there.
- `StopEnds`: a stop whose event was taken ends the process, though a tool keeps the
  title paused.

Each property is paired in `PROJECT.json` with a mutant: a small bug in the mapped
code's translation under which TLC finds that property violated. The mutants are
operators next to what they replace, marked *Mutant*.

## Fairness

- The rendering thread and the title's threads run: weak fairness of
  `RendererStep`, `GuestStep`, `DisplayStep` and, in `ShellHost`, `LetFrameGo`. They
  are operating-system threads that are runnable whenever these actions are enabled.
- A client inside a call goes on when it can (`ClientWaits`, weak), and a request
  that began writing finishes (`WriteWord`, weak): both run code with no wait of
  its own at that point.
- A thread that switches the second paint waits for mutexes the display thread
  takes and frees once a frame; strong fairness of `SwitchStep` says a thread that
  could take a mutex again and again gets it in the end. The C++ standard does not
  promise that; the display thread holds the mutex for microseconds out of a
  frame of milliseconds.
- The host's main thread goes on (`HostStep`, weak): its loop waits for an event with
  nothing else to do, and its stages have no wait but the shutdown's on the
  rendering thread, which the action's guard says. The setup screen is the
  player's, and nobody has to answer it.
- Nobody has to make a request, the shutdown need not come, timeouts and spurious
  wake-ups need not happen. The listeners' and requests' runs state safety alone and
  assume no fairness.

## What is proved

`FrameGateProofs` proves with TLAPS, for any set of clients and any bounds, from
`ThreadsAreDistinct` (the rendering thread is no client, no client is the null
job) and `BoundsAreNatural`:

| Theorem | Says |
|---|---|
| `TypeCorrect` | `Spec => []TypeOK` |
| `InductiveInvariant` | `Spec => []IInv` |
| `JobsAreHeld` | `Spec => []JobIsHeld` |
| `NoWakeupIsLost` | `Spec => []NoLostWakeup` |
| `StepsAreExact` | `Spec => []StepIsExact` |
| `ReleasedForGood` | `Spec => NeverHeldOnceReleased` |
| `GateIsTurnstile` | `Spec => T!SafeSpec`: every step of every thread is a step of the turnstile or leaves it as it was |

The argument. None of the invariants is inductive. `JobIsHeld` needs to know that
the rendering thread is inside the hold exactly while `holding` is set, which a
client reads instead of the thread's place, and that it runs a job only while one
is set; `StepIsExact` needs that what was stepped and what is owed always add up to
what the last driver was promised; `NeverHeldOnceReleased` needs that a released
gate is not paused. `FlagsAgree` is those facts, and
`IInv == TypeOK /\ FlagsAgree /\ JobIsHeld /\ NoLostWakeup /\ StepIsExact`. It is
preserved action by action (`RendererKeeps`, `ClientKeeps` and the lemmas around
them); the wake-up lemma in it rests on every change that can make a predicate
true being followed by `notify_all` in the same critical section. The refinement
then follows from one step of `IInv`.

`LogicGateProofs` proves, for any settings (whichever payloads are asked for, which
probes the link-time moment left, refused writes or none, words written between calls
or under them), for any number of requests, from `SettingsAreKnown` and
`BoundIsNatural`:

| Theorem | Says |
|---|---|
| `InductiveInvariant` | `Spec => []IInv` |
| `TypeCorrect` | `Spec => []TypeOK` |
| `SkipsAreClean` | `Spec => []SkipIsClean` |
| `MeantInvariant` | `Spec => [](IInv /\ Meant)` |
| `NeverDiesInWhole` | `Spec => []NeverDies` |
| `ReportedIsThere` | `Spec => []BlocksAreAsReported` |
| `SkipsAlternate` | `Spec => NeverTwoSkips` |
| `OneUpdateATick` | `Spec => OneUpdatePerTick` |

`SkipIsClean` is not inductive: nothing in it says the word that raises the mark leads
to the draw. `IInv` adds where words can stand. In the block, and in the writes a
request has still to make, the mark, the draw and the unmarking are in their own places
of the frame logic's block or nowhere (`BlocksFit`, `TodoFits`, by way of a lemma on each
payload), so a block half rewritten is still one of those; and the mark is up just before
the draw and at most one word after it (`Marked`).

The others speak of the settings the code is meant for (`AsMeant`), under which words
still change one at a time below a running call. `Meant` says what a guest finds whichever
of them have changed: each word of the payload asked for stands or is still to be written
(`InHand`), so with nothing left to write the block is that payload; where a gate can be
asked for the counter's words never stand, and where it cannot the blocks are never
filled (`OneOrTheOther`); before they are filled, a call inside meets a pass-through
that is all there (`MeetsThrough`); `Skips` and `Alternate` follow the
parity of the call, the tick last seen and the updates counted through the call, and are
what the two action properties need.

`SixtySwitchProofs` proves, for any set of clients, any number of requests and any set
of refused steps, from the module's assumptions (`ThreadsDiffer`: SixtyHertz, the
display and "nobody" are no clients):

| Theorem | Says |
|---|---|
| `InductiveInvariant` | `Spec => []IInv` |
| `TypeCorrect` | `Spec => []TypeOK` |
| `PacingIsTheSlots` | `Spec => []PacingFollowsSlot` |
| `InsideIsLeftAlone` | `Spec => []NeverDiscardedInside` |
| `SixtyAsksWhenSeen` | `Spec => []SixtyAsksInTime` |
| `HalvesGoTogether` | `Spec => []NeitherAlone` |

`PacingFollowsSlot` speaks of the slot, the field and the pacing, which change one
after another, so between two of the writes it holds only because of which thread is
where. `Exclusive` says that a thread inside the second paint's mutex holds it;
`WayIn` and `WayOut` say, for each place of such a thread, what it has changed, saved
and not yet put back; `InOrOut` says the same of the moments nobody is inside.
`Whole` adds that a display thread inside the block found it filled, `SeenFirst` that
whoever wakes SixtyHertz has seen the display, and `Alone` follows SixtyHertz's own
two calls while no client has asked for anything. The type invariant needs one fact more
(`Saved`): an interval is put back only where one was saved.

`DrawInterpolationProofs` proves, for any places four apart, any number of ticks and
switches, and whatever outcome each probe, write and draw has, from `PlacesAreApart`,
`SettingsAreKnown` and `BoundsAreNatural`:

| Theorem | Says |
|---|---|
| `InductiveInvariant` | `Spec => []IInv` |
| `TypeCorrect` | `Spec => []TypeOK` |
| `LogicReadsItsOwn` | `Spec => []TitleReadsItsOwn` |
| `SkipsShowTheTick` | `Spec => []SkippedShowsTheTick` |
| `PicturesAreInBetween` | `Spec => []PictureIsInBetween` |
| `ModelsStandOnActors` | `Spec => []ModelStandsOnActor` |
| `TicksAreShownTwice` | `Spec => []EveryTickTwice` |
| `KeepsTheSchedule` | `Spec => IsTitlePaints`: every probe is a step of the schedule or leaves it as it was |

None of these is inductive. Most of the invariant is what the probes rely on from one
another: `Phases`, where the flags stand at each place of a call; `Restorable`, that of
anything blended the title's own value is waiting to be put back, once; `Owned`, what the
title itself last wrote; `Remembered`, that an entry made in this tick or the one before
is of where the thing then was, which is why the code need only compare tick numbers;
`Between` and `Drawn`, what the picture so far shows; `FadeSeen`, the same for the fade,
which is stepped after the draw; `Rigid` and `Stands`, how a model recognised as posed in
the draw follows its actor. `Steady` is what is left to say when nothing is switched.

`ListenersProofs` proves, for any places, any number of ticks and switches, any rates and
ends of animations, and anything that cannot be read, written or drawn, from
`PlacesAreEven`, `SwitchesAreKnown`, `BoundsAreNatural`, `FramesAreWhole`,
`BufferKindsAreSome` (there is a first kind) and `KindsAreKnown`:

| Theorem | Says |
|---|---|
| `InductiveInvariant` | `Spec => []Inv` |
| `NothingStays` | `Spec => []LeavesNothing` |
| `InBetween` | `Spec => []ShowsInBetween` |
| `CutsAreSharp` | `Spec => []NoViewAcrossACut` |
| `ShotsGoOn` | `Spec => []ShotGoesOn` |

`Inv` is the schedule's part (`ScheduleInv`: where a phase can open and close, and with
nothing switched whose turn it is) and one part for the listener the behaviour is about:
`SeaInv`, `RopeInv`, `ClothInv`, `AnimInv`, `ViewInv`, `MidInv`; those it is not about
rest. Each part has two halves. What is held to be put back is the title's own value of
the very thing it was taken from (`SeaIsHeld`, `RopeIsHeld`, `ClothIsHeld`, `AnimIsHeld`,
`SlotIsOwn`), which gives `LeavesNothing` at the close of the phase; and an entry of this
tick or of the one before is of what the title had there (`Remembers` and its like), so a
blend is halfway along one step of one thing. Two lemmas carry what the kinds differ in:
`JoinsOneThing`, that a packet or a particle that passes its test is the one remembered,
and `HalfAStep`, that a frame half a rate along is the halfway of the whole step, round the
end of a loop, or in a loop too short to tell the halfway the code takes it for. `ClothIsHeld`
is of a buffer at a time: one blended has exactly one value waiting to be put back, its own,
as the first packet to blend marks the first kind; that fails where that kind was refused,
and a buffer then counts as known again once a tick has filled it (`Known`). `StepFollows` in `DrawInterpolationProofs` is why this schedule is the code's.

`RequestsProofs` proves, over `MCRequests` and for any number of requests,
of reads, pickups, exits, links and draws, from `ReadsAreNatural` and `ShadersAreKnown` (a
draw has uniforms or none as its vertex shader does):

| Theorem | Says |
|---|---|
| `WarpInductive` | `WarpSpec => []IInv` |
| `StageIsSeenWhole` | `WarpSpec => []StageSeenIsWhole` |
| `InductiveInvariant` | `Spec => []ReqInv` |
| `GuestSeesWhole` | `Spec => []GuestSeesItWhole` |
| `PadAsAsked` | `Spec => []PadIsAsAsked` |
| `ChangesCounted` | `Spec => []ChangesAreCounted` |

`ReqInv == PadInv /\ GrantInv /\ ChoiceInv /\ IInv /\ ChangesInv`, with `IInv` the
stage requests' part, which needs no assumption and is of any number of clients at once:
of a request that no other asker has written over since its look, or since its own first write
(`overtaken`), no other is enabled when it begins to be written, and whatever it has not left
to write is already its own (`InOrder`, for each client); an asker that writes meanwhile
overtakes every request under way, and an overtaken one that is enabled all the same, or that
goes on writing under an enabled one, is `mixed`. `GrantInv` follows each client's grant
through its bytes (`Progress`: as far as it has come, the flag, the item and the button are the
item's, unless another was put on that button since), as long as no word was written over a
change made since it was read, the title's or another grant's (`clobbers`).
`ChoiceInv` says what each register and saved word of a display inside the controller's
block holds before each of its words (`Within`), once the block is written and sent to
(`BlockIsWritten`); `PadInv` that what a press has left to be held and what was seen of it add
up to what was asked. `ChangesInv` says why two counts kept apart agree, the code's over the
tally of each shader and the reference's over all that the title drew: what a tally has
of this frame and of the one before is what the shader drew in them, one to one
(`TalliedIn`, a bijection of their places), so that as many of the one as of the other were not
read the frame before (`TalliesCount`). A census has that of its own frames only
(`CensusHasFrames`), and only if it was asked for between two (`drawn.whole`); by
attribute a tally has the same draws in the same order (`ByAttribute`), which is why it can
miss a change that the whole draw shows and never the other way round.

`ToolsProofs` proves, over `MCRequests` and for any draws, frames, presents, restarts,
captures and requests, from `DrawsAreOfBytes`, `TimesAreMeasured` and `CapturesAreBounded`
(sizes, lengths, budgets and slots are natural numbers), `ReadsAreBounded` (a chain asks for a
caller, there is an address) and `ThereAreChoices` (more than one name to choose from, as
`kChoices` has):

| Theorem | Says |
|---|---|
| `ToolsInductive` | `Spec => []ToolsInv` |
| `ToolsRead` | `Spec => []ToolsReadTheFrames` |
| `AnswersGuests` | `Spec => []AnswersAreTheGuests` |
| `FramingReads` | for every sequence of frames, `Parse(Framed(ready)) = ready`, and cut short or gone on with it is refused |

`ToolsInv == RecorderInv /\ PacingInv /\ CaptureInv /\ ReadsInv`, a part for each subject.

- `RecorderInv`. Each of the three recordings is of one frame, the one being drawn and the
  two before it (`RecordOf`: what it holds of a kind is some of the frame's draws of that
  kind, in order, all of them exactly where the frame was within the budget), whatever the
  rotation left in its storage beyond its count. A snapshot's frames, and the shapes
  kept, are of frames in a row (`SnapshotOf`, `ShapesOf`); a snapshot half filled goes up to
  the last frame that ended, which is why the next one continues it.
- `FramingIsWhole` is a fact about the framing, whatever was framed:
  `Laid` writes the tokens of the frames end to end, and the parser, which is a walk over
  what is left, is where the next frame begins after each (`AssembliesRead`, `FramesRead`,
  `FramingReads`); anything cut short ends the walk at the token that is missing
  (`LeastNatural`), and what goes on is left over.
- `PacingInv`. The last frame recorded is the last since the restart (`LastIsOfThese`), no
  frame comes before it (`InTime`), and the intervals are those of the frames that follow
  one another (`Measures`), an interval's place among those kept being how many did so
  before it.
  `SummaryTells` gives the percentiles: `RankIsThere` says some kept length has the rank
  asked for, and two with ranks in order are in order.
- `CaptureInv`. A request has room for the images it still waits for (`ArmsHaveRoom`), one of
  them is out at a time, armed for or in flight (`OneIsOut`), and what landed is in its
  request's slots in the order presented (`LandedInOrder`): that a run's images cannot
  overtake one another rests on the second, as the code only counts how many have landed.
- `ReadsInv` is the property with the types of the guest's memory. That the chain is the back
  chain follows its walk from caller to caller, with what the walk still expects to read.

What is recursive there (a chain, a sum of bytes, the parser's walk, frames laid end to end) is
proved by induction. The library's induction theorems take the induction's predicate as
an operator, which the provers cannot instantiate; `NaturalsByOne` states induction for a *set*
of naturals instead, from `WFMin` and `NatLessThanWellFounded`, and a proof defines the set
of those for which its claim holds. `StepsTaken` and `StepByStep` do the same for functions
defined from one value to the next.

`ShellHostProofs` proves, for any titles, pads, packs and command lines, any number of
launches and of kills, from `TitlesAreNamed` and `PadsAreNamed` (what stands for no title,
an empty record and no pad is none of them):

| Theorem | Says |
|---|---|
| `InductiveInvariant` | `ShellSpec => []Inv` |
| `RunsTheAnswer` | `ShellSpec => []RunsWhatWasAnswered` |
| `PlaysThePadPlugged` | `ShellSpec => []PadIsTheOnePlugged` |

`Inv` says what holds at each place of the main thread (`host.of.at`). `Recorded`: the record
on the disk is the answer kept last, unless a write of it was cut short, which is why a player
is asked again only then (or with the disc gone). `Titled`: from the moment a title is
resolved to the end of the process it is the one given or the answer kept, and from
`CheckTitle` on the one expected; the screen ends with a title only after `WriteRecord` kept
it, whatever `m_accepted` still holds from a session that was started over. `Whole`: whatever is in its
place in the cache is finished (`Placed`), since a pack is written beside it and renamed into it, so
one found there after a kill can be used by its name; a file left half written beside it is opened
over by the next launch. `Shown`: the screen is up only while the main thread is in it. `Played`:
before the loop no pad is mapped, and in it `Named`, which `Reconciled` keeps from any
state of the pads plugged in (`ReconciledNames`), the event being only the reason to look.
`Shapes`, that records keep their fields, takes the place of a type invariant there.

Only model-checked:

- Liveness, every one: `NobodyIsKept`, `TitleGoesOn`, `EveryoneGetsOn`, `ComesOn`, `StopEnds`,
  and the liveness half of `IsTurnstile` (`ENABLED` and fairness are outside the prover).
- That the properties of the runs that expect a violation fail: a counterexample needs no proof.

Every invariant of a passing run, and each action property and the refinement's
safety half, is a theorem.

## Where the code and its words differ

With a run that shows it:

1. `FrameGate.h:44-45` says `awaitHeld` is false when "the gate is not paused".
   `resume` and `release` clear `paused` and leave `holding` to the rendering
   thread, and `awaitHeld` looks at `holding` (`FrameGate.cpp:39-44`).
   `FrameGateAwait`.
2. `LogicGate.cpp:200-203` says the block "is filled before anything can reach
   it". Word 0 is; `enable` then writes its payload from word 0 up, under a guest
   that is already sent there. `LogicGateFill`.
3. `WindWakerPaint.cpp:342` says the mutex is held "so the display thread is not
   mid-frame when the slot changes"; the probe lets it go before the frame runs.
   `SixtyMidFrame`.
4. `EnvironmentInterpolation.h:17-18` says "the tick's own values are back when it
   closes". When the gate goes out during an in-between paint, the next call is a
   whole tick, whose execute comes before the close. `DrawWeather`.
5. `VertexChanges.h:24` says a draw has changed "when no draw of its vertex shader
   read the same bytes the frame before". A census asked for mid-frame clears what
   that frame has drawn so far (`VertexChanges.cpp:75`), and the next frame is
   compared with the rest. `DrawCensus`; `ChangesAreCounted` is of censuses asked for
   between two frames.

Met while modelling, visible in these models, without a run of their own yet:

- A write refused part-way leaves gate words in a block whose gate is reported
  out, and `disable` does nothing then (`LogicGate.cpp:505`, `548`). With
  `SixtyHertz` this leaves the gate running alone (`SixtyHertz.cpp:49`); hence
  `NeitherAlone` speaks of the gate *reported* in, where it asks that no gate is
  without the second paint.
- `enable` does not ask which probes were wired: without the scene's, a skipped
  draw advances the tick (`LogicGate.cpp:462`).
- The counter control put over a gate, or the gate over it, meets a call that is already
  inside: it can go on at the branch through the count register without having passed the
  load (`LogicGate.cpp:518`). The code does not claim otherwise for these measuring controls, and
  `NeverDies` is of settings where only one of the two is asked for.
- Around a switch a tick can run with no controller update, or with two
  (`LogicGate.cpp:518`); hence `OneUpdatePerTick` speaks of settled blocks.
- A refused interval on the second paint's way out leaves the pacing at one vblank,
  and later disables answer success (`WindWakerPaint.cpp:375`); hence
  `PacingFollowsSlot` speaks of what is left behind where that write never refused.
- After the interpolation was off, the first tick blends the camera and the angles
  with the last tick before it went off (`DrawInterpolation.cpp:104`, `130`); hence
  the camera and angles of `PictureIsInBetween` are checked with nothing switched.
- A fader that could not be read leaves the last tick's fade standing; once the
  interpolation was off meanwhile, the next blend starts from it (`FadeInterpolation.cpp:37`):
  hence the fade of `PictureIsInBetween` is of settings where every fader is read or
  nothing is switched (`EveryFaderIsSeen`).
- The last step of an animation that does not loop is cut short at its end, and half a
  step from the frame before can reach it already; `AnimIsBetween` has the midpoint of the
  two frames there, as the code does, where for a loop it has half a rate.
- A draw-posed model's first move is drawn a quarter off
  (`DrawInterpolation.cpp:330`), hence the joints of `PictureIsInBetween` are
  those of models posed in execute and `ModelStandsOnActor` is of known ones; and with the gate
  out for some ticks an execute-posed model can be taken for a draw-posed one
  (`DrawInterpolation.cpp:270`).
- `TitleSelection.h:30-32` says a failed `remember` leaves the previous record alone;
  the file is truncated on opening (`TitleSelection.cpp:68`), so a write that fails,
  or a process that ends there, leaves it empty. `RunsWhatWasAnswered` allows the
  player to be asked again then, and the run reaches it.
- After a start the record could not keep, the setup screen keeps the title accepted
  before; a later start with another file rejected runs it (`SetupScreen.cpp:153`).
  `RunsWhatWasAnswered` asks that the title run is the record's and the answer's, and takes
  what was kept for the answer, so it does not catch this; whether a start can be asked for
  with a rejected file shown is the shared view's.
- `POST /quit` answers that the host is stopping although SDL refused the event
  (`ShellWindow.cpp:129`); `StopEnds` is of events that were taken.
- `StageWarp.cpp:111` says "enable last, so the request is whole when seen". No lock
  keeps one `POST /warp` from another, or from the title's own exits: both can pass the test
  of the enable word (`StageWarp.cpp:83`) and their words mix, and the request enabled
  is part one's and part the other's (`mixed`).
- `ItemGrant::setByte` reads a word and writes it back under no lock (`ItemGrant.cpp:55-62`): a
  pickup of the title's, or a byte of another client's `POST /item`, that falls between
  the two is lost (`clobbers`), and both requests are answered as given.
- `ClothInterpolation.h:20-23` says a cloth's points and normals are "put back when the draw
  phase ends". A kind whose write is refused is left out, with the others written
  (`ClothInterpolation.cpp:108-114`), and a buffer is known as blended by its first kind alone
  (`ClothInterpolation.cpp:50`). With the points refused and the normals not, a second packet
  that shares them blends the midpoints of the normals again and keeps them as what to put
  back; as the restores go first to last (`ClothInterpolation.cpp:128`), the midpoint is what
  is left (`clothAgain`, excused in `LeavesNothing` and `ShowsInBetween` and reached by the run).
- In a loop of no more than twice an animation's rate the way round is within a step, so it is
  taken for travel the other way, and the in-between picture is half a loop off
  (`MaterialInterpolation.cpp:161-181`); `HalfTheStep` has both.
- `InputDriver.h:39-40` says that with no press queued and no stick offset the player is
  reported not driven. `m_driving` stays set until a release (`InputDriver.cpp:45`), and
  the repository's test asks for that (`tests/cxx/input_tests.cpp:70`, "a centred stick still drives
  the player"); the model follows the code.
- A run of images is counted as requested only where there is no room for it, so the
  counters of `/capture` add up differently for one shot and for a run
  (`FrameCapture.cpp`, modelled in `Requests`).
- What several threads read without a lock (the recorder's counters, the setup
  pointer, the pad's name) is undefined; no property speaks of it, see the hazards'
  notes.

## What is not modelled

- Conversions between formats (`content/`: Yaz0, SARC, layouts, messages, fonts), the
  drawing of the glyphs (`glyphs/`) and the plan of what `XboxGlyphs` replaces: pure
  functions of bytes and pixels with no state and no order, which the repository's
  tests compare with real files. A pack is patched whole or refused.
- The HTTP server and the text of reports, log lines, JSON and command-line help.
- Code that runs once with no state of its own: host paths, the object that owns the
  listeners (`Runtime`), the title file extractor.
- The Python tools, which drive the product from another process.
- The emulator itself is a submodule that is not in the tree: what its probes,
  patching and hooks do is taken from how this code uses them (the *external* entries
  of `PROJECT.json`).
- Inside the modelled components: several cameras, actors or models at once; a restore
  that is refused (`DrawInterpolation.cpp:412` counts it and goes on); what the
  recompiler does with code that is discarded under a thread, beyond saying when it
  would happen; the caller census's counts, a map under one mutex.

## Plan

1. *Done*: `FrameGate` with `Turnstile` and its theorems, `LogicGate`,
   `SixtySwitch`, `DrawInterpolation` over `TitlePaints`, the listeners, the requests,
   the product; theorems about the gates, the sixty switch, the in-between picture with
   its refinement, the listeners, the requests, and the product.
2. A refused restore, with what the title then reads; two entries of one map, where
   one is evicted.
3. Content algorithms as operators: Yaz0's back references and SARC's layout
   against reference definitions over small inputs.
4. The session of the Python tools that keeps one runtime up between commands.
