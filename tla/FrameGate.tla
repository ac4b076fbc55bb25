------------------------------ MODULE FrameGate ------------------------------
(***************************************************************************)
(* frame::FrameGate: holds the title between frames.  The rendering thread *)
(* calls onFrameShown at the end of every frame; control-channel threads   *)
(* pause, step and resume it (POST /gate) and have jobs run on it while it *)
(* is held; ShellHost::shutdown releases it for good.                      *)
(*                                                                         *)
(* Every method is one critical section of m_mutex between two waits, so   *)
(* one action.  A wait on m_changed is explicit: the thread is in `asleep` *)
(* until a notify_all or a spurious wake-up takes it out, and only then    *)
(* looks at its predicate again.                                           *)
(***************************************************************************)
EXTENDS Naturals

CONSTANTS Clients,   \* the threads that drive the gate
          Renderer,  \* the rendering thread
          NoClient,  \* the null pointer of m_job
          MaxStep,   \* bound: the largest step asked for at once
          MaxOps     \* bound: how many times the clients change the gate

ASSUME ThreadsAreDistinct == Renderer \notin Clients /\ NoClient \notin Clients
ASSUME BoundsAreNatural == MaxStep \in Nat /\ MaxOps \in Nat

VARIABLES paused, holding, stepsLeft, framesHeld, framesStepped, \* m_status
          released,  \* m_released
          job,       \* m_job: the client whose job is set, or NoClient
          asleep,    \* the threads blocked in m_changed
          rt,        \* where the rendering thread is
          client,    \* where each client is
          ops        \* how many changes the clients have made
\* History variables, read by no guard: the client whose pause or step is the
\* last change to the gate, and the framesStepped at which that is served.
VARIABLES driver, due

status == <<paused, holding, stepsLeft, framesHeld, framesStepped, released>>
history == <<driver, due>>
vars == <<status, job, asleep, rt, client, ops, history>>

Init ==
  /\ paused = FALSE /\ holding = FALSE /\ stepsLeft = 0
  /\ framesHeld = 0 /\ framesStepped = 0 /\ released = FALSE
  /\ job = NoClient
  /\ asleep = {}
  /\ rt = "drawing"
  /\ client = [c \in Clients |-> "idle"]
  /\ ops = 0
  /\ driver = NoClient
  /\ due = [c \in Clients |-> 0]

\* Mutant: a change that notifies nobody.
NotifyNobody == UNCHANGED asleep

NotifyAll == asleep' = {}

\* Mutant: held counts before the owed frames have ended.
HeldWhileOwing == holding

\* The predicate of awaitHeld.
HeldNow == holding /\ stepsLeft = 0
\* The predicate the held rendering thread waits for, without its job part.
MayGo == ~paused \/ stepsLeft > 0

-----------------------------------------------------------------------------
(* The clients: ControlChannel's POST /gate, a diagnostic, the shutdown.   *)

\* A request that changes the gate: afterwards `c` is the last driver, and is
\* served once `n` more frames than were owed have been stepped.
DrivenBy(c, n) ==
  /\ ops < MaxOps
  /\ ops' = ops + 1
  /\ driver' = c
  /\ due' = [due EXCEPT ![c] = framesStepped + stepsLeft + n]

\* A call that returns early on a released gate.
RefusedByRelease == UNCHANGED <<paused, stepsLeft, asleep, ops, history>>

\* step(frames) and then, outside the lock, awaitHeld.
Step(c, n) ==
  /\ client[c] = "idle"
  /\ client' = [client EXCEPT ![c] = "await"]
  /\ \/ released /\ RefusedByRelease
     \/ /\ ~released
        /\ paused' = TRUE
        /\ stepsLeft' = stepsLeft + n
        /\ NotifyAll
        /\ DrivenBy(c, n)
  /\ UNCHANGED <<holding, framesHeld, framesStepped, released, job, rt>>

Pause(c) ==
  /\ client[c] = "idle"
  /\ client' = [client EXCEPT ![c] = "await"]
  /\ \/ released /\ RefusedByRelease
     \/ /\ ~released
        /\ paused' = TRUE
        /\ UNCHANGED stepsLeft
        /\ NotifyAll
        /\ DrivenBy(c, 0)
  /\ UNCHANGED <<holding, framesHeld, framesStepped, released, job, rt>>

Resume(c) ==
  /\ client[c] = "idle"
  /\ ops < MaxOps
  /\ ops' = ops + 1
  /\ driver' = NoClient
  /\ paused' = FALSE
  /\ stepsLeft' = 0
  /\ NotifyAll
  /\ UNCHANGED <<holding, framesHeld, framesStepped, released, job, rt, client, due>>

\* Mutant: the release leaves the gate paused.
ReleaseLeavesPaused ==
  /\ ~released
  /\ released' = TRUE
  /\ NotifyAll
  /\ driver' = NoClient
  /\ UNCHANGED <<paused, stepsLeft, holding, framesHeld, framesStepped, job, rt, client,
                 ops, due>>

\* ShellHost::shutdown, on the main thread.
Release ==
  /\ ~released
  /\ released' = TRUE
  /\ paused' = FALSE
  /\ stepsLeft' = 0
  /\ NotifyAll
  /\ driver' = NoClient
  /\ UNCHANGED <<holding, framesHeld, framesStepped, job, rt, client, ops, due>>

\* awaitHeld looks at its predicate, on entry and whenever it is woken.
AwaitHeld(c) ==
  /\ client[c] = "await" /\ c \notin asleep
  /\ \/ /\ HeldNow
        /\ client' = [client EXCEPT ![c] = "held"]
        /\ UNCHANGED asleep
     \/ /\ ~HeldNow
        /\ asleep' = asleep \cup {c}
        /\ UNCHANGED client
  /\ UNCHANGED <<status, job, rt, ops, history>>

\* kGateHoldTimeout passes: wait_for answers what its predicate says then.
AwaitTimeout(c) ==
  /\ client[c] = "await"
  /\ client' = [client EXCEPT ![c] = IF HeldNow THEN "held" ELSE "late"]
  /\ asleep' = asleep \ {c}
  /\ UNCHANGED <<status, job, rt, ops, history>>

\* The route reads status() in a critical section of its own and answers 200
\* or 504 with it.
Answer(c) ==
  /\ client[c] \in {"held", "late"}
  /\ client' = [client EXCEPT ![c] = "idle"]
  /\ UNCHANGED <<status, job, asleep, rt, ops, history>>

\* Mutant: the job is set and nobody is told.
RunUnannounced(c) ==
  /\ client[c] = "idle"
  /\ HeldNow /\ job = NoClient
  /\ job' = c
  /\ client' = [client EXCEPT ![c] = "inJob"]
  /\ asleep' = asleep \cup {c}
  /\ UNCHANGED <<status, rt, ops, history>>

\* runWhileHeld up to its wait; refused, it changes nothing.
RunWhileHeld(c) ==
  /\ client[c] = "idle"
  /\ HeldNow /\ job = NoClient
  /\ job' = c
  /\ client' = [client EXCEPT ![c] = "inJob"]
  /\ asleep' = {c}
  /\ UNCHANGED <<status, rt, ops, history>>

\* runWhileHeld woken: it returns when no job is set, its own or a later one.
JobReturns(c) ==
  /\ client[c] = "inJob" /\ c \notin asleep
  /\ \/ /\ job = NoClient
        /\ client' = [client EXCEPT ![c] = "idle"]
        /\ UNCHANGED asleep
     \/ /\ job # NoClient
        /\ asleep' = asleep \cup {c}
        /\ UNCHANGED client
  /\ UNCHANGED <<status, job, rt, ops, history>>

-----------------------------------------------------------------------------
(* The rendering thread in onFrameShown.                                   *)

\* The frame ends while the gate is open, or while a step owes more frames.
FramePasses ==
  /\ rt = "drawing"
  /\ \/ /\ ~paused
        /\ UNCHANGED <<stepsLeft, framesStepped, asleep>>
     \/ /\ paused /\ stepsLeft > 1
        /\ stepsLeft' = stepsLeft - 1
        /\ framesStepped' = framesStepped + 1
        /\ NotifyAll
  /\ UNCHANGED <<paused, holding, framesHeld, released, job, rt, client, ops, history>>

\* Mutant: the frame is taken off what is owed when nothing is.
FrameHeldOverdrawn ==
  /\ rt = "drawing"
  /\ paused /\ stepsLeft <= 1
  /\ stepsLeft' = stepsLeft - 1
  /\ framesStepped' = framesStepped + 1
  /\ framesHeld' = framesHeld + 1
  /\ holding' = TRUE
  /\ rt' = "held"
  /\ asleep' = {Renderer}
  /\ UNCHANGED <<paused, released, job, client, ops, history>>

\* The frame ends on a paused gate that owes no frame after it: it is held.
FrameHeld ==
  /\ rt = "drawing"
  /\ paused /\ stepsLeft <= 1
  /\ stepsLeft' = 0
  /\ framesStepped' = framesStepped + stepsLeft
  /\ framesHeld' = framesHeld + 1
  /\ holding' = TRUE
  /\ rt' = "held"
  /\ asleep' = {Renderer}
  /\ UNCHANGED <<paused, released, job, client, ops, history>>

\* A held rendering thread that finds its predicate false sleeps again.
SleepOn == /\ asleep' = asleep \cup {Renderer}
           /\ UNCHANGED <<holding, rt>>

Leave == /\ holding' = FALSE
         /\ rt' = "drawing"
         /\ NotifyAll

\* The held thread wakes: to a job, which it runs unlocked; to an open gate or
\* a step, when it leaves; to neither.
WakeToJob ==
  /\ rt = "held" /\ Renderer \notin asleep
  /\ job # NoClient
  /\ rt' = "job"
  /\ UNCHANGED <<status, job, asleep, client, ops, history>>

\* Mutant: an open gate is looked at before the job.
WakePastJob ==
  /\ rt = "held" /\ Renderer \notin asleep
  /\ \/ MayGo /\ Leave
     \/ ~MayGo /\ SleepOn
  /\ UNCHANGED <<paused, stepsLeft, framesHeld, framesStepped, released,
                 job, client, ops, history>>

WakeHeld ==
  /\ rt = "held" /\ Renderer \notin asleep
  /\ job = NoClient
  /\ \/ MayGo /\ Leave
     \/ ~MayGo /\ SleepOn
  /\ UNCHANGED <<paused, stepsLeft, framesHeld, framesStepped, released,
                 job, client, ops, history>>

\* The job is done: it is cleared, everyone is notified, and the thread is back
\* at its wait with the lock never let go.
JobDone ==
  /\ rt = "job"
  /\ job' = NoClient
  /\ \/ MayGo /\ Leave
     \/ /\ ~MayGo
        /\ asleep' = {Renderer}
        /\ rt' = "held"
        /\ UNCHANGED holding
  /\ UNCHANGED <<paused, stepsLeft, framesHeld, framesStepped, released,
                 client, ops, history>>

-----------------------------------------------------------------------------
\* A condition variable may wake a thread nobody notified.
SpuriousWake(t) ==
  /\ t \in asleep
  /\ asleep' = asleep \ {t}
  /\ UNCHANGED <<status, job, rt, client, ops, history>>

RendererStep == FramePasses \/ FrameHeld \/ WakeToJob \/ WakeHeld \/ JobDone

ClientWaits(c) == AwaitHeld(c) \/ Answer(c) \/ JobReturns(c)

Next ==
  \/ RendererStep
  \/ \E c \in Clients :
       \/ \E n \in 1..MaxStep : Step(c, n)
       \/ Pause(c) \/ Resume(c) \/ AwaitTimeout(c) \/ RunWhileHeld(c)
       \/ ClientWaits(c)
  \/ Release
  \/ \E t \in Clients \cup {Renderer} : SpuriousWake(t)

Spec == Init /\ [][Next]_vars

\* The rendering thread and a client that may go on are scheduled; requests,
\* the shutdown, spurious wake-ups and the ten-second timeout may never come.
FairSpec == /\ Spec
            /\ WF_vars(RendererStep)
            /\ \A c \in Clients : WF_vars(ClientWaits(c))

-----------------------------------------------------------------------------
TypeOK ==
  /\ paused \in BOOLEAN /\ holding \in BOOLEAN /\ released \in BOOLEAN
  /\ stepsLeft \in Nat /\ framesHeld \in Nat /\ framesStepped \in Nat
  /\ job \in Clients \cup {NoClient}
  /\ asleep \subseteq Clients \cup {Renderer}
  /\ rt \in {"drawing", "held", "job"}
  /\ client \in [Clients -> {"idle", "await", "held", "late", "inJob"}]
  /\ ops \in Nat
  /\ driver \in Clients \cup {NoClient}
  /\ due \in [Clients -> Nat]

\* A job runWhileHeld was handed is never left behind by a rendering thread
\* that went on: as long as m_job is set that thread is inside onFrameShown,
\* whatever pauses, resumes or releases arrived after the job did, and the
\* caller whose stack the job lives on has not returned.
JobIsHeld ==
  job # NoClient => /\ holding /\ rt # "drawing"
                    /\ client[job] = "inJob"

\* No notification is lost: a thread asleep in m_changed is one whose
\* predicate is false, so nobody sleeps through the change it waits for.
NoLostWakeup ==
  /\ Renderer \in asleep => rt = "held" /\ ~MayGo /\ job = NoClient
  /\ \A c \in Clients \cap asleep :
        \/ client[c] = "await" /\ ~HeldNow
        \/ client[c] = "inJob" /\ job # NoClient

\* "Lets `frames` more frames end, then holds": a client answered 200 whose
\* request is still the last one finds the gate paused, the thread held, and
\* exactly the frames owed at its request stepped, no fewer and no more.
StepIsExact ==
  \A c \in Clients :
     client[c] = "held" /\ driver = c =>
       paused /\ HeldNow /\ rt # "drawing" /\ framesStepped = due[c]

\* Released for good: no frame ends in a hold after shutdown's release.
NeverHeldOnceReleased == [][released => framesHeld' = framesHeld]_vars

\* The shutdown that waits on the rendering thread is not kept waiting by a
\* paused gate, a step or a job, and the job of a runWhileHeld that was accepted
\* runs and is cleared.
NobodyIsKept ==
  /\ released ~> [](rt = "drawing")
  /\ \A c \in Clients : job = c ~> job # c

\* FrameGate.h on awaitHeld: "False when `timeout` passed first, or the gate is
\* not paused."
AwaitHeldMeansPaused ==
  [][\A c \in Clients :
       client[c] = "await" /\ client'[c] = "held" => paused]_vars

\* The gate keeps a turnstile's promise, safety and liveness: it is open when it
\* is not paused, owes stepsLeft frames, and a frame is under way while the
\* rendering thread is outside onFrameShown.
T == INSTANCE Turnstile
       WITH open <- ~paused, owed <- stepsLeft, under_way <- (rt = "drawing"),
            stepped <- framesStepped, held <- framesHeld
IsTurnstile == T!Spec
=============================================================================
