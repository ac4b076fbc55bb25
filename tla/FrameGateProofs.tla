--------------------------- MODULE FrameGateProofs ---------------------------
(* Theorems about FrameGate for any set of clients and any bounds.          *)
EXTENDS FrameGate, TLAPS

\* The gate's flags agree: the thread is inside onFrameShown exactly while
\* `holding` says so, and runs a job only while one is set; a released gate is
\* not paused; the last driver's frames are all accounted for.
FlagsAgree ==
  /\ rt = "drawing" <=> ~holding
  /\ rt = "job" => job # NoClient
  /\ released => ~paused
  /\ driver # NoClient => paused /\ framesStepped + stepsLeft = due[driver]

IInv == TypeOK /\ FlagsAgree /\ JobIsHeld /\ NoLostWakeup /\ StepIsExact

-----------------------------------------------------------------------------
\* The gate starts with every variable of its type.
LEMMA TypeInit == Init => TypeOK
<1> SUFFICES ASSUME Init PROVE TypeOK
  OBVIOUS
<1>1. paused \in BOOLEAN /\ holding \in BOOLEAN /\ released \in BOOLEAN
  BY Zenon DEF Init
<1> QED
  BY <1>1 DEF Init, TypeOK

\* No call on the gate, and no step of the rendering thread, takes one out of it.
LEMMA TypeStep == TypeOK /\ [Next]_vars => TypeOK'
<1> USE ThreadsAreDistinct, BoundsAreNatural
<1> DEFINE Flags == paused \in BOOLEAN /\ holding \in BOOLEAN /\ released \in BOOLEAN
<1> SUFFICES ASSUME TypeOK, [Next]_vars PROVE TypeOK'
  OBVIOUS
<1>1. CASE RendererStep
  <2>1. CASE FramePasses
    BY <2>1 DEF TypeOK, FramePasses, NotifyAll, history
  <2>2. CASE FrameHeld
    <3>1. Flags'
      BY <2>2, Zenon DEF FrameHeld, TypeOK
    <3> QED
      BY <2>2, <3>1 DEF TypeOK, FrameHeld, history
  <2>3. CASE WakeToJob
    BY <2>3 DEF TypeOK, WakeToJob, status, history
  <2>4. CASE WakeHeld
    <3>1. Flags'
      BY <2>4, Zenon DEF WakeHeld, Leave, SleepOn, TypeOK
    <3> QED
      BY <2>4, <3>1 DEF TypeOK, WakeHeld, Leave, SleepOn, NotifyAll, history
  <2>5. CASE JobDone
    <3>1. Flags'
      BY <2>5, Zenon DEF JobDone, Leave, TypeOK
    <3> QED
      BY <2>5, <3>1 DEF TypeOK, JobDone, Leave, NotifyAll, history
  <2> QED
    BY <1>1, <2>1, <2>2, <2>3, <2>4, <2>5 DEF RendererStep
<1>2. ASSUME NEW c \in Clients,
             \/ \E n \in 1..MaxStep : Step(c, n)
             \/ Pause(c)
      PROVE  TypeOK'
  <2>1. Flags'
    BY <1>2, Zenon DEF Step, Pause, RefusedByRelease, TypeOK
  <2> QED
    BY <1>2, <2>1 DEF TypeOK, Step, Pause, RefusedByRelease, DrivenBy,
                      NotifyAll, history
<1>3. ASSUME NEW c \in Clients, Resume(c)
      PROVE  TypeOK'
  <2>1. Flags'
    BY <1>3, Zenon DEF Resume, TypeOK
  <2> QED
    BY <1>3, <2>1 DEF TypeOK, Resume, NotifyAll
<1>4. ASSUME NEW c \in Clients,
             AwaitTimeout(c) \/ RunWhileHeld(c) \/ ClientWaits(c)
      PROVE  TypeOK'
  BY <1>4 DEF TypeOK, AwaitTimeout, RunWhileHeld, ClientWaits, AwaitHeld,
              Answer, JobReturns, status, history
<1>5. CASE Release
  <2>1. Flags'
    BY <1>5, Zenon DEF Release, TypeOK
  <2> QED
    BY <1>5, <2>1 DEF TypeOK, Release, NotifyAll
<1>6. ASSUME NEW t \in Clients \cup {Renderer}, SpuriousWake(t)
      PROVE  TypeOK'
  BY <1>6 DEF TypeOK, SpuriousWake, status, history
<1>7. CASE UNCHANGED vars
  BY <1>7 DEF TypeOK, vars, status, history
<1> QED
  BY <1>1, <1>2, <1>3, <1>4, <1>5, <1>6, <1>7 DEF Next

\* Every variable keeps its type, for any clients and bounds.
THEOREM TypeCorrect == Spec => []TypeOK
  BY TypeInit, TypeStep, PTL DEF Spec

-----------------------------------------------------------------------------
\* IInv is inductive: it ties the flags, the pending job, the sleepers and the
\* frame count together, none of which is preserved on its own.
LEMMA InductiveInit == Init => IInv
<1> SUFFICES ASSUME Init PROVE FlagsAgree /\ JobIsHeld /\ NoLostWakeup /\ StepIsExact
  BY TypeInit DEF IInv
<1> QED
  BY Zenon DEF Init, FlagsAgree, JobIsHeld, NoLostWakeup, StepIsExact

\* What the gate's safety rests on, over steps of the rendering thread.
LEMMA RendererKeeps ==
  ASSUME IInv, TypeOK', RendererStep
  PROVE  IInv'
<1> USE ThreadsAreDistinct DEF IInv, TypeOK, MayGo, HeldNow
<1>1. CASE FramePasses
  BY <1>1 DEF FramePasses, NotifyAll, history, FlagsAgree, JobIsHeld, NoLostWakeup, StepIsExact
<1>2. CASE FrameHeld
  BY <1>2 DEF FrameHeld, history, FlagsAgree, JobIsHeld, NoLostWakeup, StepIsExact
<1>3. CASE WakeToJob
  BY <1>3 DEF WakeToJob, status, history, FlagsAgree, JobIsHeld, NoLostWakeup, StepIsExact
<1>4. CASE WakeHeld
  <2>1. CASE MayGo /\ Leave
    <3>1. FlagsAgree'
      BY <1>4, <2>1, Zenon DEF WakeHeld, Leave, history, FlagsAgree
    <3>2. JobIsHeld' /\ NoLostWakeup' /\ StepIsExact'
      BY <1>4, <2>1 DEF WakeHeld, Leave, NotifyAll, history, FlagsAgree,
                        JobIsHeld, NoLostWakeup, StepIsExact
    <3> QED
      BY <3>1, <3>2
  <2>2. CASE ~MayGo /\ SleepOn
    BY <1>4, <2>2 DEF WakeHeld, SleepOn, history, FlagsAgree, JobIsHeld,
                      NoLostWakeup, StepIsExact
  <2> QED
    BY <1>4, <2>1, <2>2 DEF WakeHeld
<1>5. CASE JobDone
  <2>1. JobIsHeld'
    BY <1>5 DEF JobDone, JobIsHeld
  <2>2. CASE MayGo /\ Leave
    <3>1. FlagsAgree'
      BY <1>5, <2>2, Zenon DEF JobDone, Leave, history, FlagsAgree
    <3>2. NoLostWakeup' /\ StepIsExact'
      BY <1>5, <2>2 DEF JobDone, Leave, NotifyAll, history, FlagsAgree,
                        NoLostWakeup, StepIsExact
    <3> QED
      BY <2>1, <3>1, <3>2
  <2>3. CASE ~MayGo /\ rt' = "held" /\ UNCHANGED holding /\ asleep' = {Renderer}
    BY <1>5, <2>1, <2>3 DEF JobDone, history, FlagsAgree, JobIsHeld,
                            NoLostWakeup, StepIsExact
  <2> QED
    BY <1>5, <2>2, <2>3 DEF JobDone
<1> QED
  BY <1>1, <1>2, <1>3, <1>4, <1>5 DEF RendererStep

\* The same over steps of a client.
LEMMA ClientKeeps ==
  ASSUME IInv, TypeOK', NEW c \in Clients,
         \/ \E n \in 1..MaxStep : Step(c, n)
         \/ Pause(c) \/ Resume(c) \/ AwaitTimeout(c) \/ RunWhileHeld(c)
         \/ ClientWaits(c)
  PROVE  IInv'
<1> USE ThreadsAreDistinct, BoundsAreNatural DEF IInv, TypeOK, MayGo, HeldNow
<1>1. ASSUME NEW n \in 1..MaxStep, Step(c, n)
      PROVE  IInv'
  BY <1>1 DEF Step, RefusedByRelease, DrivenBy, NotifyAll, history,
              FlagsAgree, JobIsHeld, NoLostWakeup, StepIsExact
<1>2. CASE Pause(c)
  BY <1>2 DEF Pause, RefusedByRelease, DrivenBy, NotifyAll, history,
              FlagsAgree, JobIsHeld, NoLostWakeup, StepIsExact
<1>3. CASE Resume(c)
  BY <1>3 DEF Resume, NotifyAll, FlagsAgree, JobIsHeld, NoLostWakeup, StepIsExact
<1>4. CASE AwaitTimeout(c)
  BY <1>4 DEF AwaitTimeout, status, history, FlagsAgree, JobIsHeld,
              NoLostWakeup, StepIsExact
<1>5. CASE RunWhileHeld(c)
  BY <1>5 DEF RunWhileHeld, status, history, FlagsAgree, JobIsHeld,
              NoLostWakeup, StepIsExact
<1>6. CASE ClientWaits(c)
  BY <1>6 DEF ClientWaits, AwaitHeld, Answer, JobReturns, status, history,
              FlagsAgree, JobIsHeld, NoLostWakeup, StepIsExact
<1> QED
  BY <1>1, <1>2, <1>3, <1>4, <1>5, <1>6

\* The invariant survives every step of every thread.
LEMMA InductiveStep == IInv /\ [Next]_vars => IInv'
<1> SUFFICES ASSUME IInv, [Next]_vars PROVE IInv'
  OBVIOUS
<1>1. TypeOK'
  BY TypeStep DEF IInv
<1>2. CASE RendererStep
  BY <1>1, <1>2, RendererKeeps
<1>3. ASSUME NEW c \in Clients,
             \/ \E n \in 1..MaxStep : Step(c, n)
             \/ Pause(c) \/ Resume(c) \/ AwaitTimeout(c) \/ RunWhileHeld(c)
             \/ ClientWaits(c)
      PROVE  IInv'
  BY <1>1, <1>3, ClientKeeps
<1>4. CASE Release
  BY <1>1, <1>4, ThreadsAreDistinct
  DEF Release, NotifyAll, IInv, TypeOK, MayGo, HeldNow, FlagsAgree, JobIsHeld,
      NoLostWakeup, StepIsExact
<1>5. ASSUME NEW t \in Clients \cup {Renderer}, SpuriousWake(t)
      PROVE  IInv'
  BY <1>1, <1>5
  DEF SpuriousWake, status, history, IInv, TypeOK, MayGo, HeldNow, FlagsAgree,
      JobIsHeld, NoLostWakeup, StepIsExact
<1>6. CASE UNCHANGED vars
  BY <1>1, <1>6
  DEF vars, status, history, IInv, MayGo, HeldNow, FlagsAgree, JobIsHeld,
      NoLostWakeup, StepIsExact
<1> QED
  BY <1>2, <1>3, <1>4, <1>5, <1>6 DEF Next

\* The inductive invariant holds of every behaviour.
THEOREM InductiveInvariant == Spec => []IInv
  BY InductiveInit, InductiveStep, PTL DEF Spec

\* A job the gate accepted is always ahead of the rendering thread, inside the
\* hold, with its caller still waiting on it.
THEOREM JobsAreHeld == Spec => []JobIsHeld
<1>1. IInv => JobIsHeld
  BY DEF IInv
<1> QED
  BY <1>1, InductiveInvariant, PTL

\* No thread sleeps in m_changed through the change it waits for.
THEOREM NoWakeupIsLost == Spec => []NoLostWakeup
<1>1. IInv => NoLostWakeup
  BY DEF IInv
<1> QED
  BY <1>1, InductiveInvariant, PTL

\* A step ends exactly the frames it asked for, whatever else the gate was
\* asked in between, or its client is no longer the last to have asked.
THEOREM StepsAreExact == Spec => []StepIsExact
<1>1. IInv => StepIsExact
  BY DEF IInv
<1> QED
  BY <1>1, InductiveInvariant, PTL

\* After the shutdown's release no frame ends in a hold.
THEOREM ReleasedForGood == Spec => NeverHeldOnceReleased
<1>1. IInv /\ [Next]_vars => [released => framesHeld' = framesHeld]_vars
  BY DEF IInv, FlagsAgree, Next, RendererStep, FramePasses, FrameHeld,
         WakeToJob, WakeHeld, JobDone, Step, Pause, Resume, Release,
         AwaitTimeout, RunWhileHeld, ClientWaits, AwaitHeld, Answer,
         JobReturns, SpuriousWake, status, vars
<1> QED
  BY <1>1, InductiveInvariant, PTL DEF Spec, NeverHeldOnceReleased

-----------------------------------------------------------------------------
\* The gate is a turnstile: every step of a thread is a step of Turnstile or
\* none at all, for any number of clients and steps.
THEOREM GateIsTurnstile == Spec => T!SafeSpec
<1> USE DEF T!vars
<1>1. Init => T!Init
  BY Zenon DEF Init, T!Init
<1>2. IInv /\ [Next]_vars => [T!Next]_(T!vars)
  <2> SUFFICES ASSUME IInv, [Next]_vars PROVE [T!Next]_(T!vars)
    OBVIOUS
  <2> USE DEF IInv, TypeOK
  <2>1. CASE FramePasses
    <3>1. CASE paused
      BY <2>1, <3>1 DEF FramePasses, T!Next, T!Pass
    <3> QED
      BY <2>1, <3>1 DEF FramePasses
  <2>2. CASE FrameHeld
    BY <2>2 DEF FrameHeld, T!Next, T!Hold
  <2>3. CASE WakeToJob
    BY <2>3 DEF WakeToJob, status
  <2>4. CASE WakeHeld
    BY <2>4 DEF WakeHeld, MayGo, Leave, SleepOn, T!Next, T!GoOn
  <2>5. CASE JobDone
    BY <2>5 DEF JobDone, MayGo, Leave, T!Next, T!GoOn
  <2>6. ASSUME NEW c \in Clients,
               \/ \E n \in 1..MaxStep : Step(c, n)
               \/ Pause(c)
        PROVE  T!Close \/ UNCHANGED T!vars
    BY <2>6, BoundsAreNatural DEF Step, Pause, RefusedByRelease, T!Close
  <2>7. ASSUME NEW c \in Clients, Resume(c)
        PROVE  T!Open
    BY <2>7 DEF Resume, T!Open
  <2>8. CASE Release
    BY <2>8 DEF Release, T!Next, T!Open
  <2>9. ASSUME NEW c \in Clients,
               AwaitTimeout(c) \/ RunWhileHeld(c) \/ ClientWaits(c)
        PROVE  UNCHANGED T!vars
    BY <2>9 DEF AwaitTimeout, RunWhileHeld, ClientWaits, AwaitHeld, Answer,
                JobReturns, status
  <2>10. ASSUME NEW t \in Clients \cup {Renderer}, SpuriousWake(t)
         PROVE  UNCHANGED T!vars
    BY <2>10 DEF SpuriousWake, status
  <2>11. CASE UNCHANGED vars
    BY <2>11 DEF vars, status
  <2> QED
    BY <2>1, <2>2, <2>3, <2>4, <2>5, <2>6, <2>7, <2>8, <2>9, <2>10, <2>11
    DEF Next, RendererStep, T!Next
<1> QED
  BY <1>1, <1>2, InductiveInvariant, PTL DEF Spec, T!SafeSpec
=============================================================================
