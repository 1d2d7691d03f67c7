-------------------------- MODULE NativeMainProofs --------------------------
(***************************************************************************)
(* Proofs about NativeMain: with the queue on top, the looper still        *)
(* behaves as NdkLooper says, so what is proved there carries over; and    *)
(* the queue hands a job over without outliving it and runs it once.       *)
(***************************************************************************)
EXTENDS NativeMain, NdkLooperProofs

(* The queue adds no step to the looper: NativeMain implements NdkLooper.  *)
THEOREM ImplementsLooper == NativeSpec => Spec
<1>1. NativeInit => Init
  BY DEF NativeInit
<1>2. [NativeNext]_allVars => [Next]_vars
  <2> SUFFICES ASSUME [NativeNext]_allVars PROVE [Next]_vars
    OBVIOUS
  <2>1. CASE UNCHANGED allVars
    BY <2>1 DEF allVars
  <2>2. ASSUME NEW t \in Posters, Submit(t) \/ SubmitterStep(t)
        PROVE  [Next]_vars
    BY <2>2 DEF Submit, SubmitterStep, WaitIdle, Publish, WakeMain, WaitDone, Return, Next
  <2>3. CASE Spurious \/ Prepare
    BY <2>3 DEF Spurious, Prepare
  <2>4. CASE MainStep
    BY <2>4 DEF MainStep, TakeJob, NoJob, Idle, FinishJob, Next, PollStep
  <2>5. CASE LooperStep
    BY <2>5 DEF LooperStep, OwnerCode, Next, WaitStep, PollStep
  <2> QED
    BY <2>1, <2>2, <2>3, <2>4, <2>5 DEF NativeNext
<1> QED
  BY <1>1, <1>2, PTL DEF NativeSpec, Spec

(* So the owner of the looper, running the queue, loses no wake-up.        *)
THEOREM QueueLosesNoWakeup == NativeSpec => []NoLostWakeup
  BY ImplementsLooper, NoWakeupIsLost, PTL

-----------------------------------------------------------------------------
InSubmit == {"wake", "waking", "waitDone", "woken"}

QueueTypeOK ==
    /\ g_mu \in Posters \cup {None}
    /\ g_pending \in Posters \cup {None}
    /\ done \in [Posters -> BOOLEAN]
    /\ ran \in [Posters -> Nat]
    /\ sub \in [Posters -> InSubmit \cup {"out", "start", "waitIdle"}]

(* g_pending names the one submitter that is past its hand-over, and g_mu  *)
(* is held from the hand-over to the wait for g_done.                      *)
QueueInv ==
    /\ QueueTypeOK
    /\ g_pending # None => sub[g_pending] \in InSubmit
    /\ \A t \in Posters :
          /\ sub[t] \in InSubmit => g_pending = t
          /\ sub[t] \in {"wake", "waking"} => g_mu = t
          /\ sub[t] \in {"start", "waitIdle"} => ran[t] = 0
          /\ sub[t] \in InSubmit => ran[t] = IF done[t] THEN 1 ELSE 0
    /\ main = "exec" => job \in Posters /\ ~done[job] /\ g_pending = job
                          /\ sub[job] \in {"waitDone", "woken"}

(* Handing over: every step of the queue keeps its invariant.              *)
LEMMA QueueInvariant == NativeSpec => []QueueInv
<1> USE ConstantsAssumption DEF QueueInv, QueueTypeOK, InSubmit, Signallers
<1>1. NativeInit => QueueInv
  BY DEF NativeInit
<1>2. QueueInv /\ [NativeNext]_allVars => QueueInv'
  <2> SUFFICES ASSUME QueueInv, [NativeNext]_allVars PROVE QueueInv'
    OBVIOUS
  <2>1. CASE UNCHANGED allVars
    BY <2>1 DEF allVars, nativeVars, queueVars
  <2>2. ASSUME NEW t \in Posters, Submit(t) PROVE QueueInv'
    BY <2>2 DEF Submit
  <2>3. ASSUME NEW t \in Posters, WaitIdle(t) PROVE QueueInv'
    BY <2>3 DEF WaitIdle
  <2>4. ASSUME NEW t \in Posters, Publish(t) PROVE QueueInv'
    BY <2>4 DEF Publish
  <2>5. ASSUME NEW t \in Posters, WakeMain(t) PROVE QueueInv'
    BY <2>5 DEF WakeMain
  <2>6. ASSUME NEW t \in Posters, WaitDone(t) PROVE QueueInv'
    BY <2>6 DEF WaitDone, HoldsQueue
  <2>7. ASSUME NEW t \in Posters, Return(t) PROVE QueueInv'
    BY <2>7 DEF Return, HoldsQueue, SignalIdle
  <2>8. CASE Spurious
    BY <2>8 DEF Spurious
  <2>9. CASE TakeJob
    BY <2>9 DEF TakeJob, Undone
  <2>10. CASE NoJob \/ Idle
    BY <2>10 DEF NoJob, Idle
  <2>11. CASE FinishJob
    BY <2>11 DEF FinishJob
  <2>12. CASE Prepare \/ LooperStep
    BY <2>12 DEF Prepare, LooperStep, nativeVars, queueVars
  <2> QED
    BY <2>1, <2>2, <2>3, <2>4, <2>5, <2>6, <2>7, <2>8, <2>9, <2>10, <2>11, <2>12
       DEF NativeNext, SubmitterStep, MainStep
<1> QED
  BY <1>1, <1>2, PTL DEF NativeSpec

(* The main thread only works on a job whose submitter is still inside     *)
(* submit(): the job on its stack has not gone.                            *)
THEOREM JobStackIsLive == NativeSpec => []JobOnLiveStack
<1>1. QueueInv => JobOnLiveStack
  BY DEF QueueInv, JobOnLiveStack
<1> QED
  BY QueueInvariant, <1>1, PTL

(* submit() returns only after its own job has run, and run once.          *)
THEOREM JobRanOnce == NativeSpec => RanOnceOnReturn
<1>1. QueueInv /\ [NativeNext]_allVars =>
        [\A t \in Posters : (sub[t] # "out" /\ sub'[t] = "out") => ran[t] = 1]_allVars
  <2> SUFFICES ASSUME QueueInv, NativeNext, NEW t \in Posters,
                      sub[t] # "out", sub'[t] = "out"
               PROVE  ran[t] = 1
    OBVIOUS
  <2> USE DEF QueueInv, QueueTypeOK, InSubmit
  <2>1. ASSUME NEW u \in Posters, Return(u) PROVE ran[t] = 1
    <3>1. u = t
      BY <2>1 DEF Return, SignalIdle
    <3> QED
      BY <2>1, <3>1 DEF Return, HoldsQueue
  <2>2. ASSUME NEW u \in Posters,
               Submit(u) \/ WaitIdle(u) \/ Publish(u) \/ WakeMain(u) \/ WaitDone(u)
        PROVE  FALSE
    BY <2>2 DEF Submit, WaitIdle, Publish, WakeMain, WaitDone
  <2>3. CASE Spurious
    BY <2>3 DEF Spurious
  <2>4. CASE MainStep
    BY <2>4 DEF MainStep, TakeJob, NoJob, Idle, FinishJob
  <2>5. CASE Prepare \/ LooperStep
    BY <2>5 DEF Prepare, LooperStep, nativeVars, queueVars
  <2> QED
    BY <2>1, <2>2, <2>3, <2>4, <2>5 DEF NativeNext, SubmitterStep
<1> QED
  BY QueueInvariant, <1>1, PTL DEF NativeSpec, RanOnceOnReturn

-----------------------------------------------------------------------------
(* Where the main thread stands outside its jobs: on top of its stack, and *)
(* in a blocking poll only with a looper.  A job that is handed over while *)
(* it goes idle or is blocked has left a token in the wake pipe, or its    *)
(* submitter is still to write one.                                        *)
IdleInv ==
    /\ main \in {"check", "idle", "idling", "failed", "waitWork", "exec"}
    /\ job \in Posters \cup {None}
    /\ ui_looper \in BOOLEAN
    /\ main \in {"check", "idle", "failed", "waitWork"} => AtTop
    /\ main = "idling" => ui_looper
    /\ main = "waitWork" => ~Undone
    /\ ((main = "idle" /\ ui_looper) \/ (main = "idling" /\ at = "idle")) /\ Undone
          => token \/ sub[g_pending] = "wake"

(* A step of the looper moves the owner only off the top or out of a poll, *)
(* and takes the token only from an owner that has left the blocking poll. *)
LEMMA LooperKeepsIdle ==
  ASSUME QueueInv, IdleInv, LooperStep
  PROVE  IdleInv'
<1> USE DEF IdleInv, AtTop, Undone, LooperStep, nativeVars, queueVars
<1>1. CASE Environment
  BY <1>1 DEF Environment, Post, AddFd, RemoveFd, ownerVars
<1>2. CASE Watch
  BY <1>2 DEF Watch, ownerVars
<1>3. ASSUME NEW t \in Signallers, SignalStep(t) PROVE IdleInv'
  <2>1. CASE Signal(t)
    BY <2>1 DEF Signal, fdVars, ownerVars
  <2>2. CASE LockParked(t)
    BY <2>2 DEF LockParked, fdVars, ownerVars
  <2>3. CASE Broadcast(t)
    BY <2>3 DEF Broadcast, fdVars
  <2> QED
    BY <1>3, <2>1, <2>2, <2>3 DEF SignalStep
<1>4. ASSUME NEW w \in Waits, EngineRuns, EnterWait(w) PROVE IdleInv'
  BY <1>4 DEF EngineRuns, EnterWait, fdVars
<1>5. CASE Interrupted \/ Notify \/ TimeOut
  BY <1>5 DEF Interrupted, Notify, TimeOut, fdVars
<1>6. CASE OwnerCode
  <2>1. CASE ArmPending \/ Arm \/ Sleep \/ SleepSlice \/ EndSlice
    BY <2>1 DEF ArmPending, Arm, Sleep, SleepSlice, EndSlice, fdVars
  <2>2. CASE Disarm \/ Relock \/ LeaveWait \/ EndPoll \/ IgnoreEvent
    BY <2>2 DEF Disarm, Relock, LeaveWait, EndPoll, IgnoreEvent, fdVars
  <2>3. CASE DrainWake \/ RunCallback \/ ReturnCallback
    BY <2>3 DEF DrainWake, RunCallback, ReturnCallback, fdVars
  <2>4. ASSUME NEW s \in Sources, TakeEvent(s) PROVE IdleInv'
    BY <2>4 DEF TakeEvent
  <2> QED
    BY <1>6, <2>1, <2>2, <2>3, <2>4 DEF OwnerCode
<1> QED
  BY <1>1, <1>2, <1>3, <1>4, <1>5, <1>6

(* Every step of the queue keeps it: who goes idle has looked at g_pending *)
(* under g_mu, and who hands over afterwards wakes the looper.             *)
LEMMA IdleInvariant == NativeSpec => []IdleInv
<1> USE ConstantsAssumption DEF IdleInv, AtTop, Undone
<1>1. NativeInit => IdleInv
  BY DEF NativeInit, Init
<1>2. QueueInv /\ IdleInv /\ [NativeNext]_allVars => IdleInv'
  <2> SUFFICES ASSUME QueueInv, IdleInv, [NativeNext]_allVars PROVE IdleInv'
    OBVIOUS
  <2> USE DEF QueueInv, QueueTypeOK, InSubmit
  <2>1. CASE UNCHANGED allVars
    BY <2>1 DEF allVars, nativeVars, queueVars, vars, fdVars, ownerVars
  <2>2. ASSUME NEW t \in Posters, Submit(t) \/ WaitIdle(t) PROVE IdleInv'
    BY <2>2 DEF Submit, WaitIdle, vars, fdVars, ownerVars
  <2>3. ASSUME NEW t \in Posters, Publish(t) PROVE IdleInv'
    BY <2>3 DEF Publish, vars, fdVars, ownerVars
  <2>4. ASSUME NEW t \in Posters, WakeMain(t) PROVE IdleInv'
    BY <2>4 DEF WakeMain, Wake, vars, fdVars, ownerVars
  <2>5. ASSUME NEW t \in Posters, WaitDone(t) PROVE IdleInv'
    BY <2>5 DEF WaitDone, HoldsQueue, vars, fdVars, ownerVars
  <2>6. ASSUME NEW t \in Posters, Return(t) PROVE IdleInv'
    BY <2>6 DEF Return, vars, fdVars, ownerVars
  <2>7. CASE Spurious
    BY <2>7 DEF Spurious, vars, fdVars, ownerVars
  <2>8. CASE TakeJob \/ NoJob
    BY <2>8 DEF TakeJob, NoJob, vars, fdVars, ownerVars
  <2>9. CASE Idle
    BY <2>9 DEF Idle, EnterIdle, vars, fdVars, ownerVars
  <2>10. CASE FinishJob
    BY <2>10 DEF FinishJob, vars, fdVars, ownerVars
  <2>11. CASE Prepare
    BY <2>11 DEF Prepare, queueVars, vars, fdVars, ownerVars
  <2>12. CASE LooperStep
    BY <2>12, LooperKeepsIdle
  <2> QED
    BY <2>1, <2>2, <2>3, <2>4, <2>5, <2>6, <2>7, <2>8, <2>9, <2>10, <2>11, <2>12
       DEF NativeNext, SubmitterStep, MainStep
<1> QED
  BY <1>1, <1>2, QueueInvariant, PTL DEF NativeSpec

(* The looper's and the queue's variables keep their types.                *)
THEOREM NativeTypeCorrect == NativeSpec => []NativeTypeOK
<1>1. TypeOK /\ QueueInv /\ IdleInv => NativeTypeOK
  BY DEF QueueInv, QueueTypeOK, InSubmit, IdleInv, NativeTypeOK
<1> QED
  BY <1>1, ImplementsLooper, TypeCorrect, QueueInvariant, IdleInvariant, PTL

(* The main thread never blocks over a job whose submitter sleeps, unless  *)
(* the token that gets it out is in the pipe.                              *)
THEOREM NoJobIsMissed == NativeSpec => []NoMissedJob
<1>1. QueueInv /\ IdleInv => NoMissedJob
  BY DEF IdleInv, NoMissedJob, Undone
<1> QED
  BY <1>1, QueueInvariant, IdleInvariant, PTL
=============================================================================
