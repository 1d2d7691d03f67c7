--------------------------- MODULE NdkLooperProofs ---------------------------
(***************************************************************************)
(* Proofs about NdkLooper: its type invariant, and that the owner never    *)
(* sleeps over a ready source without a wake-up on its way.                *)
(***************************************************************************)
EXTENDS NdkLooper, TLAPS

(* The context of an owner that neither waits nor polls is a context.      *)
LEMMA NoWaitType == NoWait \in Context
  BY ConstantsAssumption DEF NoWait, Context

(* A new looper has the types the code gives its fields.                   *)
LEMMA InitTypeOK == Init => TypeOK
<1> SUFFICES ASSUME Init PROVE TypeOK
  OBVIOUS
<1>1. mutex \in [Waits -> Signallers \cup {Owner, None}]
  BY DEF Init
<1>2. sig \in [Signallers -> SignalState]
  BY DEF Init, SignalState
<1>3. queued \in [Fds -> 0..MaxQueued]
  BY ConstantsAssumption DEF Init
<1>4. frames \in Seq(Context)
  BY DEF Init
<1> QED
  BY <1>1, <1>2, <1>3, <1>4, NoWaitType DEF Init, TypeOK

(* Only descriptors and the wake pipe can be ready.                        *)
LEMMA ReadyType == TypeOK => Ready \subseteq Sources
  BY DEF TypeOK, Ready, Sources

(* Moving a source to the end keeps the ready list a relation on sources.  *)
LEMMA AtTheEndType ==
  ASSUME TypeOK, NEW s \in Sources
  PROVE  AtTheEnd(s) \in SUBSET (Sources \X Sources)
<1>1. (order \ ({s} \X Sources)) \subseteq Sources \X Sources
  BY DEF TypeOK
<1>2. ((Ready \ {s}) \X {s}) \subseteq Sources \X Sources
  BY ReadyType
<1> QED
  BY <1>1, <1>2 DEF AtTheEnd

(* A source that becomes ready keeps edge and ready list well typed.       *)
LEMMA BecomeReadyType ==
  ASSUME TypeOK, NEW s \in Sources, BecomeReady(s)
  PROVE  edge' \in BOOLEAN /\ order' \in SUBSET (Sources \X Sources)
<1>1. order \in SUBSET (Sources \X Sources) /\ edge \in BOOLEAN
  BY DEF TypeOK
<1>2. CASE s \in Ready
  BY <1>1, <1>2 DEF BecomeReady
<1>3. CASE s \notin Ready
  BY <1>1, <1>3, AtTheEndType DEF BecomeReady
<1> QED
  BY <1>2, <1>3

(* A signaller that moves on is still in a state of looper_signal_parked.  *)
LEMMA SignallerMoves ==
  ASSUME TypeOK, NEW t \in Signallers,
         NEW a \in {"idle", "signal", "lock", "broadcast"}
  PROVE  [sig EXCEPT ![t].at = a] \in [Signallers -> SignalState]
  BY DEF TypeOK, SignalState

(* Every step of the descriptors and of the signalling threads keeps the   *)
(* types.                                                                  *)
LEMMA EnvironmentTypeOK ==
  ASSUME TypeOK, \/ Environment
                 \/ \E t \in Posters : Wake(t)
                 \/ Watch
                 \/ \E t \in Signallers : SignalStep(t)
  PROVE  TypeOK'
<1>1. ASSUME NEW f \in Fds, Post(f) PROVE TypeOK'
  <2>1. edge' \in BOOLEAN /\ order' \in SUBSET (Sources \X Sources)
    BY <1>1, BecomeReadyType DEF Post, TypeOK, Sources
  <2>2. queued' \in [Fds -> 0..MaxQueued]
    BY <1>1, ConstantsAssumption DEF Post, TypeOK
  <2> QED
    BY <1>1, <2>1, <2>2 DEF Post, TypeOK, parkVars, ownerVars
<1>2. ASSUME NEW f \in Fds, AddFd(f) PROVE TypeOK'
  <2>1. edge' \in BOOLEAN /\ order' \in SUBSET (Sources \X Sources)
    BY <1>2, BecomeReadyType DEF AddFd, TypeOK, Sources
  <2> QED
    BY <1>2, <2>1 DEF AddFd, TypeOK, parkVars, ownerVars
<1>3. ASSUME NEW f \in Fds, RemoveFd(f) PROVE TypeOK'
  BY <1>3 DEF RemoveFd, TypeOK, parkVars, ownerVars
<1>4. ASSUME NEW t \in Posters, Wake(t) PROVE TypeOK'
  <2>1. edge' \in BOOLEAN /\ order' \in SUBSET (Sources \X Sources)
    BY <1>4, BecomeReadyType DEF Wake, Sources
  <2>2. sig' \in [Signallers -> SignalState]
    BY <1>4, SignallerMoves DEF Wake, Signallers
  <2> QED
    BY <1>4, <2>1, <2>2 DEF Wake, TypeOK, parkVars, ownerVars
<1>5. CASE Watch
  <2>1. sig' \in [Signallers -> SignalState]
    BY <1>5, SignallerMoves DEF Watch, Signallers, TypeOK
  <2> QED
    BY <1>5, <2>1 DEF Watch, TypeOK, parkVars, ownerVars
<1>6. ASSUME NEW t \in Signallers, SignalStep(t) PROVE TypeOK'
  <2>1. CASE Signal(t)
    <3>1. sig' \in [Signallers -> SignalState]
      <4>1. CASE parked = None
        BY <2>1, <4>1, SignallerMoves, ZenonT(30) DEF Signal
      <4>2. CASE parked # None
        BY <2>1, <4>2 DEF Signal, TypeOK, SignalState
      <4> QED
        BY <4>1, <4>2
    <3> QED
      BY <2>1, <3>1 DEF Signal, TypeOK, fdVars, ownerVars
  <2>2. CASE LockParked(t)
    <3>1. sig' \in [Signallers -> SignalState]
      BY <2>2, SignallerMoves DEF LockParked
    <3>2. mutex' \in [Waits -> Signallers \cup {Owner, None}]
      BY <2>2 DEF LockParked, TypeOK
    <3> QED
      BY <2>2, <3>1, <3>2 DEF LockParked, TypeOK, fdVars, parkVars, ownerVars
  <2>3. CASE Broadcast(t)
    <3>1. sig' \in [Signallers -> SignalState]
      BY <2>3 DEF Broadcast, TypeOK, SignalState
    <3> QED
      BY <2>3, <3>1 DEF Broadcast, TypeOK, fdVars, parkVars
  <2> QED
    BY <1>6, <2>1, <2>2, <2>3 DEF SignalStep
<1> QED
  BY <1>1, <1>2, <1>3, <1>4, <1>5, <1>6 DEF Environment

(* Every step of the condition wait keeps the types.                       *)
LEMMA WaitTypeOK ==
  ASSUME TypeOK, WaitStep
  PROVE  TypeOK'
<1> USE ConstantsAssumption DEF TypeOK, Sources, Context
<1>1. ASSUME NEW w \in Waits, EnterWait(w) PROVE TypeOK'
  BY <1>1 DEF EnterWait, fdVars, parkVars
<1>2. CASE ArmPending
  BY <1>2 DEF ArmPending, Ready, fdVars
<1>3. CASE Arm
  BY <1>3 DEF Arm, fdVars
<1>4. CASE Sleep
  BY <1>4 DEF Sleep, fdVars, parkVars
<1>5. CASE SleepSlice
  BY <1>5 DEF SleepSlice, fdVars, parkVars
<1>6. CASE EndSlice
  BY <1>6 DEF EndSlice, fdVars, parkVars
<1>7. CASE Notify
  BY <1>7 DEF Notify, fdVars, parkVars
<1>8. CASE TimeOut
  BY <1>8 DEF TimeOut, fdVars, parkVars
<1>9. CASE Disarm
  BY <1>9 DEF Disarm, Ready, fdVars
<1>10. CASE Relock
  BY <1>10 DEF Relock, fdVars, parkVars
<1>11. CASE LeaveWait
  BY <1>11, NoWaitType DEF LeaveWait, fdVars, parkVars
<1> QED
  BY <1>1, <1>2, <1>3, <1>4, <1>5, <1>6, <1>7, <1>8, <1>9, <1>10, <1>11 DEF WaitStep

(* Every step of the polls keeps the types.                                *)
LEMMA PollTypeOK ==
  ASSUME TypeOK, PollStep
  PROVE  TypeOK'
<1> USE ConstantsAssumption DEF TypeOK, Sources, Context
<1>1. CASE EnterIdle
  BY <1>1 DEF EnterIdle, fdVars, parkVars
<1>2. CASE Interrupted
  BY <1>2 DEF Interrupted, fdVars, parkVars
<1>3. CASE EndPoll
  BY <1>3 DEF EndPoll, fdVars, parkVars
<1>4. ASSUME NEW s \in Sources, TakeEvent(s) PROVE TypeOK'
  <2>1. order' \in SUBSET (Sources \X Sources)
    BY <1>4, AtTheEndType DEF TakeEvent
  <2> QED
    BY <1>4, <2>1 DEF TakeEvent, parkVars
<1>5. CASE DrainWake
  BY <1>5 DEF DrainWake, parkVars
<1>6. CASE RunCallback
  BY <1>6, NoWaitType DEF RunCallback, parkVars
<1>7. CASE IgnoreEvent
  BY <1>7 DEF IgnoreEvent, fdVars, parkVars
<1>8. CASE ReturnCallback
  <2>1. Len(frames) \in 1..Len(frames)
    BY <1>8 DEF ReturnCallback
  <2>2. frames[Len(frames)] \in Context
    <3> HIDE DEF Context
    <3> QED BY <2>1
  <2>3. SubSeq(frames, 1, Len(frames) - 1) \in Seq(Context)
    <3> HIDE DEF Context
    <3> QED BY <2>1
  <2> QED
    BY <1>8, <2>2, <2>3 DEF ReturnCallback, fdVars, parkVars
<1> QED
  BY <1>1, <1>2, <1>3, <1>4, <1>5, <1>6, <1>7, <1>8 DEF PollStep

(* A step that changes nothing keeps the types.                            *)
LEMMA StutterTypeOK == TypeOK /\ UNCHANGED vars => TypeOK'
  BY DEF TypeOK, vars, fdVars, parkVars, ownerVars

(* The variables keep the types the code gives them.                       *)
THEOREM TypeCorrect == Spec => []TypeOK
<1>1. TypeOK /\ [Next]_vars => TypeOK'
  BY EnvironmentTypeOK, WaitTypeOK, PollTypeOK, StutterTypeOK DEF Next
<1> QED
  BY InitTypeOK, <1>1, PTL DEF Spec
-----------------------------------------------------------------------------
(* The inductive invariant.  Each lemma takes the actions that touch the   *)
(* same part of the state; TypeOK' comes from the lemmas above.            *)

LoopParts == ParkedIsPublished /\ WaitKnown /\ MutexHeld /\ SignalUnderWay

(* The invariant holds of a new looper: nobody is parked or ready.         *)
LEMMA InitLooperInv == Init => LooperInv
<1> SUFFICES ASSUME Init PROVE LooperInv
  OBVIOUS
<1>1. TypeOK
  BY InitTypeOK
<1>2. LoopParts
  BY DEF Init, LoopParts, ParkedIsPublished, WaitKnown, MutexHeld, SignalUnderWay, Parks
<1>3. SourcesAccounted
  BY DEF Init, SourcesAccounted, Ready
<1> QED
  BY <1>1, <1>2, <1>3 DEF LooperInv, LoopParts

(* Descriptors: a source that becomes ready raises the edge.               *)
LEMMA EnvironmentLooperInv ==
  ASSUME LooperInv, Environment
  PROVE  LoopParts' /\ SourcesAccounted'
<1> USE ConstantsAssumption DEF LooperInv, TypeOK, LoopParts, ParkedIsPublished,
        WaitKnown, MutexHeld, SignalUnderWay, SourcesAccounted, Parks
<1>1. ASSUME NEW f \in Fds, Post(f) PROVE LoopParts' /\ SourcesAccounted'
  <2>1. LoopParts'
    BY <1>1 DEF Post, BecomeReady, parkVars, ownerVars
  <2>2. SourcesAccounted'
    BY <1>1 DEF Post, Ready, BecomeReady, parkVars, ownerVars
  <2> QED
    BY <2>1, <2>2
<1>2. ASSUME NEW f \in Fds, AddFd(f) PROVE LoopParts' /\ SourcesAccounted'
  <2>1. LoopParts'
    BY <1>2 DEF AddFd, BecomeReady, parkVars, ownerVars
  <2>2. SourcesAccounted'
    BY <1>2 DEF AddFd, Ready, BecomeReady, parkVars, ownerVars
  <2> QED
    BY <2>1, <2>2
<1>3. ASSUME NEW f \in Fds, RemoveFd(f) PROVE LoopParts' /\ SourcesAccounted'
  <2>1. LoopParts'
    BY <1>3 DEF RemoveFd, parkVars, ownerVars
  <2>2. SourcesAccounted'
    BY <1>3 DEF RemoveFd, Ready, parkVars, ownerVars
  <2> QED
    BY <2>1, <2>2
<1> QED
  BY <1>1, <1>2, <1>3 DEF Environment

(* ALooper_wake and the watcher up to looper_signal_parked.                *)
LEMMA WakerLooperInv ==
  ASSUME LooperInv, (\E t \in Posters : Wake(t)) \/ Watch
  PROVE  LoopParts' /\ SourcesAccounted'
<1> USE ConstantsAssumption DEF LooperInv, TypeOK, LoopParts, ParkedIsPublished,
        WaitKnown, MutexHeld, SignalUnderWay, SourcesAccounted, Parks
<1>1. ASSUME NEW t \in Posters, Wake(t) PROVE LoopParts' /\ SourcesAccounted'
  <2>1. LoopParts'
    <3>1. t \in Signallers /\ sig[t].at = "idle"
      BY <1>1 DEF Wake, Signallers
    <3>2. sig'[t].at = "signal" /\ \A u \in Signallers \ {t} : sig'[u] = sig[u]
      BY <1>1, <3>1 DEF Wake
    <3>3. SignalUnderWay'
      BY <1>1, <3>1, <3>2 DEF Wake, parkVars, ownerVars
    <3>4. MutexHeld'
      BY <1>1, <3>1, <3>2 DEF Wake, parkVars, ownerVars
    <3> QED
      BY <1>1, <3>3, <3>4 DEF Wake, parkVars, ownerVars
  <2>2. SourcesAccounted'
    BY <1>1 DEF Wake, Ready, BecomeReady, parkVars, ownerVars, Signallers, SignalState
  <2> QED
    BY <2>1, <2>2
<1>2. CASE Watch
  <2>1. LoopParts'
    BY <1>2 DEF Watch, parkVars, ownerVars, Signallers, SignalState
  <2>2. SourcesAccounted'
    BY <1>2 DEF Watch, Ready, parkVars, ownerVars, Signallers, SignalState
  <2> QED
    BY <2>1, <2>2
<1> QED
  BY <1>1, <1>2 DEF TypeOK

(* looper_signal_parked.                                                   *)
LEMMA SignalLooperInv ==
  ASSUME LooperInv, \E t \in Signallers : SignalStep(t)
  PROVE  LoopParts' /\ SourcesAccounted'
<1> USE ConstantsAssumption DEF LooperInv, TypeOK, LoopParts, ParkedIsPublished,
        WaitKnown, MutexHeld, SignalUnderWay, SourcesAccounted, Parks
<1>1. ASSUME NEW t \in Signallers, Signal(t) PROVE LoopParts' /\ SourcesAccounted'
  <2>1. LoopParts'
    <3>1. \A u \in Signallers \ {t} : sig'[u] = sig[u]
      BY <1>1 DEF Signal
    <3>2. CASE parked = None
      <4>1. sig'[t].at = "idle" /\ ~Parks
        <5>1. sig' = [sig EXCEPT ![t].at = "idle"]
          BY <1>1, <3>2 DEF Signal
        <5>2. ~Parks
          BY <3>2
        <5> QED
          BY <5>1, <5>2
      <4>2. MutexHeld'
        BY <1>1, <3>1, <4>1 DEF Signal, fdVars, ownerVars
      <4> QED
        BY <1>1, <3>2, <4>1, <4>2 DEF Signal, fdVars, ownerVars
    <3>3. CASE parked # None
      <4>1. sig'[t] = [at |-> "lock", c |-> parked] /\ Parks /\ parked = ctx.w
        BY <1>1, <3>3 DEF Signal
      <4>2. MutexHeld'
        BY <1>1, <3>1, <4>1, SMTT(30) DEF Signal, fdVars, ownerVars
      <4>3. SignalUnderWay'
        BY <1>1, <3>3, <4>1 DEF Signal, fdVars, ownerVars
      <4> QED
        BY <1>1, <3>3, <4>2, <4>3 DEF Signal, fdVars, ownerVars
    <3> QED
      BY <3>2, <3>3
  <2>2. SourcesAccounted'
    BY <1>1 DEF Signal, Ready, fdVars, ownerVars, SignalState
  <2> QED
    BY <2>1, <2>2
<1>2. ASSUME NEW t \in Signallers, LockParked(t) PROVE LoopParts' /\ SourcesAccounted'
  <2>1. LoopParts'
    BY <1>2 DEF LockParked, fdVars, parkVars, ownerVars, SignalState
  <2>2. SourcesAccounted'
    BY <1>2 DEF LockParked, Ready, fdVars, parkVars, ownerVars, SignalState
  <2> QED
    BY <2>1, <2>2
<1>3. ASSUME NEW t \in Signallers, Broadcast(t) PROVE LoopParts' /\ SourcesAccounted'
  <2>1. LoopParts'
    <3>1. /\ sig[t].at = "broadcast" /\ sig[t].c \in Waits /\ mutex[sig[t].c] = t
          /\ sig'[t] = [at |-> "idle", c |-> None]
          /\ \A u \in Signallers \ {t} : sig'[u] = sig[u]
      BY <1>3 DEF Broadcast
    <3>2. at \in {"held", "armed"} => ctx.w # sig[t].c
      BY <3>1
    <3>3. mutex' = [mutex EXCEPT ![sig[t].c] = None]
      BY <1>3 DEF Broadcast
    <3>4. MutexHeld'
      <4>1. at' \in {"held", "armed"} => mutex'[ctx'.w] = Owner
        BY <1>3, <3>2, <3>3 DEF Broadcast
      <4>2. ASSUME NEW u \in Signallers
            PROVE  /\ sig'[u].at \in {"lock", "broadcast"} => sig'[u].c \in Waits
                   /\ sig'[u].at = "broadcast" => mutex'[sig'[u].c] = u
        BY <3>1, <3>3, <4>2
      <4> QED
        BY <4>1, <4>2
    <3>5. SignalUnderWay'
      BY <1>3, <3>1 DEF Broadcast, parkVars
    <3> QED
      BY <1>3, <3>1, <3>4, <3>5 DEF Broadcast, fdVars, parkVars
  <2>2. SourcesAccounted'
    BY <1>3 DEF Broadcast, Ready, fdVars, parkVars, SignalState
  <2> QED
    BY <2>1, <2>2
<1> QED
  BY <1>1, <1>2, <1>3 DEF SignalStep

(* The condition wait.                                                     *)
LEMMA WaitLooperInv ==
  ASSUME LooperInv, WaitStep
  PROVE  LoopParts' /\ SourcesAccounted'
<1> USE ConstantsAssumption DEF LooperInv, TypeOK, LoopParts, ParkedIsPublished,
        WaitKnown, MutexHeld, SignalUnderWay, SourcesAccounted, Parks
<1>1. ASSUME NEW w \in Waits, EnterWait(w) PROVE LoopParts' /\ SourcesAccounted'
  <2>1. LoopParts'
    BY <1>1 DEF EnterWait, fdVars, parkVars
  <2>2. SourcesAccounted'
    BY <1>1 DEF EnterWait, Ready, fdVars, parkVars
  <2> QED
    BY <2>1, <2>2
<1>2. CASE ArmPending
  <2>1. LoopParts'
    BY <1>2 DEF ArmPending, fdVars
  <2>2. SourcesAccounted'
    BY <1>2 DEF ArmPending, Ready, fdVars
  <2> QED
    BY <2>1, <2>2
<1>3. CASE Arm
  <2>1. LoopParts'
    BY <1>3 DEF Arm, fdVars
  <2>2. SourcesAccounted'
    BY <1>3 DEF Arm, Ready, fdVars
  <2> QED
    BY <2>1, <2>2
<1>4. CASE Sleep
  <2>1. LoopParts'
    BY <1>4 DEF Sleep, fdVars, parkVars
  <2>2. SourcesAccounted'
    BY <1>4 DEF Sleep, Ready, fdVars, parkVars
  <2> QED
    BY <2>1, <2>2
<1>5. CASE SleepSlice
  <2>1. LoopParts'
    BY <1>5 DEF SleepSlice, fdVars, parkVars
  <2>2. SourcesAccounted'
    BY <1>5 DEF SleepSlice, Ready, fdVars, parkVars
  <2> QED
    BY <2>1, <2>2
<1>6. CASE EndSlice
  <2>1. LoopParts'
    BY <1>6 DEF EndSlice, fdVars, parkVars
  <2>2. SourcesAccounted'
    BY <1>6 DEF EndSlice, Ready, fdVars, parkVars
  <2> QED
    BY <2>1, <2>2
<1>7. CASE Notify
  <2>1. LoopParts'
    BY <1>7 DEF Notify, fdVars, parkVars
  <2>2. SourcesAccounted'
    BY <1>7 DEF Notify, Ready, fdVars, parkVars
  <2> QED
    BY <2>1, <2>2
<1>8. CASE TimeOut
  <2>1. LoopParts'
    BY <1>8 DEF TimeOut, fdVars, parkVars
  <2>2. SourcesAccounted'
    BY <1>8 DEF TimeOut, Ready, fdVars, parkVars
  <2> QED
    BY <2>1, <2>2
<1>9. CASE Disarm
  <2>1. LoopParts'
    BY <1>9 DEF Disarm, fdVars
  <2>2. SourcesAccounted'
    BY <1>9 DEF Disarm, Ready, fdVars
  <2> QED
    BY <2>1, <2>2
<1>10. CASE Relock
  <2>1. LoopParts'
    BY <1>10 DEF Relock, fdVars, parkVars
  <2>2. SourcesAccounted'
    BY <1>10 DEF Relock, Ready, fdVars, parkVars
  <2> QED
    BY <2>1, <2>2
<1>11. CASE LeaveWait
  <2>1. LoopParts'
    BY <1>11 DEF LeaveWait, NoWait, fdVars, parkVars
  <2>2. SourcesAccounted'
    BY <1>11 DEF LeaveWait, Ready, NoWait, fdVars, parkVars
  <2> QED
    BY <2>1, <2>2
<1> QED
  BY <1>1, <1>2, <1>3, <1>4, <1>5, <1>6, <1>7, <1>8, <1>9, <1>10, <1>11 DEF WaitStep

(* The polls.                                                              *)
LEMMA PollLooperInv ==
  ASSUME LooperInv, PollStep
  PROVE  LoopParts' /\ SourcesAccounted'
<1> USE ConstantsAssumption DEF LooperInv, TypeOK, LoopParts, ParkedIsPublished,
        WaitKnown, MutexHeld, SignalUnderWay, SourcesAccounted, Parks
<1>1. CASE EnterIdle
  <2>1. LoopParts'
    BY <1>1 DEF EnterIdle, fdVars, parkVars
  <2>2. SourcesAccounted'
    BY <1>1 DEF EnterIdle, Ready, fdVars, parkVars
  <2> QED
    BY <2>1, <2>2
<1>2. CASE Interrupted
  <2>1. LoopParts'
    BY <1>2 DEF Interrupted, fdVars, parkVars
  <2>2. SourcesAccounted'
    BY <1>2 DEF Interrupted, Ready, fdVars, parkVars
  <2> QED
    BY <2>1, <2>2
<1>3. CASE EndPoll
  <2>1. LoopParts'
    BY <1>3 DEF EndPoll, Context, fdVars, parkVars
  <2>2. SourcesAccounted'
    BY <1>3 DEF EndPoll, Ready, Context, fdVars, parkVars
  <2> QED
    BY <2>1, <2>2
<1>4. ASSUME NEW s \in Sources, TakeEvent(s) PROVE LoopParts' /\ SourcesAccounted'
  <2>1. LoopParts'
    BY <1>4 DEF TakeEvent, parkVars
  <2>2. SourcesAccounted'
    BY <1>4 DEF TakeEvent, Ready, parkVars
  <2> QED
    BY <2>1, <2>2
<1>5. CASE DrainWake
  <2>1. LoopParts'
    BY <1>5 DEF DrainWake, parkVars
  <2>2. SourcesAccounted'
    BY <1>5 DEF DrainWake, Ready, parkVars
  <2> QED
    BY <2>1, <2>2
<1>6. CASE RunCallback
  <2>1. LoopParts'
    BY <1>6 DEF RunCallback, NoWait, parkVars
  <2>2. SourcesAccounted'
    BY <1>6 DEF RunCallback, Ready, NoWait, parkVars
  <2> QED
    BY <2>1, <2>2
<1>7. CASE IgnoreEvent
  <2>1. LoopParts'
    BY <1>7 DEF IgnoreEvent, fdVars, parkVars
  <2>2. SourcesAccounted'
    BY <1>7 DEF IgnoreEvent, Ready, fdVars, parkVars
  <2> QED
    BY <2>1, <2>2
<1>8. CASE ReturnCallback
  <2>1. LoopParts'
    BY <1>8 DEF ReturnCallback, fdVars, parkVars
  <2>2. SourcesAccounted'
    BY <1>8 DEF ReturnCallback, Ready, fdVars, parkVars
  <2> QED
    BY <2>1, <2>2
<1> QED
  BY <1>1, <1>2, <1>3, <1>4, <1>5, <1>6, <1>7, <1>8 DEF PollStep

(* A step that changes nothing keeps the invariant.                        *)
LEMMA StutterLooperInv == LooperInv /\ UNCHANGED vars => LoopParts' /\ SourcesAccounted'
  BY DEF LooperInv, LoopParts, ParkedIsPublished, WaitKnown, MutexHeld,
         SignalUnderWay, SourcesAccounted, Parks, Ready, vars, fdVars, parkVars,
         ownerVars

(* The strengthening that makes NoLostWakeup inductive always holds.       *)
LEMMA LooperInvariant == Spec => []LooperInv
<1>1. LooperInv /\ [Next]_vars => LooperInv'
  <2> SUFFICES ASSUME LooperInv, [Next]_vars PROVE LooperInv'
    OBVIOUS
  <2>1. TypeOK'
    BY EnvironmentTypeOK, WaitTypeOK, PollTypeOK, StutterTypeOK DEF Next, LooperInv
  <2>2. LoopParts' /\ SourcesAccounted'
    BY EnvironmentLooperInv, WakerLooperInv, SignalLooperInv, WaitLooperInv,
       PollLooperInv, StutterLooperInv DEF Next
  <2> QED
    BY <2>1, <2>2 DEF LooperInv, LoopParts
<1> QED
  BY InitLooperInv, <1>1, PTL DEF Spec

(* The owner never sleeps in a condition wait over a ready source it has   *)
(* not been told of, unless a wake-up is on its way.                       *)
THEOREM NoWakeupIsLost == Spec => []NoLostWakeup
<1>1. LooperInv => NoLostWakeup
  BY DEF LooperInv, NoLostWakeup, WakeUpOnItsWay, SourcesAccounted, SignalUnderWay, Parks
<1> QED
  BY LooperInvariant, <1>1, PTL
=============================================================================
