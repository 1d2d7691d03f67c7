-------------------------- MODULE AudioStreamProofs --------------------------
(***************************************************************************)
(* Proofs about AudioStream, for any buffers and any capacity: its storage *)
(* is bounded, no signal is lost but in the window of CloseIdle, a stopped *)
(* stream gives the host's stream up, and the stream is a BufferQueue.     *)
(***************************************************************************)
EXTENDS AudioStream, TLAPS

(* The steps at which the worker holds a node.                             *)
Transferring == {"pace", "lockpace", "pacing", "gate", "decide", "open",
                 "check", "uncloses", "connect", "transfer", "recheck", "finish"}

(* Where the worker is agrees with the node, its generation and its result.*)
NodeAgrees ==
    /\ inflight # NoBuffer <=> at \in Transferring
    /\ stale => HasNode
    /\ cut => inflight # NoBuffer
    /\ inflight # NoBuffer /\ ~stale /\ ~Active => cut
    /\ rc # "ok" => at = "finish"
    /\ rc = "skipped" => stale \/ cut
    /\ at \in {"pace", "pacing", "lockpace"} => Recorder
    /\ door = "worker" => at = "open"
    /\ at \in {"open", "check", "uncloses", "connect"} => host = "closed"

(* What is left of the queue once a destroy has begun.                     *)
LifeAgrees ==
    /\ life = "none" => at \in {"none", "gone"}
    /\ at \in {"exit", "gone"} => life \in {"destroying", "none"}
    /\ at = "none" => life = "none"
    /\ life \in {"destroying", "none"} => queue = <<>>
    /\ destroying /\ HasNode => stale
    /\ door = "creator" => life = "creating"

(* Nothing is left to do on the way to the wait, and a request that was    *)
(* made is kept until it is served or forgotten.                           *)
RequestsKept ==
    /\ at = "closing" /\ ~missed =>
           ~destroying /\ ~close_requested /\ (~Active \/ queue = <<>>)
    /\ missed => at \in {"closing", "asleep"}
    /\ at = "asleep" /\ missed => host = "closed"
    /\ forgotten => state = "stopped"
    /\ at \in Transferring \ {"connect", "transfer", "recheck", "finish"} =>
           ~forgotten
    /\ state = "stopped" /\ ~forgotten /\ (host = "open" \/ inflight # NoBuffer) =>
           close_requested \/ at \in {"closing", "exit", "gone"}

(* The inductive invariant.                                                *)
AudioInv ==
    /\ AudioTypeOK /\ StorageBounded /\ NoLostWakeup
    /\ NodeAgrees /\ LifeAgrees /\ RequestsKept

-----------------------------------------------------------------------------
(* Lengths of the queues that the actions build.                           *)
LEMMA QueueFacts ==
  ASSUME NEW q \in Seq(Buffers)
  PROVE  /\ Len(q) \in Nat
         /\ q = <<>> <=> Len(q) = 0
         /\ \A b \in Buffers : /\ Append(q, b) \in Seq(Buffers)
                                /\ Len(Append(q, b)) = Len(q) + 1
                                /\ <<b>> \o q \in Seq(Buffers)
                                /\ Len(<<b>> \o q) = Len(q) + 1
         /\ q # <<>> => /\ Head(q) \in Buffers /\ Tail(q) \in Seq(Buffers)
                        /\ Len(Tail(q)) = Len(q) - 1
OBVIOUS

LEMMA EmptyQueue == <<>> \in Seq(Buffers) /\ Len(<<>>) = 0
OBVIOUS

(* No stream exists yet.                                                   *)
LEMMA InitHolds == Init => AudioInv
<1> SUFFICES ASSUME Init PROVE AudioInv
  OBVIOUS
<1>1. AudioTypeOK
  BY EmptyQueue DEF Init, AudioTypeOK, ObjectType, QueueType, WorkerType,
     GateType, Refreshers
<1>2. StorageBounded
  BY AudioAssumption, EmptyQueue DEF Init, StorageBounded
<1>3. NoLostWakeup /\ NodeAgrees /\ LifeAgrees /\ RequestsKept
  BY DEF Init, NoLostWakeup, NodeAgrees, LifeAgrees, RequestsKept,
     Transferring, HasNode, destroying, Active, Valid, Recorder
<1> QED
  BY <1>1, <1>2, <1>3 DEF AudioInv

(* The object keeps its type.                                              *)
LEMMA ObjectKept == AudioInv /\ [Next]_vars => ObjectType'
<1> SUFFICES ASSUME AudioInv, [Next]_vars PROVE ObjectType'
  OBVIOUS
<1> USE AudioAssumption DEF AudioInv, AudioTypeOK, ObjectType, objectVars,
        fieldVars, queueVars, nodeVars, signalVars, hostVars, gateVars,
        doorVars, Broadcast, Waiting
<1>1. ASSUME NEW p \in Refreshers, Refresh(p) PROVE ObjectType'
  BY <1>1 DEF Refresh, Calls, Refreshed
<1>2. ASSUME NEW p \in Refreshers, Sweep(p) PROVE ObjectType'
  BY <1>2 DEF Sweep, CloseSweep, Refreshed, Registered
<1>3. CASE WatchTick \/ Save \/ EnsureWatcher
  BY <1>3 DEF WatchTick, IfRecorders, Save, EnsureWatcher
<1>4. CASE ResetDeadlines
  BY <1>4 DEF ResetDeadlines, Registered
<1>5. ASSUME NEW m \in BOOLEAN, SetMuted(m) PROVE ObjectType'
  BY <1>5 DEF SetMuted
<1>6. ASSUME NEW k \in Kinds, Create(k) PROVE ObjectType'
  BY <1>6 DEF Create, Go
<1>7. ASSUME NEW b \in Callbacks, RegisterCallback(b) PROVE ObjectType'
  BY <1>7 DEF RegisterCallback
<1>8. ASSUME NEW b \in Buffers, Enqueue(b) PROVE ObjectType'
  BY <1>8 DEF Enqueue, TakeNode, Usable
<1>9. CASE Clear
  BY <1>9 DEF Clear, NewGeneration, FreePending, Usable
<1>10. ASSUME NEW st \in States, SetState(st) PROVE ObjectType'
  BY <1>10 DEF SetState, RequestClose, Usable
<1>11. ASSUME NEW t \in {"client", "worker"}, Unregister(t) PROVE ObjectType'
  BY <1>11 DEF Unregister
<1>12. CASE Destroy
  BY <1>12 DEF Destroy, NewGeneration, FreePending
<1>13. CASE Join
  BY <1>13 DEF Join
<1>14. CASE Dequeue
  BY <1>14 DEF Dequeue, Go
<1>15. CASE Idle
  BY <1>15 DEF Idle, Go
<1>16. CASE CloseIdle
  BY <1>16 DEF CloseIdle, Go
<1>17. CASE Wake
  BY <1>17 DEF Wake, Go
<1>18. CASE Pace
  BY <1>18 DEF Pace, Go
<1>19. CASE Arm
  BY <1>19 DEF Arm, AfterPace, Go
<1>20. ASSUME NEW timeout \in BOOLEAN, Paced(timeout) PROVE ObjectType'
  BY <1>20 DEF Paced, AfterPace, Go
<1>21. CASE Gate \/ Decide \/ Check \/ Recheck
  BY <1>21 DEF Gate, Decide, Check, Recheck, Result, TransferFrame, Go
<1>22. CASE ForgetClose
  BY <1>22 DEF ForgetClose, Go
<1>23. ASSUME NEW ok \in BOOLEAN, Connect(ok) \/ Transfer(ok) PROVE ObjectType'
  BY <1>23 DEF Connect, Transfer, Result, TransferFrame, Go
<1>24. CASE Requeue
  BY <1>24 DEF Requeue, Go
<1>25. ASSUME NEW timeout \in BOOLEAN, Retried(timeout) PROVE ObjectType'
  BY <1>25 DEF Retried, Go
<1>26. CASE Complete
  BY <1>26 DEF Complete, Go
<1>27. CASE CallbackReturns
  BY <1>27 DEF CallbackReturns, Go
<1>28. CASE Exit
  BY <1>28 DEF Exit, Go
<1>29. CASE UNCHANGED vars
  BY <1>29 DEF vars
<1> QED BY <1>1, <1>2, <1>3, <1>4, <1>5, <1>6, <1>7, <1>8, <1>9, <1>10, <1>11,
     <1>12, <1>13, <1>14, <1>15, <1>16, <1>17, <1>18, <1>19, <1>20, <1>21,
     <1>22, <1>23, <1>24, <1>25, <1>26, <1>27, <1>28, <1>29
        DEF Next, Door, Mute, Client, Worker

(* So does its queue,                                                      *)
LEMMA QueueKept == AudioInv /\ [Next]_vars => QueueType'
<1> SUFFICES ASSUME AudioInv, [Next]_vars PROVE QueueType'
  OBVIOUS
<1> USE AudioAssumption DEF AudioInv, AudioTypeOK, QueueType, objectVars,
        fieldVars, queueVars, nodeVars, signalVars, hostVars, gateVars,
        doorVars, Broadcast, Waiting
<1>1. ASSUME NEW p \in Refreshers, Refresh(p) PROVE QueueType'
  BY <1>1 DEF Refresh, Calls, Refreshed
<1>2. ASSUME NEW p \in Refreshers, Sweep(p) PROVE QueueType'
  BY <1>2 DEF Sweep, CloseSweep, Refreshed, Registered
<1>3. CASE WatchTick \/ Save \/ EnsureWatcher
  BY <1>3 DEF WatchTick, IfRecorders, Save, EnsureWatcher
<1>4. CASE ResetDeadlines
  BY <1>4 DEF ResetDeadlines, Registered
<1>5. ASSUME NEW m \in BOOLEAN, SetMuted(m) PROVE QueueType'
  BY <1>5 DEF SetMuted
<1>6. ASSUME NEW k \in Kinds, Create(k) PROVE QueueType'
  <2>1. queue' = <<>> /\ <<>> \in Seq(Buffers)
    BY <1>6, EmptyQueue DEF Create
  <2> QED
    BY <1>6, <2>1 DEF Create
<1>7. ASSUME NEW b \in Callbacks, RegisterCallback(b) PROVE QueueType'
  BY <1>7 DEF RegisterCallback
<1>8. ASSUME NEW b \in Buffers, Enqueue(b) PROVE QueueType'
  BY <1>8, QueueFacts DEF Enqueue, TakeNode, Usable
<1>9. CASE Clear
  <2>1. stale' \in BOOLEAN
    BY <1>9, Zenon DEF Clear, NewGeneration, HasNode
  <2> QED
    BY <1>9, <2>1, QueueFacts, EmptyQueue DEF Clear, FreePending
<1>10. ASSUME NEW st \in States, SetState(st) PROVE QueueType'
  BY <1>10 DEF SetState, RequestClose, Usable
<1>11. ASSUME NEW t \in {"client", "worker"}, Unregister(t) PROVE QueueType'
  BY <1>11 DEF Unregister
<1>12. CASE Destroy
  <2>1. stale' \in BOOLEAN
    BY <1>12, Zenon DEF Destroy, NewGeneration, HasNode
  <2> QED
    BY <1>12, <2>1, QueueFacts, EmptyQueue DEF Destroy, FreePending
<1>13. CASE Join
  BY <1>13 DEF Join
<1>14. CASE Dequeue
  BY <1>14, QueueFacts DEF Dequeue, Go
<1>15. CASE Idle
  BY <1>15 DEF Idle, Go
<1>16. CASE CloseIdle
  BY <1>16 DEF CloseIdle, Go
<1>17. CASE Wake
  BY <1>17 DEF Wake, Go
<1>18. CASE Pace
  BY <1>18 DEF Pace, Go
<1>19. CASE Arm
  BY <1>19 DEF Arm, AfterPace, Go
<1>20. ASSUME NEW timeout \in BOOLEAN, Paced(timeout) PROVE QueueType'
  BY <1>20 DEF Paced, AfterPace, Go
<1>21. CASE Gate \/ Decide \/ Check \/ Recheck
  BY <1>21 DEF Gate, Decide, Check, Recheck, Result, TransferFrame, Go
<1>22. CASE ForgetClose
  BY <1>22 DEF ForgetClose, Go
<1>23. ASSUME NEW ok \in BOOLEAN, Connect(ok) \/ Transfer(ok) PROVE QueueType'
  BY <1>23 DEF Connect, Transfer, Result, TransferFrame, Go
<1>24. CASE Requeue
  <2>1. inflight \in Buffers
    BY <1>24 DEF Requeue, NodeAgrees, Transferring
  <2>2. queue' \in Seq(Buffers)
    BY <1>24, <2>1, QueueFacts DEF Requeue
  <2> QED
    BY <1>24, <2>2 DEF Requeue
<1>25. ASSUME NEW timeout \in BOOLEAN, Retried(timeout) PROVE QueueType'
  BY <1>25 DEF Retried, Go
<1>26. CASE Complete
  <2>1. queue_count' \in Nat /\ free' \in Nat
    BY <1>26 DEF Complete
  <2>2. queue_index' \in {0, 1}
    BY <1>26 DEF Complete
  <2> QED
    BY <1>26, <2>1, <2>2 DEF Complete
<1>27. CASE CallbackReturns
  BY <1>27 DEF CallbackReturns, Go
<1>28. CASE Exit
  BY <1>28 DEF Exit, Go
<1>29. CASE UNCHANGED vars
  BY <1>29 DEF vars
<1> QED BY <1>1, <1>2, <1>3, <1>4, <1>5, <1>6, <1>7, <1>8, <1>9, <1>10, <1>11,
     <1>12, <1>13, <1>14, <1>15, <1>16, <1>17, <1>18, <1>19, <1>20, <1>21,
     <1>22, <1>23, <1>24, <1>25, <1>26, <1>27, <1>28, <1>29
        DEF Next, Door, Mute, Client, Worker

(* its worker,                                                             *)
LEMMA WorkerKept == AudioInv /\ [Next]_vars => WorkerType'
<1> SUFFICES ASSUME AudioInv, [Next]_vars PROVE WorkerType'
  OBVIOUS
<1> USE AudioAssumption DEF AudioInv, AudioTypeOK, WorkerType, objectVars,
        fieldVars, queueVars, nodeVars, signalVars, hostVars, gateVars,
        doorVars, Broadcast, Waiting
<1>1. ASSUME NEW p \in Refreshers, Refresh(p) PROVE WorkerType'
  BY <1>1 DEF Refresh, Calls, Refreshed
<1>2. ASSUME NEW p \in Refreshers, Sweep(p) PROVE WorkerType'
  BY <1>2 DEF Sweep, CloseSweep, Refreshed, Registered
<1>3. CASE WatchTick \/ Save \/ EnsureWatcher
  BY <1>3 DEF WatchTick, IfRecorders, Save, EnsureWatcher
<1>4. CASE ResetDeadlines
  BY <1>4 DEF ResetDeadlines, Registered
<1>5. ASSUME NEW m \in BOOLEAN, SetMuted(m) PROVE WorkerType'
  BY <1>5 DEF SetMuted
<1>6. ASSUME NEW k \in Kinds, Create(k) PROVE WorkerType'
  BY <1>6 DEF Create, Go
<1>7. ASSUME NEW b \in Callbacks, RegisterCallback(b) PROVE WorkerType'
  BY <1>7 DEF RegisterCallback
<1>8. ASSUME NEW b \in Buffers, Enqueue(b) PROVE WorkerType'
  BY <1>8 DEF Enqueue, TakeNode, Usable
<1>9. CASE Clear
  BY <1>9 DEF Clear, NewGeneration, FreePending, Usable
<1>10. ASSUME NEW st \in States, SetState(st) PROVE WorkerType'
  BY <1>10 DEF SetState, RequestClose, Usable
<1>11. ASSUME NEW t \in {"client", "worker"}, Unregister(t) PROVE WorkerType'
  BY <1>11 DEF Unregister
<1>12. CASE Destroy
  BY <1>12 DEF Destroy, NewGeneration, FreePending
<1>13. CASE Join
  BY <1>13 DEF Join
<1>14. CASE Dequeue
  BY <1>14 DEF Dequeue, Go
<1>15. CASE Idle
  BY <1>15 DEF Idle, Go
<1>16. CASE CloseIdle
  BY <1>16 DEF CloseIdle, Go
<1>17. CASE Wake
  BY <1>17 DEF Wake, Go
<1>18. CASE Pace
  BY <1>18 DEF Pace, Go
<1>19. CASE Arm
  BY <1>19 DEF Arm, AfterPace, Go
<1>20. ASSUME NEW timeout \in BOOLEAN, Paced(timeout) PROVE WorkerType'
  BY <1>20 DEF Paced, AfterPace, Go
<1>21. CASE Gate \/ Decide \/ Check \/ Recheck
  BY <1>21 DEF Gate, Decide, Check, Recheck, Result, TransferFrame, Go
<1>22. CASE ForgetClose
  BY <1>22 DEF ForgetClose, Go
<1>23. ASSUME NEW ok \in BOOLEAN, Connect(ok) \/ Transfer(ok) PROVE WorkerType'
  BY <1>23 DEF Connect, Transfer, Result, TransferFrame, Go
<1>24. CASE Requeue
  BY <1>24 DEF Requeue, Go
<1>25. ASSUME NEW timeout \in BOOLEAN, Retried(timeout) PROVE WorkerType'
  BY <1>25 DEF Retried, Go
<1>26. CASE Complete
  BY <1>26 DEF Complete, Go
<1>27. CASE CallbackReturns
  BY <1>27 DEF CallbackReturns, Go
<1>28. CASE Exit
  BY <1>28 DEF Exit, Go
<1>29. CASE UNCHANGED vars
  BY <1>29 DEF vars
<1> QED BY <1>1, <1>2, <1>3, <1>4, <1>5, <1>6, <1>7, <1>8, <1>9, <1>10, <1>11,
     <1>12, <1>13, <1>14, <1>15, <1>16, <1>17, <1>18, <1>19, <1>20, <1>21,
     <1>22, <1>23, <1>24, <1>25, <1>26, <1>27, <1>28, <1>29
        DEF Next, Door, Mute, Client, Worker

(* and the gates.                                                          *)
LEMMA GateKept == AudioInv /\ [Next]_vars => GateType'
<1> SUFFICES ASSUME AudioInv, [Next]_vars PROVE GateType'
  OBVIOUS
<1> USE AudioAssumption DEF AudioInv, AudioTypeOK, GateType, Refreshers,
        objectVars, fieldVars, queueVars, nodeVars, signalVars, hostVars,
        gateVars, doorVars, Broadcast, Waiting
<1>1. ASSUME NEW p \in Refreshers, Refresh(p) PROVE GateType'
  BY <1>1 DEF Refresh, Calls, Refreshed
<1>2. ASSUME NEW p \in Refreshers, Sweep(p) PROVE GateType'
  BY <1>2 DEF Sweep, CloseSweep, Refreshed, Registered
<1>3. CASE WatchTick \/ Save \/ EnsureWatcher
  BY <1>3 DEF WatchTick, IfRecorders, Save, EnsureWatcher
<1>4. CASE ResetDeadlines
  BY <1>4 DEF ResetDeadlines, Registered
<1>5. ASSUME NEW m \in BOOLEAN, SetMuted(m) PROVE GateType'
  BY <1>5 DEF SetMuted
<1>6. ASSUME NEW k \in Kinds, Create(k) PROVE GateType'
  BY <1>6 DEF Create, Go
<1>7. ASSUME NEW b \in Callbacks, RegisterCallback(b) PROVE GateType'
  BY <1>7 DEF RegisterCallback
<1>8. ASSUME NEW b \in Buffers, Enqueue(b) PROVE GateType'
  BY <1>8 DEF Enqueue, TakeNode, Usable
<1>9. CASE Clear
  BY <1>9 DEF Clear, NewGeneration, FreePending, Usable
<1>10. ASSUME NEW st \in States, SetState(st) PROVE GateType'
  BY <1>10 DEF SetState, RequestClose, Usable
<1>11. ASSUME NEW t \in {"client", "worker"}, Unregister(t) PROVE GateType'
  BY <1>11 DEF Unregister
<1>12. CASE Destroy
  BY <1>12 DEF Destroy, NewGeneration, FreePending
<1>13. CASE Join
  BY <1>13 DEF Join
<1>14. CASE Dequeue
  BY <1>14 DEF Dequeue, Go
<1>15. CASE Idle
  BY <1>15 DEF Idle, Go
<1>16. CASE CloseIdle
  BY <1>16 DEF CloseIdle, Go
<1>17. CASE Wake
  BY <1>17 DEF Wake, Go
<1>18. CASE Pace
  BY <1>18 DEF Pace, Go
<1>19. CASE Arm
  BY <1>19 DEF Arm, AfterPace, Go
<1>20. ASSUME NEW timeout \in BOOLEAN, Paced(timeout) PROVE GateType'
  BY <1>20 DEF Paced, AfterPace, Go
<1>21. CASE Gate \/ Decide \/ Check \/ Recheck
  BY <1>21 DEF Gate, Decide, Check, Recheck, Result, TransferFrame, Go
<1>22. CASE ForgetClose
  BY <1>22 DEF ForgetClose, Go
<1>23. ASSUME NEW ok \in BOOLEAN, Connect(ok) \/ Transfer(ok) PROVE GateType'
  BY <1>23 DEF Connect, Transfer, Result, TransferFrame, Go
<1>24. CASE Requeue
  BY <1>24 DEF Requeue, Go
<1>25. ASSUME NEW timeout \in BOOLEAN, Retried(timeout) PROVE GateType'
  BY <1>25 DEF Retried, Go
<1>26. CASE Complete
  BY <1>26 DEF Complete, Go
<1>27. CASE CallbackReturns
  BY <1>27 DEF CallbackReturns, Go
<1>28. CASE Exit
  BY <1>28 DEF Exit, Go
<1>29. CASE UNCHANGED vars
  BY <1>29 DEF vars
<1> QED BY <1>1, <1>2, <1>3, <1>4, <1>5, <1>6, <1>7, <1>8, <1>9, <1>10, <1>11,
     <1>12, <1>13, <1>14, <1>15, <1>16, <1>17, <1>18, <1>19, <1>20, <1>21,
     <1>22, <1>23, <1>24, <1>25, <1>26, <1>27, <1>28, <1>29
        DEF Next, Door, Mute, Client, Worker

(* The nodes stay counted and bounded.                                     *)
LEMMA StorageKept == AudioInv /\ [Next]_vars => StorageBounded'
<1> SUFFICES ASSUME AudioInv, [Next]_vars PROVE StorageBounded'
  OBVIOUS
<1> USE AudioAssumption DEF AudioInv, AudioTypeOK, QueueType, StorageBounded,
        LifeAgrees, NodeAgrees, Transferring, objectVars, fieldVars, queueVars,
        nodeVars, signalVars, hostVars, gateVars, doorVars, Broadcast, Waiting
<1>1. ASSUME NEW p \in Refreshers, Refresh(p) PROVE StorageBounded'
  BY <1>1 DEF Refresh, Calls, Refreshed
<1>2. ASSUME NEW p \in Refreshers, Sweep(p) PROVE StorageBounded'
  BY <1>2 DEF Sweep, CloseSweep, Refreshed, Registered
<1>3. CASE WatchTick \/ Save \/ EnsureWatcher
  BY <1>3 DEF WatchTick, IfRecorders, Save, EnsureWatcher
<1>4. CASE ResetDeadlines
  BY <1>4 DEF ResetDeadlines, Registered
<1>5. ASSUME NEW m \in BOOLEAN, SetMuted(m) PROVE StorageBounded'
  BY <1>5 DEF SetMuted
<1>6. ASSUME NEW k \in Kinds, Create(k) PROVE StorageBounded'
  BY <1>6, QueueFacts DEF Create, Go
<1>7. ASSUME NEW b \in Callbacks, RegisterCallback(b) PROVE StorageBounded'
  BY <1>7 DEF RegisterCallback
<1>8. ASSUME NEW b \in Buffers, Enqueue(b) PROVE StorageBounded'
  <2>1. Len(queue') = Len(queue) + 1
    BY <1>8, QueueFacts DEF Enqueue
  <2>2. queue_count' = queue_count + 1 /\ inflight' = inflight
    BY <1>8 DEF Enqueue
  <2>3. queue_count < Capacity /\ free' = (IF free > 0 THEN free - 1 ELSE 0)
    BY <1>8 DEF Enqueue, TakeNode
  <2>4. queue_count \in Nat /\ free \in Nat /\ queue_count + free <= Capacity
    OBVIOUS
  <2>5. Len(queue) \in Nat
    BY QueueFacts
  <2>6. queue_count' = Len(queue') + (IF inflight' = NoBuffer THEN 0 ELSE 1)
    BY <2>1, <2>2, <2>5
  <2>7. queue_count' + free' <= Capacity
    <3>1. CASE free > 0
      BY <3>1, <2>2, <2>3, <2>4
    <3>2. CASE free = 0
      BY <3>2, <2>2, <2>3, <2>4
    <3> QED
      BY <2>4, <3>1, <3>2
  <2> QED
    BY <2>6, <2>7
<1>9. CASE Clear
  BY <1>9, QueueFacts DEF Clear, NewGeneration, FreePending, Usable
<1>10. ASSUME NEW st \in States, SetState(st) PROVE StorageBounded'
  BY <1>10 DEF SetState, RequestClose, Usable
<1>11. ASSUME NEW t \in {"client", "worker"}, Unregister(t) PROVE StorageBounded'
  BY <1>11 DEF Unregister
<1>12. CASE Destroy
  BY <1>12, QueueFacts DEF Destroy, NewGeneration, FreePending
<1>13. CASE Join
  BY <1>13 DEF Join
<1>14. CASE Dequeue
  BY <1>14, QueueFacts DEF Dequeue, Go
<1>15. CASE Idle
  BY <1>15 DEF Idle, Go
<1>16. CASE CloseIdle
  BY <1>16 DEF CloseIdle, Go
<1>17. CASE Wake
  BY <1>17 DEF Wake, Go
<1>18. CASE Pace
  BY <1>18 DEF Pace, Go
<1>19. CASE Arm
  BY <1>19 DEF Arm, AfterPace, Go
<1>20. ASSUME NEW timeout \in BOOLEAN, Paced(timeout) PROVE StorageBounded'
  BY <1>20 DEF Paced, AfterPace, Go
<1>21. CASE Gate \/ Decide \/ Check \/ Recheck
  BY <1>21 DEF Gate, Decide, Check, Recheck, Result, TransferFrame, Go
<1>22. CASE ForgetClose
  BY <1>22 DEF ForgetClose, Go
<1>23. ASSUME NEW ok \in BOOLEAN, Connect(ok) \/ Transfer(ok) PROVE StorageBounded'
  BY <1>23 DEF Connect, Transfer, Result, TransferFrame, Go
<1>24. CASE Requeue
  BY <1>24, QueueFacts DEF Requeue, Go
<1>25. ASSUME NEW timeout \in BOOLEAN, Retried(timeout) PROVE StorageBounded'
  BY <1>25 DEF Retried, Go
<1>26. CASE Complete
  <2>1. inflight /= NoBuffer /\ inflight' = NoBuffer
    BY <1>26 DEF Complete
  <2>2. queue_count > 0 /\ queue_count' = queue_count - 1 /\ free' = free + 1
    BY <1>26, <2>1, QueueFacts DEF Complete
  <2> QED
    BY <1>26, <2>1, <2>2, QueueFacts DEF Complete
<1>27. CASE CallbackReturns
  BY <1>27 DEF CallbackReturns, Go
<1>28. CASE Exit
  BY <1>28 DEF Exit, Go
<1>29. CASE UNCHANGED vars
  BY <1>29 DEF vars
<1> QED BY <1>1, <1>2, <1>3, <1>4, <1>5, <1>6, <1>7, <1>8, <1>9, <1>10, <1>11,
     <1>12, <1>13, <1>14, <1>15, <1>16, <1>17, <1>18, <1>19, <1>20, <1>21,
     <1>22, <1>23, <1>24, <1>25, <1>26, <1>27, <1>28, <1>29
        DEF Next, Door, Mute, Client, Worker

(* The worker and its node agree.                                          *)
LEMMA NodeKept == AudioInv /\ [Next]_vars => NodeAgrees'
<1> SUFFICES ASSUME AudioInv, [Next]_vars PROVE NodeAgrees'
  OBVIOUS
<1> USE AudioAssumption DEF AudioInv, AudioTypeOK, ObjectType, QueueType,
        WorkerType, NodeAgrees, LifeAgrees, Transferring, HasNode, Valid,
        Active, destroying, Recorder, objectVars, fieldVars, queueVars,
        nodeVars, signalVars, hostVars, gateVars, doorVars, Broadcast, Waiting
<1>1. ASSUME NEW p \in Refreshers, Refresh(p) PROVE NodeAgrees'
  BY <1>1 DEF Refresh, Calls, Refreshed
<1>2. ASSUME NEW p \in Refreshers, Sweep(p) PROVE NodeAgrees'
  BY <1>2 DEF Sweep, CloseSweep, Refreshed, Registered
<1>3. CASE WatchTick \/ Save \/ EnsureWatcher
  BY <1>3 DEF WatchTick, IfRecorders, Save, EnsureWatcher
<1>4. CASE ResetDeadlines
  BY <1>4 DEF ResetDeadlines, Registered
<1>5. ASSUME NEW m \in BOOLEAN, SetMuted(m) PROVE NodeAgrees'
  BY <1>5 DEF SetMuted
<1>6. ASSUME NEW k \in Kinds, Create(k) PROVE NodeAgrees'
  BY <1>6 DEF Create, Go
<1>7. ASSUME NEW b \in Callbacks, RegisterCallback(b) PROVE NodeAgrees'
  BY <1>7 DEF RegisterCallback
<1>8. ASSUME NEW b \in Buffers, Enqueue(b) PROVE NodeAgrees'
  BY <1>8 DEF Enqueue, TakeNode, Usable
<1>9. CASE Clear
  BY <1>9 DEF Clear, NewGeneration, FreePending, Usable
<1>10. ASSUME NEW st \in States, SetState(st) PROVE NodeAgrees'
  BY <1>10 DEF SetState, RequestClose, Usable
<1>11. ASSUME NEW t \in {"client", "worker"}, Unregister(t) PROVE NodeAgrees'
  BY <1>11 DEF Unregister
<1>12. CASE Destroy
  BY <1>12 DEF Destroy, NewGeneration, FreePending
<1>13. CASE Join
  BY <1>13 DEF Join
<1>14. CASE Dequeue
  BY <1>14 DEF Dequeue, Go
<1>15. CASE Idle
  BY <1>15 DEF Idle, Go
<1>16. CASE CloseIdle
  BY <1>16 DEF CloseIdle, Go
<1>17. CASE Wake
  BY <1>17 DEF Wake, Go
<1>18. CASE Pace
  BY <1>18 DEF Pace, Go
<1>19. CASE Arm
  BY <1>19 DEF Arm, AfterPace, Go
<1>20. ASSUME NEW timeout \in BOOLEAN, Paced(timeout) PROVE NodeAgrees'
  BY <1>20 DEF Paced, AfterPace, Go
<1>21. CASE Gate \/ Decide \/ Check \/ Recheck
  BY <1>21 DEF Gate, Decide, Check, Recheck, Result, TransferFrame, Go
<1>22. CASE ForgetClose
  BY <1>22 DEF ForgetClose, Go
<1>23. ASSUME NEW ok \in BOOLEAN, Connect(ok) \/ Transfer(ok) PROVE NodeAgrees'
  BY <1>23 DEF Connect, Transfer, Result, TransferFrame, Go
<1>24. CASE Requeue
  BY <1>24 DEF Requeue, Go
<1>25. ASSUME NEW timeout \in BOOLEAN, Retried(timeout) PROVE NodeAgrees'
  BY <1>25 DEF Retried, Go
<1>26. CASE Complete
  BY <1>26 DEF Complete, Go
<1>27. CASE CallbackReturns
  BY <1>27 DEF CallbackReturns, Go
<1>28. CASE Exit
  BY <1>28 DEF Exit, Go
<1>29. CASE UNCHANGED vars
  BY <1>29 DEF vars
<1> QED BY <1>1, <1>2, <1>3, <1>4, <1>5, <1>6, <1>7, <1>8, <1>9, <1>10, <1>11,
     <1>12, <1>13, <1>14, <1>15, <1>16, <1>17, <1>18, <1>19, <1>20, <1>21,
     <1>22, <1>23, <1>24, <1>25, <1>26, <1>27, <1>28, <1>29
        DEF Next, Door, Mute, Client, Worker

(* The object's life and its queue agree.                                  *)
LEMMA LifeKept == AudioInv /\ [Next]_vars => LifeAgrees'
<1> SUFFICES ASSUME AudioInv, [Next]_vars PROVE LifeAgrees'
  OBVIOUS
<1> USE AudioAssumption DEF AudioInv, AudioTypeOK, QueueType, WorkerType,
        ObjectType, NodeAgrees, LifeAgrees, Transferring, HasNode, destroying,
        objectVars, fieldVars, queueVars, nodeVars, signalVars, hostVars,
        gateVars, doorVars, Broadcast, Waiting
<1>1. ASSUME NEW p \in Refreshers, Refresh(p) PROVE LifeAgrees'
  BY <1>1 DEF Refresh, Calls, Refreshed
<1>2. ASSUME NEW p \in Refreshers, Sweep(p) PROVE LifeAgrees'
  BY <1>2 DEF Sweep, CloseSweep, Refreshed, Registered
<1>3. CASE WatchTick \/ Save \/ EnsureWatcher
  BY <1>3 DEF WatchTick, IfRecorders, Save, EnsureWatcher
<1>4. CASE ResetDeadlines
  BY <1>4 DEF ResetDeadlines, Registered
<1>5. ASSUME NEW m \in BOOLEAN, SetMuted(m) PROVE LifeAgrees'
  BY <1>5 DEF SetMuted
<1>6. ASSUME NEW k \in Kinds, Create(k) PROVE LifeAgrees'
  BY <1>6 DEF Create, Go
<1>7. ASSUME NEW b \in Callbacks, RegisterCallback(b) PROVE LifeAgrees'
  BY <1>7 DEF RegisterCallback
<1>8. ASSUME NEW b \in Buffers, Enqueue(b) PROVE LifeAgrees'
  BY <1>8 DEF Enqueue, TakeNode, Usable
<1>9. CASE Clear
  BY <1>9 DEF Clear, NewGeneration, FreePending, Usable
<1>10. ASSUME NEW st \in States, SetState(st) PROVE LifeAgrees'
  BY <1>10 DEF SetState, RequestClose, Usable
<1>11. ASSUME NEW t \in {"client", "worker"}, Unregister(t) PROVE LifeAgrees'
  BY <1>11 DEF Unregister
<1>12. CASE Destroy
  BY <1>12 DEF Destroy, NewGeneration, FreePending
<1>13. CASE Join
  BY <1>13 DEF Join
<1>14. CASE Dequeue
  BY <1>14 DEF Dequeue, Go
<1>15. CASE Idle
  BY <1>15 DEF Idle, Go
<1>16. CASE CloseIdle
  BY <1>16 DEF CloseIdle, Go
<1>17. CASE Wake
  BY <1>17 DEF Wake, Go
<1>18. CASE Pace
  BY <1>18 DEF Pace, Go
<1>19. CASE Arm
  BY <1>19 DEF Arm, AfterPace, Go
<1>20. ASSUME NEW timeout \in BOOLEAN, Paced(timeout) PROVE LifeAgrees'
  BY <1>20 DEF Paced, AfterPace, Go
<1>21. CASE Gate \/ Decide \/ Check \/ Recheck
  BY <1>21 DEF Gate, Decide, Check, Recheck, Result, TransferFrame, Go
<1>22. CASE ForgetClose
  BY <1>22 DEF ForgetClose, Go
<1>23. ASSUME NEW ok \in BOOLEAN, Connect(ok) \/ Transfer(ok) PROVE LifeAgrees'
  BY <1>23 DEF Connect, Transfer, Result, TransferFrame, Go
<1>24. CASE Requeue
  BY <1>24 DEF Requeue, Go
<1>25. ASSUME NEW timeout \in BOOLEAN, Retried(timeout) PROVE LifeAgrees'
  BY <1>25 DEF Retried, Go
<1>26. CASE Complete
  BY <1>26 DEF Complete, Go
<1>27. CASE CallbackReturns
  BY <1>27 DEF CallbackReturns, Go
<1>28. CASE Exit
  BY <1>28 DEF Exit, Go
<1>29. CASE UNCHANGED vars
  BY <1>29 DEF vars
<1> QED BY <1>1, <1>2, <1>3, <1>4, <1>5, <1>6, <1>7, <1>8, <1>9, <1>10, <1>11,
     <1>12, <1>13, <1>14, <1>15, <1>16, <1>17, <1>18, <1>19, <1>20, <1>21,
     <1>22, <1>23, <1>24, <1>25, <1>26, <1>27, <1>28, <1>29
        DEF Next, Door, Mute, Client, Worker

(* Requests are kept.                                                      *)
LEMMA RequestsStay == AudioInv /\ [Next]_vars => RequestsKept'
<1> SUFFICES ASSUME AudioInv, [Next]_vars PROVE RequestsKept'
  OBVIOUS
<1> USE AudioAssumption DEF AudioInv, AudioTypeOK, ObjectType, QueueType,
        WorkerType, NodeAgrees, LifeAgrees, RequestsKept, Transferring,
        HasNode, destroying, Active, Valid, objectVars, fieldVars, queueVars,
        nodeVars, signalVars, hostVars, gateVars, doorVars, Broadcast, Waiting
<1>1. ASSUME NEW p \in Refreshers, Refresh(p) PROVE RequestsKept'
  BY <1>1 DEF Refresh, Calls, Refreshed
<1>2. ASSUME NEW p \in Refreshers, Sweep(p) PROVE RequestsKept'
  BY <1>2 DEF Sweep, CloseSweep, Refreshed, Registered
<1>3. CASE WatchTick \/ Save \/ EnsureWatcher
  BY <1>3 DEF WatchTick, IfRecorders, Save, EnsureWatcher
<1>4. CASE ResetDeadlines
  BY <1>4 DEF ResetDeadlines, Registered
<1>5. ASSUME NEW m \in BOOLEAN, SetMuted(m) PROVE RequestsKept'
  BY <1>5 DEF SetMuted
<1>6. ASSUME NEW k \in Kinds, Create(k) PROVE RequestsKept'
  BY <1>6 DEF Create, Go
<1>7. ASSUME NEW b \in Callbacks, RegisterCallback(b) PROVE RequestsKept'
  BY <1>7 DEF RegisterCallback
<1>8. ASSUME NEW b \in Buffers, Enqueue(b) PROVE RequestsKept'
  BY <1>8 DEF Enqueue, TakeNode, Usable
<1>9. CASE Clear
  BY <1>9 DEF Clear, NewGeneration, FreePending, Usable
<1>10. ASSUME NEW st \in States, SetState(st) PROVE RequestsKept'
  BY <1>10 DEF SetState, RequestClose, Usable
<1>11. ASSUME NEW t \in {"client", "worker"}, Unregister(t) PROVE RequestsKept'
  BY <1>11 DEF Unregister
<1>12. CASE Destroy
  BY <1>12 DEF Destroy, NewGeneration, FreePending
<1>13. CASE Join
  BY <1>13 DEF Join
<1>14. CASE Dequeue
  BY <1>14 DEF Dequeue, Go
<1>15. CASE Idle
  BY <1>15 DEF Idle, Go
<1>16. CASE CloseIdle
  BY <1>16 DEF CloseIdle, Go
<1>17. CASE Wake
  BY <1>17 DEF Wake, Go
<1>18. CASE Pace
  BY <1>18 DEF Pace, Go
<1>19. CASE Arm
  BY <1>19 DEF Arm, AfterPace, Go
<1>20. ASSUME NEW timeout \in BOOLEAN, Paced(timeout) PROVE RequestsKept'
  BY <1>20 DEF Paced, AfterPace, Go
<1>21. CASE Gate \/ Decide \/ Check \/ Recheck
  <2>1. CASE Gate
    BY <2>1 DEF Gate, Result, TransferFrame, Go
  <2>2. CASE Decide
    BY <2>2 DEF Decide, Result, TransferFrame, Go
  <2>3. CASE Check
    BY <2>3 DEF Check, Result, TransferFrame, Go
  <2>4. CASE Recheck
    BY <2>4 DEF Recheck, Result, TransferFrame, Go
  <2> QED
    BY <1>21, <2>1, <2>2, <2>3, <2>4
<1>22. CASE ForgetClose
  BY <1>22 DEF ForgetClose, Go
<1>23. ASSUME NEW ok \in BOOLEAN, Connect(ok) \/ Transfer(ok) PROVE RequestsKept'
  <2>1. CASE Connect(ok)
    BY <2>1 DEF Connect, Result, TransferFrame, Go
  <2>2. CASE Transfer(ok)
    BY <2>2 DEF Transfer, Result, TransferFrame, Go
  <2> QED
    BY <1>23, <2>1, <2>2
<1>24. CASE Requeue
  BY <1>24 DEF Requeue, Go
<1>25. ASSUME NEW timeout \in BOOLEAN, Retried(timeout) PROVE RequestsKept'
  BY <1>25 DEF Retried, Go
<1>26. CASE Complete
  BY <1>26 DEF Complete, Go
<1>27. CASE CallbackReturns
  BY <1>27 DEF CallbackReturns, Go
<1>28. CASE Exit
  BY <1>28 DEF Exit, Go
<1>29. CASE UNCHANGED vars
  BY <1>29 DEF vars
<1> QED BY <1>1, <1>2, <1>3, <1>4, <1>5, <1>6, <1>7, <1>8, <1>9, <1>10, <1>11,
     <1>12, <1>13, <1>14, <1>15, <1>16, <1>17, <1>18, <1>19, <1>20, <1>21,
     <1>22, <1>23, <1>24, <1>25, <1>26, <1>27, <1>28, <1>29
        DEF Next, Door, Mute, Client, Worker

(* No signal is lost.                                                      *)
LEMMA WakeupKept == AudioInv /\ [Next]_vars => NoLostWakeup'
<1> SUFFICES ASSUME AudioInv, [Next]_vars PROVE NoLostWakeup'
  OBVIOUS
<1> USE AudioAssumption DEF AudioInv, AudioTypeOK, ObjectType, QueueType,
        WorkerType, NodeAgrees, LifeAgrees, RequestsKept, NoLostWakeup,
        Transferring, HasNode, destroying, Active, Valid, objectVars,
        fieldVars, queueVars, nodeVars, signalVars, hostVars, gateVars,
        doorVars, Broadcast, Waiting
<1>1. ASSUME NEW p \in Refreshers, Refresh(p) PROVE NoLostWakeup'
  BY <1>1 DEF Refresh, Calls, Refreshed
<1>2. ASSUME NEW p \in Refreshers, Sweep(p) PROVE NoLostWakeup'
  BY <1>2 DEF Sweep, CloseSweep, Refreshed, Registered
<1>3. CASE WatchTick \/ Save \/ EnsureWatcher
  BY <1>3 DEF WatchTick, IfRecorders, Save, EnsureWatcher
<1>4. CASE ResetDeadlines
  BY <1>4 DEF ResetDeadlines, Registered
<1>5. ASSUME NEW m \in BOOLEAN, SetMuted(m) PROVE NoLostWakeup'
  BY <1>5 DEF SetMuted
<1>6. ASSUME NEW k \in Kinds, Create(k) PROVE NoLostWakeup'
  BY <1>6 DEF Create, Go
<1>7. ASSUME NEW b \in Callbacks, RegisterCallback(b) PROVE NoLostWakeup'
  BY <1>7 DEF RegisterCallback
<1>8. ASSUME NEW b \in Buffers, Enqueue(b) PROVE NoLostWakeup'
  BY <1>8 DEF Enqueue, TakeNode, Usable
<1>9. CASE Clear
  BY <1>9 DEF Clear, NewGeneration, FreePending, Usable
<1>10. ASSUME NEW st \in States, SetState(st) PROVE NoLostWakeup'
  BY <1>10 DEF SetState, RequestClose, Usable
<1>11. ASSUME NEW t \in {"client", "worker"}, Unregister(t) PROVE NoLostWakeup'
  BY <1>11 DEF Unregister
<1>12. CASE Destroy
  BY <1>12 DEF Destroy, NewGeneration, FreePending
<1>13. CASE Join
  BY <1>13 DEF Join
<1>14. CASE Dequeue
  BY <1>14 DEF Dequeue, Go
<1>15. CASE Idle
  BY <1>15 DEF Idle, Go
<1>16. CASE CloseIdle
  BY <1>16 DEF CloseIdle, Go
<1>17. CASE Wake
  BY <1>17 DEF Wake, Go
<1>18. CASE Pace
  BY <1>18 DEF Pace, Go
<1>19. CASE Arm
  BY <1>19 DEF Arm, AfterPace, Go
<1>20. ASSUME NEW timeout \in BOOLEAN, Paced(timeout) PROVE NoLostWakeup'
  BY <1>20 DEF Paced, AfterPace, Go
<1>21. CASE Gate \/ Decide \/ Check \/ Recheck
  BY <1>21 DEF Gate, Decide, Check, Recheck, Result, TransferFrame, Go
<1>22. CASE ForgetClose
  BY <1>22 DEF ForgetClose, Go
<1>23. ASSUME NEW ok \in BOOLEAN, Connect(ok) \/ Transfer(ok) PROVE NoLostWakeup'
  BY <1>23 DEF Connect, Transfer, Result, TransferFrame, Go
<1>24. CASE Requeue
  BY <1>24 DEF Requeue, Go
<1>25. ASSUME NEW timeout \in BOOLEAN, Retried(timeout) PROVE NoLostWakeup'
  BY <1>25 DEF Retried, Go
<1>26. CASE Complete
  BY <1>26 DEF Complete, Go
<1>27. CASE CallbackReturns
  BY <1>27 DEF CallbackReturns, Go
<1>28. CASE Exit
  BY <1>28 DEF Exit, Go
<1>29. CASE UNCHANGED vars
  BY <1>29 DEF vars
<1> QED BY <1>1, <1>2, <1>3, <1>4, <1>5, <1>6, <1>7, <1>8, <1>9, <1>10, <1>11,
     <1>12, <1>13, <1>14, <1>15, <1>16, <1>17, <1>18, <1>19, <1>20, <1>21,
     <1>22, <1>23, <1>24, <1>25, <1>26, <1>27, <1>28, <1>29
        DEF Next, Door, Mute, Client, Worker

(* The inductive invariant holds.                                          *)
LEMMA AudioInvHolds == Spec => []AudioInv
<1>1. AudioInv /\ [Next]_vars => AudioInv'
  BY ObjectKept, QueueKept, WorkerKept, GateKept, StorageKept, NodeKept,
     LifeKept, RequestsStay, WakeupKept DEF AudioInv, AudioTypeOK
<1> QED
  BY <1>1, InitHolds, PTL DEF Spec

(* Every state of a stream, its worker, the door and the gate is typed.    *)
THEOREM TypeCorrect == Spec => []AudioTypeOK
<1>1. AudioInv => AudioTypeOK
  BY DEF AudioInv
<1> QED
  BY <1>1, AudioInvHolds, PTL

(* struct audio_object (opensles.c:326): queue storage is bounded by the   *)
(* capacity, and queue_count is what is queued or at the host.             *)
THEOREM StorageIsBounded == Spec => []StorageBounded
<1>1. AudioInv => StorageBounded
  BY DEF AudioInv
<1> QED
  BY <1>1, AudioInvHolds, PTL

(* stream_worker sleeps only when it has nothing to do, unless it missed a *)
(* signal while it closed the host's stream.                               *)
THEOREM NoWakeupIsLost == Spec => []NoLostWakeup
<1>1. AudioInv => NoLostWakeup
  BY DEF AudioInv
<1> QED
  BY <1>1, AudioInvHolds, PTL

(* Stop gives the host's stream up, a recorder's microphone first of all,  *)
(* unless the request was dropped by an open that was under way.           *)
THEOREM StoppedStreamsClose == Spec => []StoppedIsClosed
<1>1. AudioInv => StoppedIsClosed
  BY DEF AudioInv, AudioTypeOK, WorkerType, NoLostWakeup, RequestsKept,
         StoppedIsClosed, Active
<1> QED
  BY <1>1, AudioInvHolds, PTL

-----------------------------------------------------------------------------
(* The stream as its client sees it: the first state.                      *)
LEMMA FirstQueue == Init => BQ!Init
BY DEF Init, BQ!Init, Held, Active

(* What most steps leave alone: the client sees nothing.                   *)
Hidden == UNCHANGED <<life, state, queue, queue_index, inflight, stale, cut>>

LEMMA HiddenStep == Hidden => UNCHANGED BQ!qvars
BY DEF Hidden, BQ!qvars, Held, Active

LEMMA QuietSteps ==
  ASSUME AudioInv,
         \/ WatchTick \/ Save \/ ResetDeadlines \/ Idle \/ CloseIdle \/ Wake
         \/ Pace \/ Arm \/ Gate \/ Decide \/ Check \/ ForgetClose \/ Recheck
         \/ CallbackReturns
         \/ \E m \in BOOLEAN : SetMuted(m)
         \/ \E b \in Callbacks : RegisterCallback(b)
         \/ \E timeout \in BOOLEAN : Paced(timeout)
         \/ \E ok \in BOOLEAN : Connect(ok) \/ Transfer(ok)
         \/ UNCHANGED vars
  PROVE  UNCHANGED BQ!qvars
<1>1. Hidden
  BY DEF Hidden, objectVars, fieldVars, queueVars, nodeVars, vars, WatchTick,
     Save, ResetDeadlines, Idle, CloseIdle, Wake, Pace, Arm, Gate, Decide, Check,
     ForgetClose, Recheck, CallbackReturns, SetMuted, RegisterCallback, Paced,
     Connect, Transfer, TransferFrame
<1> QED
  BY <1>1, HiddenStep

(* The phases of a creation and a destroy before o->destroying is set.     *)
LEMMA LifeSteps ==
  ASSUME AudioInv,
         \/ EnsureWatcher \/ Join \/ Exit
         \/ \E p \in Refreshers : Refresh(p) \/ Sweep(p)
         \/ \E t \in {"client", "worker"} : Unregister(t)
  PROVE  UNCHANGED BQ!qvars
<1> USE DEF BQ!qvars, Held, Active, objectVars, fieldVars, queueVars, nodeVars
<1>1. CASE EnsureWatcher
  BY <1>1 DEF EnsureWatcher
<1>2. CASE Join
  BY <1>2 DEF Join
<1>3. CASE Exit
  BY <1>3 DEF Exit, AudioInv, LifeAgrees
<1>4. ASSUME NEW p \in Refreshers, Refresh(p) PROVE UNCHANGED BQ!qvars
  BY <1>4 DEF Refresh, Calls, Refreshed
<1>5. ASSUME NEW p \in Refreshers, Sweep(p) PROVE UNCHANGED BQ!qvars
  BY <1>5 DEF Sweep, Refreshed, AudioInv, LifeAgrees
<1>6. ASSUME NEW t \in {"client", "worker"}, Unregister(t)
      PROVE  UNCHANGED BQ!qvars
  BY <1>6 DEF Unregister
<1> QED
  BY <1>1, <1>2, <1>3, <1>4, <1>5, <1>6

(* Every step of the stream is one of its queue, or hidden.                *)
LEMMA QueueStep == AudioInv /\ [Next]_vars => [BQ!Next]_BQ!qvars
<1> SUFFICES ASSUME AudioInv, [Next]_vars PROVE [BQ!Next]_BQ!qvars
  OBVIOUS
<1> USE DEF AudioInv, AudioTypeOK, QueueType, NodeAgrees, LifeAgrees,
        Transferring, HasNode, Held, Active, objectVars, fieldVars, queueVars,
        nodeVars
<1>1. ASSUME NEW k \in Kinds, Create(k) PROVE BQ!Open
  BY <1>1 DEF Create, BQ!Open
<1>2. ASSUME NEW b \in Buffers, Enqueue(b) PROVE BQ!Enqueue(b)
  <2>1. Len(queue) < Capacity
    BY <1>2, AudioAssumption, QueueFacts DEF Enqueue, StorageBounded
  <2>2. life \in {"creating", "ensuring", "live", "leaving"}
    BY <1>2 DEF Enqueue, Usable
  <2> QED
    BY <1>2, <2>1, <2>2 DEF Enqueue, BQ!Enqueue
<1>3. ASSUME Clear PROVE BQ!Clear
  BY <1>3 DEF Clear, FreePending, NewGeneration, BQ!Clear
<1>4. ASSUME NEW st \in States, SetState(st)
      PROVE  BQ!SetActive(st = "active")
  BY <1>4 DEF SetState, BQ!SetActive
<1>5. ASSUME Destroy PROVE BQ!Clear
  <2>1. ~Held'
    BY <1>5 DEF Destroy, NewGeneration
  <2>2. queue' = <<>> /\ life' = "destroying" /\ UNCHANGED <<queue_index, state>>
    BY <1>5 DEF Destroy, FreePending
  <2> QED
    BY <2>1, <2>2 DEF BQ!Clear
<1>6. ASSUME Dequeue PROVE BQ!Take
  <2>1. queue # <<>> => Head(queue) \in Buffers
    BY QueueFacts
  <2> QED
    BY <1>6, <2>1, AudioAssumption
       DEF Dequeue, Go, ObjectType, BQ!Take, destroying
<1>7. ASSUME Requeue PROVE BQ!GiveBack
  BY <1>7 DEF Requeue, BQ!GiveBack
<1>8. ASSUME NEW timeout \in BOOLEAN, Retried(timeout) PROVE UNCHANGED BQ!qvars
  BY <1>8 DEF Retried, BQ!qvars
<1>9. CASE Complete /\ stale
  BY <1>9 DEF Complete, Valid, BQ!qvars
<1>10. ASSUME Complete, ~stale, rc = "ok", Valid PROVE BQ!Finish("done")
  <2>1. life \in {"creating", "ensuring", "live", "leaving"}
    BY <1>10 DEF Complete, ObjectType, Valid, destroying
  <2> QED
    BY <1>10, <2>1 DEF Complete, Valid, BQ!Finish
<1>11. ASSUME Complete, ~stale, ~(rc = "ok" /\ Valid)
       PROVE  BQ!Finish("dropped")
  <2>1. ~destroying /\ cut /\ inflight # NoBuffer
    BY <1>11 DEF Complete, WorkerType, Valid, destroying
  <2> QED
    BY <1>11, <2>1 DEF Complete, BQ!Finish
<1> QED
  BY <1>1, <1>2, <1>3, <1>4, <1>5, <1>6, <1>7, <1>8, <1>9, <1>10, <1>11,
     QuietSteps, LifeSteps
     DEF Next, Door, Mute, Client, Worker, BQ!Next

(* The stream implements BufferQueue: buffers go to the host in order and  *)
(* end once; only pause, stop, Clear and Destroy keep one from its report. *)
THEOREM ImplementsBufferQueue == Spec => ImplementsQueue
BY FirstQueue, QueueStep, AudioInvHolds, PTL DEF Spec, ImplementsQueue, BQ!Spec

=============================================================================
