----------------------------- MODULE AudioStream -----------------------------
(***************************************************************************)
(* An OpenSL ES stream of src/internal/android/opensles.c: the client's    *)
(* calls, the stream's worker thread, the process-wide microphone door and *)
(* mute gate, and the door watcher of microphone_door.go.  One stream      *)
(* lives at a time; streams share only the door and the gate.  A section   *)
(* under o->mu is one action; the worker is unlocked while it closes,      *)
(* opens or transfers and while the client's callback runs.                *)
(***************************************************************************)
EXTENDS Naturals, Sequences

CONSTANTS
    Buffers,    \* buffers of the client
    NoBuffer,   \* no buffer
    Capacity,   \* numBuffers of the locator
    Kinds,      \* the streams that are created: players, recorders
    States,     \* the states the client asks for
    Callbacks,  \* whether it registers a callback, or none
    Queries     \* threads that ask whether the microphone's door is open

ASSUME AudioAssumption ==
    /\ NoBuffer \notin Buffers
    /\ Capacity \in Nat \ {0}
    /\ Kinds \subseteq {"player", "recorder"}
    /\ States \subseteq {"stopped", "paused", "active"}
    /\ Callbacks \subseteq BOOLEAN
    /\ Queries \cap {"worker", "creator", "watcher", "unlocked"} = {}

VARIABLES
    kind, life,             \* the object; life is "destroying" from o->destroying on
    destroyer,              \* the thread that called Destroy
    state, close_requested, armed,      \* fields of the object
    cb,                     \* a queue callback is registered
    queue, free,            \* pending nodes, pooled nodes
    queue_count,
    queue_index,            \* its parity: it changes when a buffer is completed
    inflight, stale,        \* the node the worker holds; an older queue_generation
    at, rc,                 \* the worker; its result for the node
    woken,                  \* the condition was signalled since the worker waits
    host,                   \* o->stream
    muted, resetting,       \* capture_muted; its deadline reset is still to come
    saved, allowed,         \* the Settings switch; microphone_file_allowed
    door, watcher,          \* who holds microphoneDoor.mu; the watcher goroutine
    cut, missed, forgotten  \* history

objectVars == <<kind, life, destroyer>>
fieldVars == <<state, close_requested, armed, cb>>
queueVars == <<queue, free, queue_count, queue_index>>
nodeVars == <<inflight, stale, rc, cut>>
signalVars == <<woken, missed>>
hostVars == <<host, forgotten>>
gateVars == <<muted, resetting, saved>>
doorVars == <<allowed, door, watcher>>
vars == <<objectVars, fieldVars, queueVars, nodeVars, at, signalVars, hostVars,
          gateVars, doorVars>>

(* The worker has a node whose generation it will compare.                 *)
HasNode == inflight # NoBuffer \/ at = "retrying"
Waiting == {"asleep", "pacing", "retrying"}
Recorder == kind = "recorder"
Registered == Recorder /\ life \in {"creating", "ensuring", "live"}

Init ==
    /\ kind = "player" /\ life = "none" /\ destroyer = "nobody"
    /\ state = "stopped" /\ close_requested = FALSE /\ armed = FALSE
    /\ cb = FALSE
    /\ queue = <<>> /\ free = 0 /\ queue_count = 0 /\ queue_index = 0
    /\ inflight = NoBuffer /\ stale = FALSE
    /\ at = "none" /\ rc = "ok" /\ woken = FALSE
    /\ host = "closed"
    /\ muted = FALSE /\ resetting = FALSE
    /\ saved \in BOOLEAN /\ allowed = TRUE
    /\ door = "unlocked" /\ watcher = "off"
    /\ cut = FALSE /\ missed = FALSE /\ forgotten = FALSE

-----------------------------------------------------------------------------
(* The condition variable.  missed: a signal came while the worker closed  *)
(* the host stream outside the mutex, on its way into the wait.            *)

(* Mutant: the signal is left out.                                         *)
Quiet == UNCHANGED <<woken, missed>>

Broadcast ==
    /\ woken' = IF at \in Waiting THEN TRUE ELSE woken
    /\ missed' = IF at = "closing" THEN TRUE ELSE missed

(* The worker goes to the step p; waits start unsignalled.                 *)
Go(p) ==
    /\ at' = p /\ woken' = FALSE
    /\ missed' = IF p = "asleep" THEN missed ELSE FALSE

(* Mutant of FreePending: forgets the node in flight.                      *)
FreePendingAll ==
    /\ queue' = <<>> /\ free' = free + Len(queue)
    /\ queue_count' = 0

(* free_pending_locked                                                     *)
FreePending ==
    /\ queue' = <<>> /\ free' = free + Len(queue)
    /\ queue_count' = IF inflight = NoBuffer THEN 0 ELSE 1

(* Mutants of the next three: takes a pooled node without looking for one, *)
(* keeps queue_generation, and asks for no close.                          *)
PopNode == free' = free - 1
SameGeneration == UNCHANGED stale
NoClose(s) == UNCHANGED close_requested

TakeNode == free' = IF free > 0 THEN free - 1 ELSE 0
NewGeneration == stale' = HasNode
RequestClose(s) ==
    close_requested' = IF s = "stopped" THEN TRUE ELSE close_requested

-----------------------------------------------------------------------------
(* The microphone door.  refreshMicrophoneDoor reads the settings file and *)
(* publishes it, and sweeps the recorders when the door closes, all under  *)
(* microphoneDoor.mu; its callers p continue when it is done.              *)

Refreshed(p) ==
    /\ at' = IF p = "worker" THEN "check" ELSE at
    /\ life' = IF p = "creator" THEN "ensuring" ELSE life
    /\ watcher' = IF p = "watcher" THEN "sleep" ELSE watcher

Calls(p) ==
    CASE p = "worker" -> at = "open"
      [] p = "creator" -> life = "creating"
      [] p = "watcher" -> watcher = "refresh"
      [] OTHER -> TRUE

Refresh(p) ==
    /\ Calls(p) /\ door = "unlocked"
    /\ allowed' = saved
    /\ IF allowed /\ ~saved
       THEN door' = p /\ UNCHANGED <<at, life, watcher>>
       ELSE door' = door /\ Refreshed(p)
    /\ UNCHANGED <<kind, destroyer, fieldVars, queueVars, nodeVars,
                   signalVars, hostVars, gateVars>>

(* Mutant of CloseSweep: wakes the recorder and asks for nothing.          *)
CloseSweepIdle ==
    IF Registered THEN Broadcast /\ UNCHANGED close_requested
    ELSE UNCHANGED <<woken, missed, close_requested>>

(* capture_door_close_sweep                                                *)
CloseSweep ==
    IF Registered THEN Broadcast /\ close_requested' = TRUE
    ELSE UNCHANGED <<woken, missed, close_requested>>

Sweep(p) ==
    /\ door = p /\ door' = "unlocked"
    /\ CloseSweep /\ Refreshed(p)
    /\ UNCHANGED <<kind, destroyer, state, armed, cb, queueVars,
                   nodeVars, hostVars, gateVars, allowed>>

(* Mutant of IfRecorders: the watcher never ends.                          *)
Always == "refresh"
IfRecorders == IF Registered THEN "refresh" ELSE "off"

(* microphoneDoorWatch: it ends, under the mutex, without a recorder.      *)
WatchTick ==
    /\ watcher = "sleep" /\ door = "unlocked"
    /\ watcher' = IfRecorders
    /\ UNCHANGED <<objectVars, fieldVars, queueVars, nodeVars, at, signalVars,
                   hostVars, gateVars, allowed, door>>

(* The Settings window, in another process.                                *)
Save ==
    /\ saved' = ~saved
    /\ UNCHANGED <<objectVars, fieldVars, queueVars, nodeVars, at, signalVars,
                   hostVars, muted, resetting, doorVars>>

(* tipsy_audio_set_capture_muted sets the gate, then resets the deadlines. *)
SetMuted(m) ==
    /\ m # muted /\ ~resetting
    /\ muted' = m /\ resetting' = TRUE
    /\ UNCHANGED <<objectVars, fieldVars, queueVars, nodeVars, at, signalVars,
                   hostVars, saved, doorVars>>

(* reset_all_muted_deadlines                                               *)
ResetDeadlines ==
    /\ resetting /\ resetting' = FALSE
    /\ IF Registered THEN armed' = FALSE /\ Broadcast
       ELSE UNCHANGED <<armed, woken, missed>>
    /\ UNCHANGED <<objectVars, state, close_requested, cb, queueVars, nodeVars,
                   at, hostVars, muted, saved, doorVars>>

-----------------------------------------------------------------------------
(* The client.  It calls a stream that exists and, from the callback, one  *)
(* that another thread is destroying.                                      *)

Create(k) ==
    /\ life = "none"
    /\ kind' = k /\ destroyer' = "nobody"
    /\ life' = IF k = "recorder" THEN "creating" ELSE "live"
    /\ state' = "stopped" /\ close_requested' = FALSE /\ armed' = FALSE
    /\ cb' = FALSE
    /\ queue' = <<>> /\ free' = 0 /\ queue_count' = 0 /\ queue_index' = 0
    /\ inflight' = NoBuffer /\ stale' = FALSE /\ rc' = "ok"
    /\ host' = "closed"
    /\ cut' = FALSE /\ forgotten' = FALSE
    /\ Go("top")
    /\ UNCHANGED <<gateVars, doorVars>>

(* ensureMicrophoneDoorWatcher                                             *)
EnsureWatcher ==
    /\ life = "ensuring" /\ door = "unlocked" /\ life' = "live"
    /\ watcher' = IF watcher = "off" THEN "sleep" ELSE watcher
    /\ UNCHANGED <<kind, destroyer, fieldVars, queueVars, nodeVars, at,
                   signalVars, hostVars, gateVars, allowed, door>>

Usable ==
    \/ life = "live"
    \/ at = "callback" /\ life \in {"leaving", "destroying"}

RegisterCallback(b) ==
    /\ Usable /\ cb' = b
    /\ UNCHANGED <<objectVars, state, close_requested, armed, queueVars,
                   nodeVars, at, signalVars, hostVars, gateVars, doorVars>>

(* A client that gets BUFFER_INSUFFICIENT or MEMORY_FAILURE changed nothing. *)
Enqueue(b) ==
    /\ Usable /\ queue_count < Capacity /\ life # "destroying"
    /\ TakeNode
    /\ queue' = Append(queue, b) /\ queue_count' = queue_count + 1
    /\ Broadcast
    /\ UNCHANGED <<objectVars, queue_index, fieldVars, nodeVars, at, hostVars, gateVars,
                   doorVars>>

(* queue_clear                                                             *)
Clear ==
    /\ Usable /\ NewGeneration
    /\ armed' = FALSE
    /\ FreePending /\ queue_index' = 0 /\ Broadcast
    /\ UNCHANGED <<objectVars, state, close_requested, cb, inflight, rc, cut,
                    at, hostVars, gateVars, doorVars>>

(* set_stream_state                                                        *)
SetState(s) ==
    /\ Usable /\ state' = s
    /\ armed' = FALSE
    /\ RequestClose(s)
    /\ forgotten' = FALSE
    /\ cut' = (inflight # NoBuffer /\ (cut \/ s # "active"))
    /\ Broadcast
    /\ UNCHANGED <<objectVars, cb, queueVars, inflight, stale, rc, at,
                   host, gateVars, doorVars>>

(* object_destroy, called by the client's own thread or in the callback    *)
Unregister(t) ==
    /\ life = "live" /\ (t = "worker" => at = "callback")
    /\ life' = "leaving" /\ destroyer' = t
    /\ UNCHANGED <<kind, fieldVars, queueVars, nodeVars, at, signalVars,
                   hostVars, gateVars, doorVars>>

Destroy ==
    /\ life = "leaving" /\ life' = "destroying"
    /\ NewGeneration /\ armed' = FALSE
    /\ FreePending /\ Broadcast
    /\ UNCHANGED <<kind, destroyer, queue_index, state, close_requested, cb,
                   inflight, rc, cut, at, hostVars, gateVars, doorVars>>

(* pthread_join returns and the object is freed.                           *)
Join ==
    /\ life = "destroying" /\ destroyer = "client" /\ at = "gone"
    /\ life' = "none"
    /\ UNCHANGED <<kind, destroyer, fieldVars, queueVars, nodeVars, at,
                   signalVars, hostVars, gateVars, doorVars>>

-----------------------------------------------------------------------------
(* The worker, stream_worker.                                              *)

destroying == life = "destroying"
Active == state = "active"
Valid == ~destroying /\ Active /\ ~stale

(* The loop that waits for work, and the dequeue.                          *)
Dequeue ==
    /\ at = "top" /\ ~destroying /\ Active /\ queue # <<>>
    /\ inflight' = Head(queue) /\ queue' = Tail(queue)
    /\ Go(IF Recorder THEN "pace" ELSE "decide")
    /\ UNCHANGED <<objectVars, fieldVars, free, queue_count, queue_index, stale,
                   cut, rc, hostVars, gateVars, doorVars>>

Idle ==
    /\ at = "top"
    /\ destroying \/ ~Active \/ queue = <<>>
    /\ CASE destroying -> Go("exit") /\ UNCHANGED close_requested
         [] ~destroying /\ close_requested -> Go("closing") /\ close_requested' = FALSE
         [] OTHER -> Go("asleep") /\ UNCHANGED close_requested
    /\ UNCHANGED <<objectVars, state, armed, cb, queueVars, nodeVars, hostVars,
                   gateVars, doorVars>>

(* Without the mutex; then it goes on to the wait, whatever has changed.   *)
CloseIdle ==
    /\ at = "closing" /\ host' = "closed" /\ forgotten' = FALSE
    /\ Go("asleep")
    /\ UNCHANGED <<objectVars, fieldVars, queueVars, nodeVars, gateVars,
                   doorVars>>

Wake ==
    /\ at = "asleep" /\ woken
    /\ Go("top")
    /\ UNCHANGED <<objectVars, fieldVars, queueVars, nodeVars, hostVars,
                   gateVars, doorVars>>

(* pace_muted_capture: the test without the mutex, and the one with it.    *)
Pace ==
    /\ at = "pace"
    /\ Go(IF muted THEN "lockpace" ELSE "gate")
    /\ UNCHANGED <<objectVars, fieldVars, queueVars, nodeVars, hostVars,
                   gateVars, doorVars>>

(* Where the buffer goes after the pause.                                  *)
AfterPace ==
    IF Valid THEN Go("gate") /\ UNCHANGED rc
    ELSE Go("finish") /\ rc' = "skipped"

(* advance_muted_deadline_locked: a first or late completion waits not.    *)
Arm ==
    /\ at = "lockpace"
    /\ IF Valid /\ muted
       THEN /\ armed' = TRUE
            /\ \/ AfterPace
               \/ armed /\ Go("pacing") /\ UNCHANGED rc
       ELSE AfterPace /\ UNCHANGED armed
    /\ UNCHANGED <<objectVars, state, close_requested, cb, queueVars, inflight,
                   stale, cut, hostVars, gateVars, doorVars>>

(* pthread_cond_timedwait returns, signalled or because it is time.        *)
Paced(timeout) ==
    /\ at = "pacing" /\ (woken \/ timeout)
    /\ IF ~timeout /\ Valid /\ armed /\ muted
       THEN Go("pacing") /\ UNCHANGED rc
       ELSE AfterPace
    /\ UNCHANGED <<objectVars, fieldVars, queueVars, inflight, stale, cut,
                    hostVars, gateVars, doorVars>>

(* What the steps of a transfer leave alone.                               *)
TransferFrame == UNCHANGED <<objectVars, fieldVars, queueVars, inflight, stale,
                             cut, forgotten, gateVars, doorVars>>

(* The result of the transfer; on failure the host stream is closed.       *)
Result(r) ==
    /\ rc' = r /\ Go("finish")
    /\ host' = IF r = "failed" THEN "closed" ELSE host

(* The gate of the recorder's door.                                        *)
Gate ==
    /\ at = "gate"
    /\ IF ~allowed THEN Result("failed") ELSE Go("decide") /\ UNCHANGED <<rc, host>>
    /\ TransferFrame

(* One decision per buffer: silence, or the host.                          *)
Decide ==
    /\ at = "decide"
    /\ IF Recorder /\ muted THEN Result("ok")
       ELSE /\ Go(IF host = "open" THEN "transfer"
                  ELSE IF Recorder THEN "open" ELSE "connect")
            /\ UNCHANGED <<rc, host>>
    /\ TransferFrame

(* backend_open, after its refresh of the door: the test of the door,      *)
Check ==
    /\ at = "check"
    /\ IF ~allowed THEN Result("failed")
       ELSE Go("uncloses") /\ UNCHANGED <<rc, host>>
    /\ TransferFrame

(* the reset of a pending close,                                           *)
ForgetClose ==
    /\ at = "uncloses" /\ close_requested' = FALSE
    /\ forgotten' = (close_requested /\ state = "stopped")
    /\ Go("connect")
    /\ UNCHANGED <<objectVars, state, armed, cb, queueVars, nodeVars, host,
                   gateVars, doorVars>>

(* and the connection to the sound server.                                 *)
Connect(ok) ==
    /\ at = "connect"
    /\ IF ok THEN host' = "open" /\ Go("transfer") /\ UNCHANGED rc
       ELSE Result("failed")
    /\ TransferFrame

(* backend_transfer                                                        *)
Transfer(ok) ==
    /\ at = "transfer"
    /\ IF ~ok THEN Result("failed")
       ELSE IF Recorder THEN Go("recheck") /\ UNCHANGED <<rc, host>>
       ELSE Result("ok")
    /\ TransferFrame

(* A read that the door closed on is not handed out.                       *)
Recheck ==
    /\ at = "recheck"
    /\ Result(IF allowed THEN "ok" ELSE "failed")
    /\ TransferFrame

(* A failed buffer is the first one again, after a pause.                  *)
Requeue ==
    /\ at = "finish" /\ rc = "failed" /\ ~destroying /\ ~stale
    /\ queue' = <<inflight>> \o queue
    /\ inflight' = NoBuffer /\ cut' = FALSE /\ rc' = "ok"
    /\ Go(IF Active THEN "retrying" ELSE "top")
    /\ UNCHANGED <<objectVars, fieldVars, free, queue_count, queue_index, stale,
                   hostVars, gateVars, doorVars>>

Retried(timeout) ==
    /\ at = "retrying" /\ (woken \/ timeout)
    /\ IF ~timeout /\ Valid THEN Go("retrying") /\ UNCHANGED stale
       ELSE Go("top") /\ stale' = FALSE
    /\ UNCHANGED <<objectVars, fieldVars, queueVars, inflight, rc, cut,
                   hostVars, gateVars, doorVars>>

(* Every other buffer is over; a valid one is reported.                    *)
Complete ==
    /\ at = "finish" /\ (rc # "failed" \/ destroying \/ stale)
    /\ LET deliver == rc = "ok" /\ Valid
       IN  /\ queue_index' = IF deliver THEN 1 - queue_index ELSE queue_index
           /\ Go(IF deliver /\ cb THEN "callback" ELSE "top")
    /\ queue_count' = IF queue_count > 0 THEN queue_count - 1 ELSE 0
    /\ free' = free + 1
    /\ inflight' = NoBuffer /\ stale' = FALSE /\ cut' = FALSE /\ rc' = "ok"
    /\ UNCHANGED <<objectVars, fieldVars, queue, hostVars, gateVars, doorVars>>

(* The client's callback returns; a Destroy that it called has ended.      *)
CallbackReturns ==
    /\ at = "callback" /\ ~(destroyer = "worker" /\ life = "leaving")
    /\ Go("top")
    /\ UNCHANGED <<objectVars, fieldVars, queueVars, nodeVars, hostVars,
                   gateVars, doorVars>>

(* The worker ends, and frees the object if the callback destroyed it.     *)
Exit ==
    /\ at = "exit" /\ host' = "closed"
    /\ life' = IF destroyer = "worker" THEN "none" ELSE life
    /\ Go("gone")
    /\ UNCHANGED <<kind, destroyer, fieldVars, queueVars, nodeVars,
                   forgotten, gateVars, doorVars>>

-----------------------------------------------------------------------------
Refreshers == {"worker", "creator", "watcher"} \cup Queries

Door ==
    \/ \E p \in Refreshers : Refresh(p) \/ Sweep(p)
    \/ WatchTick \/ Save

Mute == ResetDeadlines \/ \E m \in BOOLEAN : SetMuted(m)

Client ==
    \/ \E k \in Kinds : Create(k)
    \/ EnsureWatcher
    \/ \E b \in Callbacks : RegisterCallback(b)
    \/ \E b \in Buffers : Enqueue(b)
    \/ Clear
    \/ \E s \in States : SetState(s)
    \/ \E t \in {"client", "worker"} : Unregister(t)
    \/ Destroy \/ Join

Worker ==
    \/ Dequeue \/ Idle \/ CloseIdle \/ Wake
    \/ Pace \/ Arm \/ \E timeout \in BOOLEAN : Paced(timeout)
    \/ Gate \/ Decide \/ Check \/ ForgetClose \/ Recheck
    \/ \E ok \in BOOLEAN : Connect(ok) \/ Transfer(ok)
    \/ Requeue \/ \E timeout \in BOOLEAN : Retried(timeout)
    \/ Complete \/ CallbackReturns \/ Exit

Next == Door \/ Mute \/ Client \/ Worker

Spec == Init /\ [][Next]_vars

(* The threads run, the client's callback returns and its Destroy goes on  *)
(* once begun; deadlines and timers pass;  a mutex that is free again and   *)
(* again is obtained; the sound server accepts now and then.  Nothing is   *)
(* assumed of the client's other calls, of Save or of SetMuted.            *)
Fairness ==
    /\ WF_vars(Worker)
    /\ WF_vars(Paced(TRUE) \/ Retried(TRUE))
    /\ WF_vars(Destroy \/ Join)
    /\ WF_vars(ResetDeadlines)
    /\ WF_vars(\E p \in Refreshers : Sweep(p))
    /\ SF_vars(Refresh("creator") \/ EnsureWatcher)
    /\ SF_vars(Refresh("watcher") \/ WatchTick)
    /\ SF_vars(Refresh("worker"))
    /\ SF_vars(Connect(TRUE)) /\ SF_vars(Transfer(TRUE))

FairSpec == Spec /\ Fairness

-----------------------------------------------------------------------------
ObjectType ==
    /\ kind \in {"player", "recorder"}
    /\ life \in {"none", "creating", "ensuring", "live", "leaving", "destroying"}
    /\ destroyer \in {"nobody", "client", "worker"}
    /\ state \in {"stopped", "paused", "active"}
    /\ close_requested \in BOOLEAN /\ armed \in BOOLEAN /\ cb \in BOOLEAN

QueueType ==
    /\ queue \in Seq(Buffers) /\ free \in Nat
    /\ queue_count \in Nat /\ queue_index \in {0, 1}
    /\ inflight \in Buffers \cup {NoBuffer}
    /\ stale \in BOOLEAN /\ cut \in BOOLEAN

WorkerType ==
    /\ at \in {"none", "top", "asleep", "closing", "pace", "lockpace", "pacing",
               "gate", "decide", "open", "check", "uncloses", "connect",
               "transfer", "recheck", "finish", "retrying", "callback",
               "exit", "gone"}
    /\ rc \in {"ok", "failed", "skipped"}
    /\ woken \in BOOLEAN /\ missed \in BOOLEAN
    /\ host \in {"closed", "open"} /\ forgotten \in BOOLEAN

GateType ==
    /\ muted \in BOOLEAN /\ resetting \in BOOLEAN /\ saved \in BOOLEAN
    /\ allowed \in BOOLEAN /\ door \in Refreshers \cup {"unlocked"}
    /\ watcher \in {"off", "sleep", "refresh"}

(* The type invariant.                                                     *)
AudioTypeOK == ObjectType /\ QueueType /\ WorkerType /\ GateType

(* "Resident queue storage is bounded by queue_capacity": the nodes that   *)
(* are queued, in flight and pooled; and queue_count, by which Enqueue     *)
(* decides, counts the first two through every Clear, retry and Destroy.   *)
StorageBounded ==
    /\ queue_count = Len(queue) + (IF inflight = NoBuffer THEN 0 ELSE 1)
    /\ queue_count + free <= Capacity

(* A worker that waits, and was not signalled, has nothing to do: no       *)
(* buffer to play, no stream to close, no pause that Stop, Clear, Destroy  *)
(* or an unmute should have cut short.  Except for a signal that came in   *)
(* the moment between the unlocked close and the wait (missed).            *)
NoLostWakeup ==
    ~woken =>
        /\ at = "asleep" /\ ~missed =>
               ~destroying /\ ~close_requested /\ (~Active \/ queue = <<>>)
        /\ at = "pacing" => Valid /\ ((muted /\ armed) \/ resetting \/ life = "leaving")
        /\ at = "retrying" => Valid

(* A stopped stream whose worker is at rest holds no host stream, above    *)
(* all no microphone: except when a recorder that was just opening its     *)
(* source has dropped the request of that Stop (forgotten).                *)
StoppedIsClosed ==
    state = "stopped" /\ at = "asleep" /\ ~woken /\ host = "open" => forgotten

(* Destroy returns, or frees on the worker: the worker is never left       *)
(* asleep under pthread_join unless it missed the signal.                  *)
DestroyReturns ==
    []<>(~destroying \/ (at = "asleep" /\ missed))

(* The same without the exception, as the client's teardown (opensles.c    *)
(* 3211: STOPPED, Clear, Destroy) needs it.                                *)
DestroyJoins == []<>(~destroying)

(* While a recorder exists, a microphone switch that is off for good shuts *)
(* the host's capture stream for good: the watcher sees the file, and the  *)
(* sweep or the next gate closes the stream.  A client that keeps starting *)
(* a muted recorder and cutting its pauses short, by Stop or Clear, can    *)
(* put it off, since such a buffer skips the gate and the worker is never  *)
(* idle; hence the condition on rc.                                        *)
SwitchOffShutsCapture ==
    <>[](~saved /\ Registered /\ rc # "skipped") => <>[](host = "closed")

(* The watcher lives no longer than the recorders.                         *)
WatcherEnds == <>[](~Registered) => <>[](watcher = "off")

(* A stream that is left active with buffers, behind an open door, goes on *)
(* completing them, through failures, mute and retries.                    *)
Playing ==
    /\ life = "live" /\ Active /\ cb /\ ~stale /\ saved
    /\ queue # <<>> \/ inflight # NoBuffer
    /\ ~(at = "asleep" /\ missed)

AudioFlows == <>[]Playing => []<>(at = "callback")

-----------------------------------------------------------------------------
(* The stream implements the client's view of a buffer queue.              *)
Held == inflight # NoBuffer /\ ~stale

BQ == INSTANCE BufferQueue WITH
        open <- life \in {"creating", "ensuring", "live", "leaving"},
        active <- Active,
        waiting <- queue,
        slot <- IF Held THEN inflight ELSE NoBuffer,
        cut <- Held /\ cut,
        index <- queue_index

(* Buffers go to the host in order, end once each, are reported only while *)
(* the stream is active and not dropped unless it was paused meanwhile.    *)
ImplementsQueue == BQ!Spec

=============================================================================
