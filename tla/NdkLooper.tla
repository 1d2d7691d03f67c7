------------------------------ MODULE NdkLooper ------------------------------
(***************************************************************************)
(* One ALooper of internal/android/ndk.c: its epoll set, its wake pipe,    *)
(* its watcher thread, and the bionic pthread_cond_wait of the thread that *)
(* owns it.  The owner may block in two places: in pollOnce (plain epoll)  *)
(* and in a condition wait of the engine.  In the second the fds of the    *)
(* looper still have to be served, so the owner parks: it publishes its    *)
(* condition in the looper, and the watcher (which watches the owner's     *)
(* epoll fd edge-triggered) or a caller of ALooper_wake broadcasts that    *)
(* condition to get the owner out for a nested poll.                       *)
(*                                                                         *)
(* Critical sections under l->lock are single actions; everything the code *)
(* does between two of them is a step of its own.                          *)
(***************************************************************************)
EXTENDS Integers, Sequences, FiniteSets

CONSTANTS
    Fds,         \* the descriptors that may be registered
    CallbackFds, \* those registered with a callback, the others with an ident
    Posters,     \* threads that call ALooper_wake on this looper
    Watcher,     \* the tip.looper thread
    Owner,       \* the thread whose tls_looper this is
    Waits,       \* the (condition, mutex) pairs the owner waits on
    TimedWaits,  \* those it waits on with pthread_cond_timedwait
    WakeR,       \* the read end of the wake pipe
    None,        \* NULL: no thread, no condition, no event
    MaxFds,      \* MAX_LOOPER_FDS
    NestLimit,   \* the 64 rounds of poll_looper_nested
    MaxNesting,  \* bound: condition waits below one another on the stack
    MaxQueued    \* bound: unread messages on one descriptor

Signallers == Posters \cup {Watcher}
Sources == Fds \cup {WakeR}

ASSUME ConstantsAssumption ==
    /\ IsFiniteSet(Fds)
    /\ CallbackFds \subseteq Fds
    /\ TimedWaits \subseteq Waits
    /\ WakeR \notin Fds
    /\ Watcher \notin Posters
    /\ Owner \notin Signallers
    /\ None \notin Waits \cup Sources \cup Signallers \cup {Owner}
    /\ MaxFds \in Nat \ {0}
    /\ NestLimit \in Nat \ {0}
    /\ MaxNesting \in Nat
    /\ MaxQueued \in Nat \ {0}

VARIABLES
    watcher_on,     \* the watcher thread could be created
    used,           \* fds[]: the descriptors registered
    queued,         \* messages to be read on each descriptor
    token,          \* the wake pipe holds a token
    edge,           \* the watcher's epoll holds an edge of the owner's epoll
    order,          \* the kernel's ready list: <<a, b>> when a is before b
    parked,         \* parked_cond / parked_mutex
    pending_wake,
    looper_woke,
    mutex,          \* who holds the mutex of each wait
    sig,            \* where each signaller is in looper_signal_parked
    at,             \* where the owner is
    ctx,            \* the innermost wait or poll of the owner
    frames,         \* the polls suspended in a callback, outermost first
    event,          \* what epoll_wait just returned
    owed            \* history: sources whose signal the owner took and which
                    \* it has not served to the end

fdVars == <<used, queued, token, edge, order>>
parkVars == <<parked, pending_wake, looper_woke>>
ownerVars == <<at, ctx, frames, event>>
vars == <<watcher_on, fdVars, parkVars, mutex, sig, ownerVars, owed>>

-----------------------------------------------------------------------------
Context == [w : Waits \cup {None}, n : 0..NestLimit]
NoWait == [w |-> None, n |-> 0]
SignalState == [at : {"idle", "signal", "lock", "broadcast"}, c : Waits \cup {None}]

Ready == {f \in used : queued[f] > 0}
             \cup (IF token THEN {WakeR} ELSE {})

(* epoll moves a source to the end of its ready list when it reports it,   *)
(* and puts one that becomes ready there, unless it is still in the list.  *)
AtTheEnd(s) == (order \ ({s} \X Sources)) \cup ((Ready \ {s}) \X {s})

(* A source that becomes ready makes the kernel queue an edge; one that    *)
(* was ready already may or may not do so.                                 *)
BecomeReady(s) ==
    IF s \in Ready
    THEN edge' \in {edge, TRUE} /\ UNCHANGED order
    ELSE edge' = TRUE /\ order' \in {order, AtTheEnd(s)}

NestedWaits == Cardinality({i \in DOMAIN frames : frames[i].w # None})

Init ==
    /\ watcher_on \in BOOLEAN
    /\ used = {}
    /\ queued = [f \in Fds |-> 0]
    /\ token = FALSE
    /\ edge = FALSE
    /\ order = {}
    /\ parked = None
    /\ pending_wake = FALSE
    /\ looper_woke = FALSE
    /\ mutex = [w \in Waits |-> None]
    /\ sig = [t \in Signallers |-> [at |-> "idle", c |-> None]]
    /\ at = "run"
    /\ ctx = NoWait
    /\ frames = <<>>
    /\ event = None
    /\ owed = {}

-----------------------------------------------------------------------------
(* Descriptors.  addFd and removeFd may be called by any thread.           *)

AddFd(f) ==
    /\ f \in used \/ Cardinality(used) < MaxFds
    /\ used' = used \cup {f}
    /\ IF queued[f] > 0 THEN BecomeReady(f) ELSE UNCHANGED <<edge, order>>
    /\ UNCHANGED <<watcher_on, queued, token, parkVars, mutex, sig, ownerVars,
                   owed>>

RemoveFd(f) ==
    /\ f \in used
    /\ used' = used \ {f}
    /\ owed' = owed \ {f}
    /\ UNCHANGED <<watcher_on, queued, token, edge, order, parkVars, mutex, sig,
                   ownerVars>>

(* A message arrives on the descriptor, from anywhere.                     *)
Post(f) ==
    /\ queued[f] < MaxQueued
    /\ queued' = [queued EXCEPT ![f] = @ + 1]
    /\ IF f \in used THEN BecomeReady(f) ELSE UNCHANGED <<edge, order>>
    /\ UNCHANGED <<watcher_on, used, token, parkVars, mutex, sig, ownerVars,
                   owed>>

-----------------------------------------------------------------------------
(* looper_signal_parked, run by the watcher and by ALooper_wake.           *)

Wake(t) ==
    /\ sig[t].at = "idle"
    /\ token' = TRUE
    /\ BecomeReady(WakeR)
    /\ sig' = [sig EXCEPT ![t].at = "signal"]
    /\ UNCHANGED <<watcher_on, used, queued, parkVars, mutex, ownerVars, owed>>

(* epoll_wait(watch_epfd) takes the edge and reports it only if the        *)
(* owner's epoll is still ready.                                           *)
Watch ==
    /\ watcher_on
    /\ sig[Watcher].at = "idle"
    /\ edge
    /\ edge' = FALSE
    /\ sig' = IF Ready = {} THEN sig ELSE [sig EXCEPT ![Watcher].at = "signal"]
    /\ UNCHANGED <<watcher_on, used, queued, token, order, parkVars, mutex,
                   ownerVars, owed>>

Signal(t) ==
    /\ sig[t].at = "signal"
    /\ \/ /\ parked = None
          /\ pending_wake' = TRUE
          /\ sig' = [sig EXCEPT ![t].at = "idle"]
          /\ UNCHANGED looper_woke
       \/ /\ parked # None
          /\ looper_woke' = TRUE
          /\ sig' = [sig EXCEPT ![t] = [at |-> "lock", c |-> parked]]
          /\ UNCHANGED pending_wake
    /\ UNCHANGED <<watcher_on, fdVars, parked, mutex, ownerVars, owed>>

(* Mutant of LockParked: broadcasts without the mutex of the wait.         *)
SkipLock(t) ==
    /\ sig[t].at = "lock"
    /\ sig' = [sig EXCEPT ![t].at = "broadcast"]
    /\ UNCHANGED <<watcher_on, fdVars, parkVars, mutex, ownerVars, owed>>

LockParked(t) ==
    /\ sig[t].at = "lock"
    /\ mutex[sig[t].c] = None
    /\ mutex' = [mutex EXCEPT ![sig[t].c] = t]
    /\ sig' = [sig EXCEPT ![t].at = "broadcast"]
    /\ UNCHANGED <<watcher_on, fdVars, parkVars, ownerVars, owed>>

(* pthread_cond_broadcast and unlock.  The owner is reached only if it     *)
(* sleeps on that very condition.                                          *)
Broadcast(t) ==
    /\ sig[t].at = "broadcast"
    /\ mutex' = [mutex EXCEPT ![sig[t].c] = None]
    /\ at' = IF at = "asleep" /\ ctx.w = sig[t].c THEN "waking" ELSE at
    /\ sig' = [sig EXCEPT ![t] = [at |-> "idle", c |-> None]]
    /\ UNCHANGED <<watcher_on, fdVars, parkVars, ctx, frames, event, owed>>

-----------------------------------------------------------------------------
(* tipsy_pthread_cond_wait and tipsy_pthread_cond_timedwait, owner only.   *)

(* The engine locks the mutex, ready to wait.                              *)
EnterWait(w) ==
    /\ at = "run"
    /\ NestedWaits <= MaxNesting
    /\ mutex[w] = None
    /\ mutex' = [mutex EXCEPT ![w] = Owner]
    /\ ctx' = [w |-> w, n |-> 0]
    /\ at' = "held"
    /\ UNCHANGED <<watcher_on, fdVars, parkVars, sig, frames, event, owed>>

(* looper_arm_cond: a signal that came while nobody was parked is taken    *)
(* now, and the mutex is released for a nested poll.                       *)
ArmPending ==
    /\ watcher_on
    /\ at = "held"
    /\ pending_wake \/ looper_woke
    /\ pending_wake' = FALSE
    /\ looper_woke' = FALSE
    /\ parked' = None
    /\ owed' = Ready
    /\ mutex' = [mutex EXCEPT ![ctx.w] = None]
    /\ at' = "poll"
    /\ UNCHANGED <<watcher_on, fdVars, sig, ctx, frames, event>>

Arm ==
    /\ watcher_on
    /\ at = "held"
    /\ ~pending_wake /\ ~looper_woke
    /\ parked' = ctx.w
    /\ at' = "armed"
    /\ UNCHANGED <<watcher_on, fdVars, pending_wake, looper_woke, mutex, sig,
                   ctx, frames, event, owed>>

(* pthread_cond_wait releases the mutex and sleeps in one step.            *)
Sleep ==
    /\ at = "armed"
    /\ mutex' = [mutex EXCEPT ![ctx.w] = None]
    /\ at' = "asleep"
    /\ UNCHANGED <<watcher_on, fdVars, parkVars, sig, ctx, frames, event, owed>>

(* Without a watcher the wait is cut in slices of 16 ms.                   *)
SleepSlice ==
    /\ ~watcher_on
    /\ at = "held"
    /\ mutex' = [mutex EXCEPT ![ctx.w] = None]
    /\ at' = "slice"
    /\ UNCHANGED <<watcher_on, fdVars, parkVars, sig, ctx, frames, event, owed>>

(* Mutant of EndSlice: the wait returns from a slice without a poll.       *)
EndSliceUnpolled ==
    /\ at = "slice"
    /\ mutex[ctx.w] = None
    /\ at' = "relock"
    /\ UNCHANGED <<watcher_on, fdVars, parkVars, mutex, sig, ctx, frames, event,
                   owed>>

(* The slice ends: the mutex is retaken and released for a nested poll.    *)
EndSlice ==
    /\ at = "slice"
    /\ mutex[ctx.w] = None
    /\ at' = "poll"
    /\ UNCHANGED <<watcher_on, fdVars, parkVars, mutex, sig, ctx, frames, event,
                   owed>>

(* An engine thread signals the condition under its mutex, or the wait     *)
(* returns spuriously.  A slice that ends so returns without a poll.       *)
Notify ==
    /\ at \in {"asleep", "slice"}
    /\ mutex[ctx.w] = None
    /\ at' = IF at = "asleep" THEN "waking" ELSE "notified"
    /\ UNCHANGED <<watcher_on, fdVars, parkVars, mutex, sig, ctx, frames, event,
                   owed>>

(* The deadline of a timed wait passes.                                    *)
TimeOut ==
    /\ at = "asleep"
    /\ ctx.w \in TimedWaits
    /\ at' = "waking"
    /\ UNCHANGED <<watcher_on, fdVars, parkVars, mutex, sig, ctx, frames, event,
                   owed>>

(* The wait has its mutex back and calls looper_disarm_cond; if the looper *)
(* signalled meanwhile, it releases the mutex for a nested poll.           *)
Disarm ==
    /\ at = "waking"
    /\ mutex[ctx.w] = None
    /\ parked' = None
    /\ pending_wake' = FALSE
    /\ looper_woke' = FALSE
    /\ \/ /\ pending_wake \/ looper_woke
          /\ owed' = Ready
          /\ at' = "poll"
          /\ UNCHANGED mutex
       \/ /\ ~pending_wake /\ ~looper_woke
          /\ mutex' = [mutex EXCEPT ![ctx.w] = Owner]
          /\ at' = "held"
          /\ UNCHANGED owed
    /\ UNCHANGED <<watcher_on, fdVars, sig, ctx, frames, event>>

(* looper_poll_unlocked (or, when a slice was notified, the timed wait     *)
(* itself) takes the mutex back and the wait returns 0.  The engine finds  *)
(* its predicate false and waits again (Arm), or goes on.                  *)
Relock ==
    /\ at \in {"relock", "notified"}
    /\ mutex[ctx.w] = None
    /\ mutex' = [mutex EXCEPT ![ctx.w] = Owner]
    /\ at' = "held"
    /\ UNCHANGED <<watcher_on, fdVars, parkVars, sig, ctx, frames, event, owed>>

LeaveWait ==
    /\ at = "held"
    /\ mutex' = [mutex EXCEPT ![ctx.w] = None]
    /\ ctx' = NoWait
    /\ at' = "run"
    /\ UNCHANGED <<watcher_on, fdVars, parkVars, sig, frames, event, owed>>

-----------------------------------------------------------------------------
(* tipsy_native_main_idle, poll_looper_nested and pollOnce, owner only.    *)

EnterIdle ==
    /\ at = "run"
    /\ frames = <<>>
    /\ at' = "idle"
    /\ UNCHANGED <<watcher_on, fdVars, parkVars, mutex, sig, ctx, frames, event,
                   owed>>

(* The blocking poll is interrupted by a POSIX signal and reports a wake.  *)
Interrupted ==
    /\ at = "idle"
    /\ at' = "poll"
    /\ UNCHANGED <<watcher_on, fdVars, parkVars, mutex, sig, ctx, frames, event,
                   owed>>

(* Mutant of TakeEvent: one round too many.                                *)
TakeEventOnceMore(s) ==
    /\ s \in Ready
    /\ \A r \in Ready : <<r, s>> \notin order
    /\ order' = AtTheEnd(s)
    /\ \/ at = "idle" /\ UNCHANGED ctx
       \/ /\ at = "poll"
          /\ ctx.n <= NestLimit
          /\ ctx' = [ctx EXCEPT !.n = @ + 1]
    /\ event' = s
    /\ at' = "event"
    /\ UNCHANGED <<watcher_on, used, queued, token, edge, parkVars, mutex, sig,
                   frames, owed>>

(* epoll_wait returns the first ready source.  Only the rounds of          *)
(* poll_looper_nested count towards its limit.                             *)
TakeEvent(s) ==
    /\ s \in Ready
    /\ \A r \in Ready : <<r, s>> \notin order
    /\ order' = AtTheEnd(s)
    /\ \/ at = "idle" /\ UNCHANGED ctx
       \/ /\ at = "poll"
          /\ ctx.n < NestLimit
          /\ ctx' = [ctx EXCEPT !.n = @ + 1]
    /\ event' = s
    /\ at' = "event"
    /\ UNCHANGED <<watcher_on, used, queued, token, edge, parkVars, mutex, sig,
                   frames, owed>>

(* A round that finds nothing, or the last round, ends the nested poll.    *)
EndPoll ==
    /\ at = "poll"
    /\ Ready = {} \/ ctx.n = NestLimit
    /\ ctx' = [ctx EXCEPT !.n = 0]
    /\ at' = IF ctx.w = None THEN "run" ELSE "relock"
    /\ UNCHANGED <<watcher_on, fdVars, parkVars, mutex, sig, frames, event, owed>>

(* The wake pipe is drained.                                               *)
DrainWake ==
    /\ at = "event"
    /\ event = WakeR
    /\ token' = FALSE
    /\ owed' = owed \ {WakeR}
    /\ event' = None
    /\ at' = "poll"
    /\ UNCHANGED <<watcher_on, used, queued, edge, order, parkVars, mutex, sig,
                   ctx, frames>>

(* The registration is looked up; the callback runs with no lock held, in  *)
(* a frame above the suspended poll, and reads one message.                *)
RunCallback ==
    /\ at = "event"
    /\ event \in CallbackFds \cap used
    /\ queued' = [queued EXCEPT ![event] = IF @ > 0 THEN @ - 1 ELSE 0]
    /\ owed' = IF queued[event] > 1 THEN owed ELSE owed \ {event}
    /\ frames' = Append(frames, ctx)
    /\ ctx' = NoWait
    /\ event' = None
    /\ at' = "run"
    /\ UNCHANGED <<watcher_on, used, token, edge, order, parkVars, mutex, sig>>

(* No callback: the ident is returned to a caller that ignores it.  So it  *)
(* is when the descriptor was removed after epoll_wait had reported it.    *)
IgnoreEvent ==
    /\ at = "event"
    /\ event \in Fds \ (CallbackFds \cap used)
    /\ event' = None
    /\ at' = "poll"
    /\ UNCHANGED <<watcher_on, fdVars, parkVars, mutex, sig, ctx, frames, owed>>

ReturnCallback ==
    /\ at = "run"
    /\ frames # <<>>
    /\ ctx' = frames[Len(frames)]
    /\ frames' = SubSeq(frames, 1, Len(frames) - 1)
    /\ at' = "poll"
    /\ UNCHANGED <<watcher_on, fdVars, parkVars, mutex, sig, event, owed>>

-----------------------------------------------------------------------------
Environment ==
    \E f \in Fds : Post(f) \/ AddFd(f) \/ RemoveFd(f)

SignalStep(t) == Signal(t) \/ LockParked(t) \/ Broadcast(t)

WaitStep ==
    \/ \E w \in Waits : EnterWait(w)
    \/ ArmPending \/ Arm \/ Sleep \/ SleepSlice \/ EndSlice
    \/ Notify \/ TimeOut \/ Disarm \/ Relock \/ LeaveWait

PollStep ==
    \/ EnterIdle \/ Interrupted \/ EndPoll
    \/ \E s \in Sources : TakeEvent(s)
    \/ DrainWake \/ RunCallback \/ IgnoreEvent \/ ReturnCallback

Next ==
    \/ Environment
    \/ \E t \in Posters : Wake(t)
    \/ Watch
    \/ \E t \in Signallers : SignalStep(t)
    \/ WaitStep
    \/ PollStep

Spec == Init /\ [][Next]_vars

-----------------------------------------------------------------------------
(* Fairness: the threads run, a mutex that is free over and over is        *)
(* obtained, and the engine's callbacks return (strong fairness).  The     *)
(* engine may never signal its condition, post or wake.                    *)

OwnerCode ==
    \/ ArmPending \/ Arm \/ Sleep \/ SleepSlice \/ EndSlice \/ Disarm \/ Relock
    \/ LeaveWait \/ EndPoll \/ DrainWake \/ RunCallback \/ IgnoreEvent
    \/ ReturnCallback
    \/ \E s \in Sources : TakeEvent(s)

Fairness ==
    /\ WF_vars(OwnerCode)
    /\ SF_vars(Disarm) /\ SF_vars(Relock) /\ SF_vars(EndSlice)
    /\ SF_vars(ReturnCallback)
    /\ WF_vars(Watch)
    /\ \A t \in Signallers : SF_vars(SignalStep(t))

FairSpec == Spec /\ Fairness

-----------------------------------------------------------------------------
TypeOK ==
    /\ watcher_on \in BOOLEAN
    /\ used \in SUBSET Fds
    /\ queued \in [Fds -> 0..MaxQueued]
    /\ token \in BOOLEAN
    /\ edge \in BOOLEAN
    /\ order \in SUBSET (Sources \X Sources)
    /\ parked \in Waits \cup {None}
    /\ pending_wake \in BOOLEAN
    /\ looper_woke \in BOOLEAN
    /\ mutex \in [Waits -> Signallers \cup {Owner, None}]
    /\ sig \in [Signallers -> SignalState]
    /\ at \in {"run", "held", "armed", "asleep", "waking", "slice", "notified",
              "relock", "idle", "poll", "event"}
    /\ ctx \in Context
    /\ frames \in Seq(Context)
    /\ event \in Sources \cup {None}
    /\ owed \in SUBSET Sources

(* A wake-up is on its way to the owner: the watcher still has the edge or *)
(* is about to signal, or somebody is about to broadcast the condition the *)
(* owner sleeps on.                                                        *)
WakeUpOnItsWay ==
    \/ edge
    \/ sig[Watcher].at = "signal"
    \/ \E t \in Signallers : sig[t].at \in {"lock", "broadcast"} /\ sig[t].c = ctx.w

(* No lost wake-up: the owner never sleeps in a condition wait over a      *)
(* ready source that nobody is about to tell it of, unless it has already  *)
(* taken the signal for that source and is still below the poll that       *)
(* serves it.  Arming and signalling race; so do the mutex hand-over and   *)
(* pthread_cond_wait.                                                      *)
NoLostWakeup ==
    (at = "asleep" /\ ~(Ready \subseteq owed)) => WakeUpOnItsWay

(* The inductive strengthening of NoLostWakeup.                            *)

Parks == at \in {"armed", "asleep", "waking"}

(* The looper publishes the wait exactly while the owner is in it.         *)
ParkedIsPublished == parked = IF Parks THEN ctx.w ELSE None

WaitKnown ==
    Parks \/ at \in {"held", "slice", "notified", "relock"} => ctx.w \in Waits

(* The mutex keeps signallers out between arming and sleeping.             *)
MutexHeld ==
    /\ at \in {"held", "armed"} => mutex[ctx.w] = Owner
    /\ \A t \in Signallers :
          /\ sig[t].at \in {"lock", "broadcast"} => sig[t].c \in Waits
          /\ sig[t].at = "broadcast" => mutex[sig[t].c] = t

(* A signal given to a parked owner is looper_woke, and as long as that    *)
(* has not got the owner up, its sender is still to broadcast.             *)
SignalUnderWay ==
    /\ Parks => ~pending_wake
    /\ (at \in {"armed", "asleep"} /\ looper_woke) =>
          \E t \in Signallers : sig[t].at \in {"lock", "broadcast"} /\ sig[t].c = ctx.w

(* A ready source the owner has not been told of is still known to the     *)
(* watcher, or is in the looper's flags.                                   *)
SourcesAccounted ==
    ~(Ready \subseteq owed) =>
        edge \/ sig[Watcher].at = "signal" \/ pending_wake \/ looper_woke

LooperInv ==
    /\ TypeOK
    /\ ParkedIsPublished
    /\ WaitKnown
    /\ MutexHeld
    /\ SignalUnderWay
    /\ SourcesAccounted

(* What the comment above tipsy_pthread_cond_wait promises, without that   *)
(* exception: a source with a callback that is ready while the owner       *)
(* sleeps will be polled.                                                  *)
PostedFdsRunDuringWait ==
    (at = "asleep" /\ Ready \cap CallbackFds # {})
        => WakeUpOnItsWay

(* A callback source that is ready while the owner waits is polled, or     *)
(* unregistered, or the owner has left the wait; even if no thread ever    *)
(* signals the condition: by the watcher's broadcast, or, without a        *)
(* watcher, because a slice that times out is followed by a poll.  Only a  *)
(* slice that the engine's own signal ends skips the poll.  With two       *)
(* callback sources it holds of callbacks that do not wait themselves      *)
(* (PostedFdsRunDuringWait), and it takes as many rounds of a nested poll  *)
(* as there are sources.                                                   *)
ReadyIsPolledWhileWaiting ==
    \A f \in CallbackFds :
        (at \in {"asleep", "slice"} /\ f \in Ready)
            ~> \/ event = f
               \/ f \notin used
               \/ at = "run" /\ frames = <<>>
               \/ at = "notified"
=============================================================================
