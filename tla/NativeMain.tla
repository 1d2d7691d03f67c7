----------------------------- MODULE NativeMain -----------------------------
(***************************************************************************)
(* The native main thread of src/native/call.c on top of its looper        *)
(* (NdkLooper; the Owner is the native main thread).  Other threads submit *)
(* jobs one at a time through g_pending; the main thread takes them when   *)
(* it is not inside a poll, a callback or a condition wait, and is got out *)
(* of those by an ALooper_wake sent while the submitter holds g_mu.        *)
(***************************************************************************)
EXTENDS NdkLooper

VARIABLES
    g_mu,       \* who holds the mutex of the queue: a submitter or nobody
    g_pending,  \* the job being handed over, named by its submitter
    done,       \* the done field of each submitter's job
    ran,        \* history: how often the job of the current submit ran
    sub,        \* where each submitter is
    main,       \* where native_main_thunk is
    job,        \* its local j
    ui_looper   \* the main thread has prepared its looper

queueVars == <<g_mu, g_pending, done, ran, sub, main, job>>
nativeVars == <<queueVars, ui_looper>>
allVars == <<vars, nativeVars>>

NativeInit ==
    /\ Init
    /\ g_mu = None
    /\ g_pending = None
    /\ done = [t \in Posters |-> FALSE]
    /\ ran = [t \in Posters |-> 0]
    /\ sub = [t \in Posters |-> "out"]
    /\ main = "check"
    /\ job = None
    /\ ui_looper = FALSE

Undone == g_pending # None /\ ~done[g_pending]

(* The main thread is in the engine's or its own code, in no poll.         *)
AtTop == at = "run" /\ frames = <<>>

(* Mutant of SignalIdle: leaves without signalling.                        *)
SilentLeave(t) == sub' = [sub EXCEPT ![t] = "out"]

(* pthread_cond_signal(&g_idle), by a submitter on its way out.            *)
SignalIdle(t) ==
    LET waiting == {u \in Posters : sub[u] = "waitIdle"}
        out == [sub EXCEPT ![t] = "out"]
    IN  IF waiting = {} THEN sub' = out
        ELSE \E u \in waiting : sub' = [out EXCEPT ![u] = "start"]

-----------------------------------------------------------------------------
(* submit(), called off the main thread.                                   *)

Submit(t) ==
    /\ sub[t] = "out"
    /\ sub' = [sub EXCEPT ![t] = "start"]
    /\ ran' = [ran EXCEPT ![t] = 0]
    /\ UNCHANGED <<vars, g_mu, g_pending, done, main, job, ui_looper>>

WaitIdle(t) ==
    /\ sub[t] = "start"
    /\ g_mu = None
    /\ g_pending # None
    /\ sub' = [sub EXCEPT ![t] = "waitIdle"]
    /\ UNCHANGED <<vars, g_mu, g_pending, done, ran, main, job, ui_looper>>

(* The job is published and g_work signalled; g_mu stays locked.           *)
Publish(t) ==
    /\ sub[t] = "start"
    /\ g_mu = None
    /\ g_pending = None
    /\ g_mu' = t
    /\ g_pending' = t
    /\ done' = [done EXCEPT ![t] = FALSE]
    /\ sub' = [sub EXCEPT ![t] = "wake"]
    /\ main' = IF main = "waitWork" THEN "check" ELSE main
    /\ UNCHANGED <<vars, ran, job, ui_looper>>

(* Mutant of WakeMain: relies on g_work alone.                             *)
NoWakeMain(t) ==
    /\ sub[t] = "wake"
    /\ sub' = [sub EXCEPT ![t] = "waking"]
    /\ UNCHANGED <<vars, g_mu, g_pending, done, ran, main, job, ui_looper>>

(* tipsy_native_main_wake.                                                 *)
WakeMain(t) ==
    /\ sub[t] = "wake"
    /\ IF ui_looper THEN Wake(t) ELSE UNCHANGED vars
    /\ sub' = [sub EXCEPT ![t] = "waking"]
    /\ UNCHANGED <<g_mu, g_pending, done, ran, main, job, ui_looper>>

HoldsQueue(t) ==
    \/ sub[t] = "waking" /\ sig[t].at = "idle"
    \/ sub[t] = "woken" /\ g_mu = None

WaitDone(t) ==
    /\ HoldsQueue(t)
    /\ ~done[t]
    /\ g_mu' = None
    /\ sub' = [sub EXCEPT ![t] = "waitDone"]
    /\ UNCHANGED <<vars, g_pending, done, ran, main, job, ui_looper>>

(* Mutant of Return: waits once instead of until the job is done.          *)
ReturnUnchecked(t) ==
    /\ HoldsQueue(t)
    /\ done[t] \/ sub[t] = "woken"
    /\ g_mu' = None
    /\ g_pending' = None
    /\ SignalIdle(t)
    /\ UNCHANGED <<vars, done, ran, main, job, ui_looper>>

Return(t) ==
    /\ HoldsQueue(t)
    /\ done[t]
    /\ g_mu' = None
    /\ g_pending' = None
    /\ SignalIdle(t)
    /\ UNCHANGED <<vars, done, ran, main, job, ui_looper>>

(* A condition wait may return without a signal.                           *)
Spurious ==
    /\ \/ /\ \E t \in Posters :
                \/ sub[t] = "waitIdle" /\ sub' = [sub EXCEPT ![t] = "start"]
                \/ sub[t] = "waitDone" /\ sub' = [sub EXCEPT ![t] = "woken"]
          /\ UNCHANGED main
       \/ main = "waitWork" /\ main' = "check" /\ UNCHANGED sub
    /\ UNCHANGED <<vars, g_mu, g_pending, done, ran, job, ui_looper>>

-----------------------------------------------------------------------------
(* native_main_thunk.                                                      *)

(* Mutant of TakeJob: takes a job that is done but not yet collected.      *)
TakeAnyJob ==
    /\ \/ main \in {"check", "failed"}
       \/ main = "idling" /\ AtTop
    /\ g_mu = None
    /\ g_pending # None
    /\ job' = g_pending
    /\ main' = "exec"
    /\ UNCHANGED <<vars, g_mu, g_pending, done, ran, sub, ui_looper>>

TakeJob ==
    /\ \/ main \in {"check", "failed"}
       \/ main = "idling" /\ AtTop
    /\ g_mu = None
    /\ Undone
    /\ job' = g_pending
    /\ main' = "exec"
    /\ UNCHANGED <<vars, g_mu, g_pending, done, ran, sub, ui_looper>>

(* No job: back to tipsy_native_main_idle, or, when that has just failed   *)
(* for want of a looper, to a wait on g_work.                              *)
NoJob ==
    /\ g_mu = None
    /\ ~Undone
    /\ \/ main = "check" /\ main' = "idle"
       \/ main = "idling" /\ AtTop /\ main' = "idle"
       \/ main = "failed" /\ main' = "waitWork"
    /\ UNCHANGED <<vars, g_mu, g_pending, done, ran, sub, job, ui_looper>>

Idle ==
    /\ main = "idle"
    /\ \/ ui_looper /\ EnterIdle /\ main' = "idling"
       \/ ~ui_looper /\ UNCHANGED vars /\ main' = "failed"
    /\ UNCHANGED <<g_mu, g_pending, done, ran, sub, job, ui_looper>>

(* A job of the engine asks for the thread's looper.                       *)
Prepare ==
    /\ main = "exec"
    /\ AtTop
    /\ ui_looper' = TRUE
    /\ UNCHANGED <<vars, queueVars>>

(* Mutant of FinishJob: marks the job done before it wakes nobody.         *)
FinishSilently ==
    /\ main = "exec"
    /\ AtTop
    /\ g_mu = None
    /\ done' = [done EXCEPT ![job] = TRUE]
    /\ ran' = [ran EXCEPT ![job] = @ + 1]
    /\ main' = "idle"
    /\ job' = None
    /\ UNCHANGED <<vars, g_mu, g_pending, sub, ui_looper>>

(* The job returns; its submitter is signalled on g_done.  The loop finds  *)
(* g_pending still set but done, and goes idle.                            *)
FinishJob ==
    /\ main = "exec"
    /\ AtTop
    /\ g_mu = None
    /\ done' = [done EXCEPT ![job] = TRUE]
    /\ ran' = [ran EXCEPT ![job] = @ + 1]
    /\ sub' = IF sub[job] = "waitDone" THEN [sub EXCEPT ![job] = "woken"] ELSE sub
    /\ main' = "idle"
    /\ job' = None
    /\ UNCHANGED <<vars, g_mu, g_pending, ui_looper>>

-----------------------------------------------------------------------------
(* The looper's own steps, once it exists.  The engine waits in a job or   *)
(* in a callback.                                                          *)
EngineRuns == main = "exec" \/ frames # <<>>

LooperStep ==
    /\ ui_looper
    /\ \/ Environment
       \/ Watch
       \/ \E t \in Signallers : SignalStep(t)
       \/ EngineRuns /\ \E w \in Waits : EnterWait(w)
       \/ Interrupted
       \/ Notify \/ TimeOut
       \/ OwnerCode
    /\ UNCHANGED nativeVars

SubmitterStep(t) ==
    WaitIdle(t) \/ Publish(t) \/ WakeMain(t) \/ WaitDone(t) \/ Return(t)

MainStep == TakeJob \/ NoJob \/ Idle \/ FinishJob

NativeNext ==
    \/ \E t \in Posters : Submit(t) \/ SubmitterStep(t)
    \/ Spurious
    \/ MainStep
    \/ Prepare
    \/ LooperStep

NativeSpec == NativeInit /\ [][NativeNext]_allVars

(* Fairness: the threads run, a mutex that is free over and over is        *)
(* obtained, the engine's jobs, callbacks and waits end (each callback and *)
(* each wait on the stack, not only the innermost over and over), and a    *)
(* condition somebody waits on is signalled in the end.                    *)
Looper(A) == ui_looper /\ A /\ UNCHANGED nativeVars

NativeFairness ==
    /\ WF_allVars(Looper(OwnerCode))
    /\ SF_allVars(Looper(Disarm \/ Relock \/ EndSlice))
    /\ \A d \in 0..(MaxNesting + 1) :
          /\ SF_allVars(Looper(Len(frames) = d + 1 /\ ReturnCallback))
          /\ SF_allVars(Looper(Len(frames) = d /\ LeaveWait))
    /\ WF_allVars(Looper(Notify))
    /\ WF_allVars(Looper(Watch))
    /\ \A t \in Signallers : WF_allVars(Looper(SignalStep(t)))
    /\ SF_allVars(FinishJob)
    /\ WF_allVars(MainStep)
    /\ \A t \in Posters : WF_allVars(SubmitterStep(t))

NativeFairSpec == NativeSpec /\ NativeFairness

-----------------------------------------------------------------------------
NativeTypeOK ==
    /\ TypeOK
    /\ g_mu \in Posters \cup {None}
    /\ g_pending \in Posters \cup {None}
    /\ done \in [Posters -> BOOLEAN]
    /\ ran \in [Posters -> Nat]
    /\ sub \in [Posters -> {"out", "start", "waitIdle", "wake", "waking",
                            "waitDone", "woken"}]
    /\ main \in {"check", "idle", "idling", "failed", "waitWork", "exec"}
    /\ job \in Posters \cup {None}
    /\ ui_looper \in BOOLEAN

(* A job lives on its submitter's stack.  While the main thread works on   *)
(* it, the submitter is still inside submit(), and the job is the one in   *)
(* g_pending: nobody replaced it and it has not been marked done.          *)
JobOnLiveStack ==
    main = "exec" =>
        /\ g_pending = job
        /\ sub[job] \in {"waitDone", "woken"}
        /\ ~done[job]

(* submit() returns only after its own job has run, and run once.          *)
RanOnceOnReturn ==
    [][\A t \in Posters :
          (sub[t] # "out" /\ sub'[t] = "out") => ran[t] = 1]_allVars

(* The main thread never blocks, in epoll or on g_work, with a job handed  *)
(* over and its submitter asleep, unless a token in the wake pipe is about *)
(* to get it out.                                                          *)
NoMissedJob ==
    (Undone /\ sub[g_pending] = "waitDone") =>
        /\ main # "waitWork"
        /\ (main = "idling" /\ at = "idle") => token

(* A job that was handed over is taken, run and collected: its submitter   *)
(* (who alone clears g_pending, on the way out of submit()) does not wait  *)
(* for ever, whatever the main thread was blocked in when the job came; in *)
(* particular, the submitter that wakes it with g_mu locked, and broadcasts*)
(* the condition a callback of the main thread waits on, is not blocked by *)
(* it.                                                                     *)
HandedOverReturns == (g_pending # None) ~> (g_pending = None)

(* While somebody waits for the queue, jobs go on being handed over: no    *)
(* signal of g_idle is lost.  (A given submitter may be overtaken for      *)
(* ever: g_idle gives no turn.)                                            *)
QueueMoves ==
    (\E t \in Posters : sub[t] \in {"start", "waitIdle"})
        ~> (\E t \in Posters : sub[t] = "wake")
=============================================================================
