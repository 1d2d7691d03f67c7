--------------------------- MODULE GamepadDelivery ---------------------------
(***************************************************************************)
(* The controller path: the evdev pump goroutine (internal/gamepad), the   *)
(* delivery state of internal/jni/gamepad.go that it shares with the X11   *)
(* reader thread (window focus) and the launch (start and stop), and the   *)
(* engine at the other end.  Axes off their rest position and buttons held *)
(* down are both controls.  Sections under gamepadState.mu are one action; *)
(* a settings snapshot is read before the lock is taken.                   *)
(***************************************************************************)
EXTENDS Naturals, FiniteSets

CONSTANTS
    Devices,    \* evdev nodes, numbered in the order of their paths
    Controls,   \* buttons and axes
    NoPad       \* no device

(* Rescan sorts by path: any set of nodes has a first one.                 *)
ASSUME GamepadAssumption ==
    /\ NoPad \notin Devices
    /\ \A s \in SUBSET Devices : s # {} => \E d \in s : \A e \in s : d <= e

VARIABLES
    enabled,    \* gamepad.enabled in the settings file
    cached,     \* what gamepadLive serves without reading the file
    nodes,      \* gamepad nodes the directory holds
    fd,         \* the open device: still there, and its controls' latest state
    hot,        \* a rescan is due: inotify, or the recovery deadline
    pump,       \* the pump goroutine: where it is and its locals
    running, armed, stopping,   \* gamepadPump; stopping: stopCh is closed
    focused,
    view,       \* gamepadState, and what the engine was told (pad, held)
    target,     \* the direct gamepad target is wired
    focus,      \* gamepadNoteFocus on the X11 reader thread
    session     \* the launch

hostVars == <<enabled, nodes, fd>>
gateVars == <<running, armed, stopping>>
vars == <<hostVars, cached, hot, pump, gateVars, focused, view, target, focus,
          session>>

-----------------------------------------------------------------------------
Lowest == IF nodes = {} THEN NoPad
          ELSE CHOOSE d \in nodes : \A e \in nodes : d <= e

NoPump == [at |-> "none", slot |-> NoPad, want |-> NoPad, dropped |-> FALSE,
           reader |-> {}, snap |-> FALSE]

NoFd == [alive |-> FALSE, report |-> {}]

Init ==
    /\ enabled \in BOOLEAN
    /\ cached = enabled
    /\ nodes \in SUBSET Devices
    /\ fd = NoFd
    /\ hot = FALSE
    /\ pump = NoPump
    /\ running = FALSE /\ armed = FALSE /\ stopping = FALSE
    /\ focused = TRUE
    /\ view = [announced |-> NoPad, withheld |-> NoPad, base |-> {},
               pad |-> NoPad, held |-> {}]
    /\ target = FALSE
    /\ focus = [at |-> "idle", snap |-> FALSE]
    /\ session = "off"

-----------------------------------------------------------------------------
(* The sections under gamepadState.mu, as functions of the view v.         *)

Forget(v) == [v EXCEPT !.announced = NoPad, !.withheld = NoPad, !.base = {}]

(* Mutant of Release: sends the releases and keeps the baseline.           *)
ReleaseKeep(v) == IF target THEN [v EXCEPT !.held = @ \ v.base] ELSE v

(* synthesizeGamepadReleaseLocked                                          *)
Release(v) == IF target THEN [v EXCEPT !.held = @ \ v.base, !.base = {}] ELSE v

(* announceGamepadLocked                                                   *)
Announce(v, d) ==
    IF target THEN [v EXCEPT !.pad = d, !.announced = d, !.withheld = NoPad]
    ELSE v

(* Release, then the disconnect event.                                     *)
TakeAway(v) == IF target THEN [Release(v) EXCEPT !.pad = NoPad] ELSE v

(* withdrawGamepadForSwitchLocked                                          *)
Withdraw(v) ==
    IF v.announced = NoPad THEN v
    ELSE [TakeAway(v) EXCEPT !.base = {}, !.withheld = v.announced,
                             !.announced = NoPad]

(* reconcileGamepadSwitchLocked                                            *)
Reconcile(v, on, focus_now) ==
    IF ~on THEN Withdraw(v)
    ELSE IF v.withheld # NoPad /\ v.announced = NoPad /\ focus_now
         THEN Announce(v, v.withheld)
         ELSE v

(* GamepadConnected                                                        *)
Connected(v, d, on) ==
    IF ~on
    THEN IF v.announced # NoPad THEN Withdraw(v) ELSE [v EXCEPT !.withheld = d]
    ELSE IF v.announced = NoPad THEN Announce(v, d)
    ELSE [v EXCEPT !.announced = d, !.pad = IF target THEN d ELSE @]

(* GamepadDisconnected                                                     *)
Disconnected(v) ==
    LET u == [v EXCEPT !.withheld = NoPad]
    IN  IF u.announced = NoPad THEN u
        ELSE [TakeAway(u) EXCEPT !.announced = NoPad]

(* Mutant of Handle: a frame is not held back while the window has no focus. *)
HandleUnfocused(v, f, on) ==
    LET u == Reconcile(v, on, focused)
    IN  IF ~on \/ u.announced = NoPad \/ ~target THEN u
        ELSE [u EXCEPT !.base = f, !.held = (@ \cup (f \ u.base)) \ (u.base \ f)]

(* handleGamepadFrameSnap: edges against the baseline, for an announced    *)
(* pad and a focused window.                                               *)
Handle(v, f, on) ==
    LET u == Reconcile(v, on, focused)
    IN  IF ~on \/ ~focused \/ u.announced = NoPad \/ ~target THEN u
        ELSE [u EXCEPT !.base = f, !.held = (@ \cup (f \ u.base)) \ (u.base \ f)]

(* LiveConfig.Get: cached, or the file once the interval has passed.       *)
Get(s) == s \in {cached, enabled} /\ cached' = s

-----------------------------------------------------------------------------
(* The user: settings, pads plugged and unplugged, controls moved.         *)

Toggle ==
    /\ enabled' = ~enabled
    /\ UNCHANGED <<nodes, fd, cached, hot, pump, gateVars, focused, view,
                   target, focus, session>>

PlugOrUnplug(d) ==
    /\ nodes' = IF d \in nodes THEN nodes \ {d} ELSE nodes \cup {d}
    /\ fd' = IF pump.slot = d THEN NoFd ELSE fd
    /\ hot' = TRUE
    /\ UNCHANGED <<enabled, cached, pump, gateVars, focused, view, target,
                   focus, session>>

Move(c) ==
    /\ fd.alive
    /\ fd' = [fd EXCEPT !.report = IF c \in @ THEN @ \ {c} ELSE @ \cup {c}]
    /\ UNCHANGED <<enabled, nodes, cached, hot, pump, gateVars, focused, view,
                   target, focus, session>>

-----------------------------------------------------------------------------
(* The pump goroutine: ReadyPump.Run, Manager.Rescan and the callbacks.    *)

(* Run may fail before it serves anything; the loop is over then.          *)
RunStarts ==
    /\ pump.at = "start"
    /\ \E s \in {"scan", "done"} : pump' = [pump EXCEPT !.at = s]
    /\ UNCHANGED <<hostVars, cached, hot, gateVars, focused, view, target, focus,
                   session>>

(* Mutant of RunStops: leaves the device open.                             *)
RunStopsOpen ==
    /\ pump.at = "poll"
    /\ stopping
    /\ pump' = [NoPump EXCEPT !.at = "done"]
    /\ UNCHANGED <<hostVars, cached, hot, gateVars, focused, view, target, focus,
                   session>>

(* Mutant of RunStops: a pending rescan goes first.                        *)
RunStopsLast ==
    /\ pump.at = "poll"
    /\ stopping
    /\ ~hot
    /\ pump' = [NoPump EXCEPT !.at = "done"]
    /\ fd' = NoFd
    /\ UNCHANGED <<enabled, nodes, cached, hot, gateVars, focused, view, target,
                   focus, session>>

(* The eventfd is readable; Manager.Close drops the slot with no callback. *)
RunStops ==
    /\ pump.at = "poll"
    /\ stopping
    /\ pump' = [NoPump EXCEPT !.at = "done"]
    /\ fd' = NoFd
    /\ UNCHANGED <<enabled, nodes, cached, hot, gateVars, focused, view, target,
                   focus, session>>

(* The first half of Rescan: scan, compare, close what is not wanted.  A   *)
(* node that came back may be another pad than the one that left.          *)
Scan ==
    /\ pump.at = "scan" \/ (pump.at = "poll" /\ hot)
    /\ hot' = FALSE
    /\ \/ /\ Lowest = pump.slot
          /\ pump' = [pump EXCEPT !.at = "poll"]
          /\ UNCHANGED fd
       \/ /\ Lowest = NoPad /\ pump.slot # NoPad
          /\ pump' = [pump EXCEPT !.at = "gone", !.slot = NoPad]
          /\ fd' = NoFd
       \/ /\ Lowest # NoPad
          /\ Lowest # pump.slot \/ ~fd.alive
          /\ pump' = [pump EXCEPT !.at = "open", !.slot = NoPad, !.want = Lowest,
                                  !.dropped = pump.slot # NoPad]
          /\ fd' = NoFd
    /\ UNCHANGED <<enabled, nodes, cached, gateVars, focused, view, target, focus,
                   session>>

(* The second half: the node opens, or is gone again and is tried later.   *)
Open ==
    /\ pump.at = "open"
    /\ LET next(s) == [pump EXCEPT !.at = IF pump.dropped THEN "gone" ELSE s,
                                   !.want = NoPad, !.dropped = FALSE]
       IN  \/ /\ pump.want \in nodes
              /\ pump' = [next("connect") EXCEPT !.slot = pump.want, !.reader = {}]
              /\ fd' = [NoFd EXCEPT !.alive = TRUE]
              /\ UNCHANGED hot
           \/ /\ pump.want \notin nodes
              /\ pump' = next("poll")
              /\ hot' = TRUE
              /\ UNCHANGED fd
    /\ UNCHANGED <<enabled, nodes, cached, gateVars, focused, view, target, focus,
                   session>>

(* A read fails: dropCurrent, to be followed by a rescan.                  *)
ReadFails ==
    /\ pump.at = "poll"
    /\ pump.slot # NoPad /\ ~fd.alive
    /\ pump' = [pump EXCEPT !.at = "lost", !.slot = NoPad]
    /\ fd' = NoFd
    /\ UNCHANGED <<enabled, nodes, cached, hot, gateVars, focused, view, target,
                   focus, session>>

OnDisconnect ==
    /\ pump.at \in {"gone", "lost"}
    /\ view' = Disconnected(view)
    /\ pump' = [pump EXCEPT !.at = IF @ = "lost" THEN "scan"
                                   ELSE IF pump.slot # NoPad THEN "connect"
                                   ELSE "poll"]
    /\ UNCHANGED <<hostVars, cached, hot, gateVars, focused, target, focus, session>>

OnConnect ==
    /\ pump.at = "connect"
    /\ \E s \in BOOLEAN :
          Get(s) /\ pump' = [pump EXCEPT !.at = "announce", !.snap = s]
    /\ UNCHANGED <<hostVars, hot, gateVars, focused, view, target, focus, session>>

GamepadConnected ==
    /\ pump.at = "announce"
    /\ view' = Connected(view, pump.slot, pump.snap)
    /\ pump' = [pump EXCEPT !.at = "poll"]
    /\ UNCHANGED <<hostVars, cached, hot, gateVars, focused, target, focus, session>>

OnFrame ==
    /\ pump.at = "poll"
    /\ fd.alive
    /\ fd.report # pump.reader
    /\ \E s \in BOOLEAN :
          /\ Get(s)
          /\ pump' = [pump EXCEPT !.at = "frame", !.snap = s, !.reader = fd.report]
    /\ UNCHANGED <<hostVars, hot, gateVars, focused, view, target, focus, session>>

HandleFrame ==
    /\ pump.at = "frame"
    /\ view' = Handle(view, pump.reader, pump.snap)
    /\ pump' = [pump EXCEPT !.at = "poll"]
    /\ UNCHANGED <<hostVars, cached, hot, gateVars, focused, target, focus, session>>

-----------------------------------------------------------------------------
(* Starting and stopping the pump, by the launch and by the focus thread.  *)

(* startGamepadPumpLocked                                                  *)
StartPump ==
    /\ running' = TRUE
    /\ stopping' = FALSE
    /\ pump' = [NoPump EXCEPT !.at = "start"]

(* Mutant of CollectPump: the pump stays marked as running.                *)
CollectHalf ==
    /\ pump.at = "done"
    /\ pump' = NoPump
    /\ stopping' = FALSE
    /\ UNCHANGED running

(* stopGamepadPump after <-done.                                           *)
CollectPump ==
    /\ pump.at = "done"
    /\ pump' = NoPump
    /\ stopping' = FALSE
    /\ running' = FALSE

-----------------------------------------------------------------------------
(* gamepadNoteFocus, while the window's event thread runs.                 *)

Window == session \notin {"off", "closing", "stopWait", "stopped"}

GainFocus ==
    /\ Window
    /\ focus.at = "idle"
    /\ cached' = enabled
    /\ focus' = [at |-> "reconcile", snap |-> enabled]
    /\ UNCHANGED <<hostVars, hot, pump, gateVars, focused, view, target, session>>

ReconcileSwitch ==
    /\ focus.at = "reconcile"
    /\ focused' = TRUE
    /\ view' = Reconcile(view, focus.snap, TRUE)
    /\ focus' = [focus EXCEPT !.at = "apply"]
    /\ UNCHANGED <<hostVars, cached, hot, pump, gateVars, target, session>>

(* gamepadApplySwitchToPump                                                *)
ApplyOff ==
    /\ focus.at = "apply"
    /\ ~focus.snap
    /\ focus' = [focus EXCEPT !.at = IF running THEN "wait" ELSE "idle"]
    /\ stopping' = running
    /\ UNCHANGED <<hostVars, cached, hot, pump, running, armed, focused, view,
                   target, session>>

ApplyOn ==
    /\ focus.at = "apply"
    /\ focus.snap
    /\ focus' = [focus EXCEPT !.at = "idle"]
    /\ IF armed /\ ~running /\ target THEN StartPump
       ELSE UNCHANGED <<running, stopping, pump>>
    /\ UNCHANGED <<hostVars, cached, hot, armed, focused, view, target, session>>

Parked ==
    /\ focus.at = "wait"
    /\ CollectPump
    /\ focus' = [focus EXCEPT !.at = "forget"]
    /\ UNCHANGED <<hostVars, cached, hot, armed, focused, view, target, session>>

ForgetWithheld ==
    /\ focus.at = "forget"
    /\ view' = [view EXCEPT !.withheld = NoPad]
    /\ focus' = [focus EXCEPT !.at = "idle"]
    /\ UNCHANGED <<hostVars, cached, hot, pump, gateVars, focused, target, session>>

LoseFocus ==
    /\ Window
    /\ focus.at = "idle"
    /\ focused' = FALSE
    /\ view' = IF target THEN Release(view) ELSE [view EXCEPT !.base = {}]
    /\ UNCHANGED <<hostVars, cached, hot, pump, gateVars, target, focus, session>>

-----------------------------------------------------------------------------
(* The launch.  The engine instance is new when its target is set.         *)

OpenWindow ==
    /\ session = "off"
    /\ session' = "window"
    /\ UNCHANGED <<hostVars, cached, hot, pump, gateVars, focused, view, target,
                   focus>>

SetTarget ==
    /\ session = "window"
    /\ session' = "set"
    /\ target' = TRUE
    /\ view' = [view EXCEPT !.pad = NoPad, !.held = {}]
    /\ UNCHANGED <<hostVars, cached, hot, pump, gateVars, focused, focus>>

ResetDelivery ==
    /\ session = "set"
    /\ session' = "wired"
    /\ view' = Forget(view)
    /\ UNCHANGED <<hostVars, cached, hot, pump, gateVars, focused, target, focus>>

Start ==
    /\ session = "wired"
    /\ session' = "on"
    /\ armed' = TRUE
    /\ cached' = enabled
    /\ IF enabled /\ ~running THEN StartPump
       ELSE UNCHANGED <<running, stopping, pump>>
    /\ UNCHANGED <<hostVars, hot, focused, view, target, focus>>

(* The window's event thread is joined before the session shuts down.      *)
CloseWindow ==
    /\ session = "on"
    /\ focus.at = "idle"
    /\ session' = "closing"
    /\ UNCHANGED <<hostVars, cached, hot, pump, gateVars, focused, view, target,
                   focus>>

Stop ==
    /\ session = "closing"
    /\ armed' = FALSE
    /\ stopping' = running
    /\ session' = IF running THEN "stopWait" ELSE "stopped"
    /\ UNCHANGED <<hostVars, cached, hot, pump, running, focused, view, target,
                   focus>>

StopWaits ==
    /\ session = "stopWait"
    /\ CollectPump
    /\ session' = "stopped"
    /\ UNCHANGED <<hostVars, cached, hot, armed, focused, view, target, focus>>

(* Mutant of StopResets: what the engine was told is kept.                 *)
StopKeeps ==
    /\ session = "stopped"
    /\ session' = "off"
    /\ UNCHANGED <<hostVars, cached, hot, pump, gateVars, focused, view, target,
                   focus>>

StopResets ==
    /\ session = "stopped"
    /\ session' = "off"
    /\ view' = Forget(view)
    /\ UNCHANGED <<hostVars, cached, hot, pump, gateVars, focused, target, focus>>

-----------------------------------------------------------------------------
User ==
    \/ Toggle
    \/ \E d \in Devices : PlugOrUnplug(d)
    \/ \E c \in Controls : Move(c)

PumpStep ==
    \/ RunStarts \/ RunStops \/ Scan \/ Open \/ ReadFails
    \/ OnDisconnect \/ OnConnect \/ GamepadConnected \/ OnFrame \/ HandleFrame

FocusStep == ReconcileSwitch \/ ApplyOff \/ ApplyOn \/ Parked \/ ForgetWithheld

SessionStep == ResetDelivery \/ Start \/ Stop \/ StopWaits \/ StopResets

Next ==
    \/ User \/ PumpStep \/ FocusStep \/ SessionStep
    \/ GainFocus \/ LoseFocus
    \/ OpenWindow \/ SetTarget \/ CloseWindow

Spec == Init /\ [][Next]_vars

(* The threads run; the shutdown relay writes the eventfd in time, and a   *)
(* round of poll looks at it first, then at inotify, then at the device.   *)
FairSpec ==
    /\ Spec
    /\ WF_vars(PumpStep) /\ SF_vars(RunStops) /\ SF_vars(Scan)
    /\ WF_vars(FocusStep)
    /\ WF_vars(SessionStep)

-----------------------------------------------------------------------------
Pads == Devices \cup {NoPad}

PumpType ==
    [at : {"none", "start", "scan", "open", "gone", "lost", "connect", "announce",
           "poll", "frame", "done"},
     slot : Pads, want : Pads, dropped : BOOLEAN, reader : SUBSET Controls,
     snap : BOOLEAN]

ViewType == [announced : Pads, withheld : Pads, base : SUBSET Controls,
             pad : Pads, held : SUBSET Controls]

TypeOK ==
    /\ enabled \in BOOLEAN /\ cached \in BOOLEAN
    /\ nodes \in SUBSET Devices
    /\ fd \in [alive : BOOLEAN, report : SUBSET Controls]
    /\ fd # NoFd => pump.slot # NoPad
    /\ hot \in BOOLEAN
    /\ pump \in PumpType
    /\ running \in BOOLEAN /\ armed \in BOOLEAN /\ stopping \in BOOLEAN
    /\ focused \in BOOLEAN
    /\ view \in ViewType
    /\ target \in BOOLEAN
    /\ focus \in [at : {"idle", "reconcile", "apply", "wait", "forget"},
                  snap : BOOLEAN]
    /\ session \in {"off", "window", "set", "wired", "on", "closing", "stopWait",
                    "stopped"}

(* The diff baseline is what the engine holds, and the announced pad is    *)
(* the one it knows, from the moment its target is wired to the end of the *)
(* session: edges computed against it are never lost or sent twice.        *)
Wired == session \in {"wired", "on", "closing", "stopWait", "stopped"}

EngineAsTold ==
    Wired => view.pad = view.announced /\ view.held = view.base

(* The engine holds no control of a pad it does not have, nor any while    *)
(* the window has no focus.                                                *)
NoStuckControl ==
    Wired /\ (view.pad = NoPad \/ ~focused) => view.held = {}

(* Between two sessions nothing is told to the old engine, though its      *)
(* target stays wired and the next window already gains focus.             *)
ToEngine == <<view.pad, view.held>>

SilentAfterStop ==
    [][(session \in {"off", "window"} /\ session' # "set") => UNCHANGED ToEngine]_vars

(* Comment of gamepadNoteFocus: focus gain withdraws the pad from the      *)
(* engine at once when the switch is off, and parks the pump.  So with the *)
(* switch off and the pump parked the engine knows no pad.                 *)
ParkedPadIsWithdrawn ==
    (session = "on" /\ focus.at = "idle" /\ ~running /\ ~enabled)
        => view.pad = NoPad

(* Stopping never hangs: neither the shutdown nor a focus gain that parks  *)
(* the pump waits for ever.                                                *)
StopReturns ==
    /\ (session = "closing") ~> (session = "off")
    /\ (focus.at = "wait") ~> (focus.at = "idle")

(* With the switch on and a pad plugged in for good, and the window        *)
(* gaining focus now and then, the engine ends up with a pad for good;     *)
(* whatever was toggled, plugged, parked or withheld before.  (It need not *)
(* be described as that pad: see ParkedPadIsWithdrawn.)  A pump whose Run  *)
(* failed is not started again.                                            *)
PumpFailed == pump.at = "done" /\ ~stopping

ControllerComesOn ==
    \A d \in Devices :
        (/\ <>[](enabled /\ session = "on" /\ Lowest = d /\ ~PumpFailed)
         /\ []<><<GainFocus>>_vars)
        => <>[](view.pad # NoPad)
=============================================================================
