------------------------ MODULE GamepadDeliveryProofs ------------------------
(***************************************************************************)
(* Proofs about GamepadDelivery, for any set of devices and controls: what *)
(* the engine was told agrees with the baseline, no control is stuck, and  *)
(* nothing is told between two sessions.                                   *)
(***************************************************************************)
EXTENDS GamepadDelivery, TLAPS

(* A rescan wants a device or none.                                        *)
LEMMA LowestIsPad == nodes \in SUBSET Devices => Lowest \in Pads
<1> SUFFICES ASSUME nodes \in SUBSET Devices, nodes # {}
             PROVE  Lowest \in nodes
  BY DEF Lowest, Pads
<1>1. \E d \in nodes : \A e \in nodes : d <= e
  BY GamepadAssumption
<1> QED
  BY <1>1 DEF Lowest

(* The engine and the delivery state agree, from the moment the engine is  *)
(* replaced; no pad means no baseline, and so does a window without focus. *)
Agree(v) ==
    /\ v.pad = v.announced /\ v.held = v.base
    /\ v.announced = NoPad => v.base = {}
    /\ ~focused => v.base = {}

Clean(v) == v.announced = NoPad /\ v.withheld = NoPad /\ v.base = {}

(* Before the launch starts the pump none runs; a session that has stopped *)
(* has none left, and the window's thread has come to rest.                *)
Starting == session \in {"off", "window", "set", "wired"}

Phases ==
    /\ Starting => ~armed /\ ~running /\ focus.at \notin {"wait", "forget"}
    /\ session \in {"off", "closing", "stopWait", "stopped"} => focus.at = "idle"
    /\ session \in {"stopWait", "stopped"} => ~armed
    /\ session = "stopped" => ~running
    /\ ~running => pump.at = "none"
    /\ pump.at \in {"none", "start", "done"} => pump.slot = NoPad
    /\ pump.at \in {"connect", "announce"} => pump.slot \in Devices
    /\ session \notin {"off", "window"} => target

(* Until then nothing is remembered; once the engine is replaced they      *)
(* agree.                                                                  *)
Remembered ==
    /\ Starting => Clean(view)
    /\ session \notin {"off", "window"} => Agree(view)

(* The inductive invariant.                                                *)
DeliveryInv == TypeOK /\ Phases /\ Remembered

-----------------------------------------------------------------------------
(* Nothing is remembered, and no pump runs, before the first launch.        *)
LEMMA InitHolds == Init => DeliveryInv
<1> SUFFICES ASSUME Init PROVE DeliveryInv
  OBVIOUS
<1>1. NoPump \in PumpType /\ NoPump.at = "none" /\ NoPump.slot = NoPad
  BY DEF NoPump, PumpType, Pads
<1>2. view \in ViewType
  BY DEF Init, ViewType, Pads
<1>3. TypeOK
  BY <1>1, <1>2 DEF Init, TypeOK, NoFd
<1> QED
  BY <1>1, <1>3 DEF Init, DeliveryInv, Phases, Remembered, Clean, Starting

(* The sections under gamepadState.mu keep the type of the view.           *)
LEMMA SectionTypes ==
  ASSUME NEW v \in ViewType, NEW d \in Pads, NEW f \in SUBSET Controls,
         NEW on, NEW now
  PROVE  /\ Forget(v) \in ViewType
         /\ Release(v) \in ViewType
         /\ Reconcile(v, on, now) \in ViewType
         /\ Connected(v, d, on) \in ViewType
         /\ Disconnected(v) \in ViewType
         /\ Handle(v, f, on) \in ViewType
<1> USE DEF ViewType
<1>1. Forget(v) \in ViewType /\ Release(v) \in ViewType
  BY DEF Forget, Release, Pads
<1>2. ASSUME NEW u \in ViewType
      PROVE  /\ TakeAway(u) \in ViewType
             /\ Announce(u, u.withheld) \in ViewType
             /\ Withdraw(u) \in ViewType
  BY <1>2 DEF Pads, TakeAway, Release, Announce, Withdraw
<1>3. Announce(v, d) \in ViewType
  BY DEF Announce, Pads
<1>4. Reconcile(v, on, now) \in ViewType
  BY <1>2 DEF Reconcile
<1>5. Connected(v, d, on) \in ViewType
  BY <1>2, <1>3 DEF Connected, Pads
<1>6. Disconnected(v) \in ViewType
  BY DEF Disconnected, TakeAway, Release, Pads
<1>7. Reconcile(v, on, focused) \in ViewType
  BY <1>2 DEF Reconcile
<1>8. Handle(v, f, on) \in ViewType
  BY <1>7 DEF Handle
<1> QED
  BY <1>1, <1>4, <1>5, <1>6, <1>8

(* And with the target live they keep engine and baseline in agreement.    *)
LEMMA SectionsAgree ==
  ASSUME NEW v \in ViewType, NEW d \in Devices, NEW on, target, Agree(v)
  PROVE  /\ Agree(Reconcile(v, on, focused))
         /\ Agree(Connected(v, d, on))
<1> USE DEF ViewType, Agree
<1>1. Agree(Reconcile(v, on, focused))
  BY DEF Reconcile, Withdraw, TakeAway, Release, Announce
<1>2. Agree(Connected(v, d, on))
  BY GamepadAssumption DEF Connected, Withdraw, TakeAway, Release, Announce
<1> QED
  BY <1>1, <1>2

(* A frame moves baseline and engine by the same edges.                    *)
LEMMA HandleAgrees ==
  ASSUME NEW v \in ViewType, NEW f \in SUBSET Controls, NEW on, target, Agree(v)
  PROVE  Agree(Handle(v, f, on))
<1> DEFINE u == Reconcile(v, on, focused)
<1>1. u \in ViewType
  BY SectionTypes DEF Pads
<1>2. Agree(u)
  BY DEF Agree, ViewType, Reconcile, Withdraw, TakeAway, Release, Announce
<1> HIDE DEF u
<1>3. Agree([u EXCEPT !.base = f, !.held = (@ \cup (f \ u.base)) \ (u.base \ f)])
      \/ ~focused \/ u.announced = NoPad
  BY <1>1, <1>2 DEF Agree, ViewType
<1> QED
  BY <1>2, <1>3 DEF Handle, u

-----------------------------------------------------------------------------
(* Types.  One step per action; the pump's record and the view first.      *)

(* No step of the user, of the window or of the launch leaves the types.   *)
LEMMA HostKeepsTypes ==
  ASSUME DeliveryInv,
         \/ User \/ FocusStep \/ SessionStep
         \/ GainFocus \/ LoseFocus \/ OpenWindow \/ SetTarget \/ CloseWindow
  PROVE  TypeOK'
<1> USE DEF DeliveryInv, TypeOK, gateVars, hostVars
<1>1. NoPump \in PumpType /\ [NoPump EXCEPT !.at = "start"] \in PumpType
  BY DEF NoPump, PumpType, Pads
<1>2. Reconcile(view, focus.snap, TRUE) \in ViewType
  BY SectionTypes DEF Pads
<1>3. Release(view) \in ViewType /\ Forget(view) \in ViewType
  BY SectionTypes DEF Pads
<1>4. /\ ~running => pump.at = "none"
      /\ pump.at \in {"none", "done"} => fd = NoFd
      /\ NoPump.slot = NoPad /\ [NoPump EXCEPT !.at = "start"].slot = NoPad
  BY DEF Phases, NoPump
<1>5. [view EXCEPT !.base = {}] \in ViewType
      /\ [view EXCEPT !.withheld = NoPad] \in ViewType
      /\ [view EXCEPT !.pad = NoPad, !.held = {}] \in ViewType
  BY DEF ViewType, Pads
<1>6. CASE User
  <2>1. CASE Toggle
    BY <2>1 DEF Toggle
  <2>2. ASSUME NEW d \in Devices, PlugOrUnplug(d) PROVE TypeOK'
    <3>1. fd' \in [alive : BOOLEAN, report : SUBSET Controls]
          /\ (fd' # NoFd => pump.slot # NoPad)
      BY <2>2 DEF PlugOrUnplug, NoFd
    <3>2. nodes' \in SUBSET Devices /\ hot' \in BOOLEAN
      BY <2>2 DEF PlugOrUnplug
    <3> QED
      BY <2>2, <3>1, <3>2 DEF PlugOrUnplug
  <2>3. ASSUME NEW c \in Controls, Move(c) PROVE TypeOK'
    BY <2>3 DEF Move, NoFd
  <2> QED
    BY <1>6, <2>1, <2>2, <2>3 DEF User
<1>7. CASE FocusStep
  <2>1. CASE ReconcileSwitch
    BY <2>1, <1>2 DEF ReconcileSwitch
  <2>2. CASE ApplyOff
    BY <2>2 DEF ApplyOff
  <2>3. CASE ApplyOn
    <3>1. CASE armed /\ ~running /\ target
      BY <2>3, <3>1, <1>1, <1>4 DEF ApplyOn, StartPump
    <3>2. CASE ~(armed /\ ~running /\ target)
      BY <2>3, <3>2 DEF ApplyOn
    <3> QED
      BY <3>1, <3>2
  <2>4. CASE Parked
    BY <2>4, <1>1, <1>4 DEF Parked, CollectPump
  <2>5. CASE ForgetWithheld
    BY <2>5, <1>5 DEF ForgetWithheld
  <2> QED
    BY <1>7, <2>1, <2>2, <2>3, <2>4, <2>5 DEF FocusStep
<1>8. CASE SessionStep
  <2>1. CASE ResetDelivery
    BY <2>1, <1>3 DEF ResetDelivery
  <2>2. CASE Start
    BY <2>2, <1>1, <1>4 DEF Start, StartPump
  <2>3. CASE Stop
    BY <2>3 DEF Stop
  <2>4. CASE StopWaits
    BY <2>4, <1>1, <1>4 DEF StopWaits, CollectPump
  <2>5. CASE StopResets
    BY <2>5, <1>3 DEF StopResets
  <2> QED
    BY <1>8, <2>1, <2>2, <2>3, <2>4, <2>5 DEF SessionStep
<1>9. CASE GainFocus
  BY <1>9 DEF GainFocus
<1>10. CASE LoseFocus
  <2>1. view' \in ViewType
    BY <1>10, <1>3, <1>5 DEF LoseFocus
  <2>2. /\ focused' \in BOOLEAN
        /\ UNCHANGED <<enabled, nodes, fd, cached, hot, pump, running, armed,
                       stopping, target, focus, session>>
    BY <1>10 DEF LoseFocus
  <2> QED
    BY <2>1, <2>2
<1>11. CASE OpenWindow
  BY <1>11 DEF OpenWindow
<1>12. CASE SetTarget
  BY <1>12, <1>5 DEF SetTarget
<1>13. CASE CloseWindow
  BY <1>13 DEF CloseWindow
<1> QED
  BY <1>6, <1>7, <1>8, <1>9, <1>10, <1>11, <1>12, <1>13

(* Nor does a step of the pump.                                            *)
LEMMA PumpKeepsTypes ==
  ASSUME DeliveryInv, PumpStep
  PROVE  TypeOK'
<1> USE DEF DeliveryInv, TypeOK, gateVars, hostVars
<1>1. NoFd \in [alive : BOOLEAN, report : SUBSET Controls]
      /\ [NoFd EXCEPT !.alive = TRUE] \in [alive : BOOLEAN, report : SUBSET Controls]
  BY DEF NoFd
<1>2. CASE RunStarts
  <2>1. pump' \in PumpType /\ pump'.slot = pump.slot
    BY <1>2 DEF RunStarts, PumpType
  <2> QED
    BY <1>2, <2>1 DEF RunStarts
<1>3. CASE RunStops
  <2>1. pump' \in PumpType
    BY <1>3 DEF RunStops, PumpType, NoPump, Pads
  <2> QED
    BY <1>1, <1>3, <2>1 DEF RunStops
<1>4. CASE Scan
  <2>1. pump' \in PumpType
    BY <1>4, LowestIsPad DEF Scan, PumpType, Pads
  <2>2. fd' \in [alive : BOOLEAN, report : SUBSET Controls]
        /\ (fd' # NoFd => pump'.slot # NoPad)
    BY <1>1, <1>4 DEF Scan, PumpType
  <2>3. /\ hot' \in BOOLEAN
        /\ enabled' = enabled /\ nodes' = nodes /\ cached' = cached
        /\ running' = running /\ armed' = armed /\ stopping' = stopping
        /\ focused' = focused /\ view' = view /\ target' = target
        /\ focus' = focus /\ session' = session
    BY <1>4 DEF Scan
  <2> QED
    BY <2>1, <2>2, <2>3
<1>5. CASE Open
  <2>1. CASE pump.want \in nodes /\ fd' = [NoFd EXCEPT !.alive = TRUE]
    <3>0. pump.want \in Devices /\ pump.want # NoPad
      BY <2>1, GamepadAssumption
    <3>1. pump' \in PumpType /\ pump'.slot # NoPad
      BY <1>5, <2>1, <3>0 DEF Open, PumpType, Pads
    <3> QED
      BY <1>1, <1>5, <2>1, <3>1 DEF Open
  <2>2. CASE pump.want \notin nodes /\ UNCHANGED fd /\ hot' = TRUE
    <3>1. pump' \in PumpType /\ pump'.slot = pump.slot
      BY <1>5, <2>2 DEF Open, PumpType, Pads
    <3> QED
      BY <1>5, <2>2, <3>1 DEF Open
  <2> QED
    BY <1>5, <2>1, <2>2 DEF Open
<1>6. CASE ReadFails
  <2>1. pump' \in PumpType
    BY <1>6 DEF ReadFails, PumpType, Pads
  <2> QED
    BY <1>1, <1>6, <2>1 DEF ReadFails
<1>7. CASE OnDisconnect
  <2>1. pump' \in PumpType /\ pump'.slot = pump.slot
    BY <1>7 DEF OnDisconnect, PumpType
  <2>2. Disconnected(view) \in ViewType
    BY SectionTypes DEF Pads
  <2> QED
    BY <1>7, <2>1, <2>2 DEF OnDisconnect
<1>8. CASE OnConnect
  <2>1. PICK s \in BOOLEAN : Get(s) /\ pump' = [pump EXCEPT !.at = "announce", !.snap = s]
    BY <1>8 DEF OnConnect
  <2>2. pump' \in PumpType /\ pump'.slot = pump.slot
    BY <2>1 DEF PumpType
  <2> QED
    BY <1>8, <2>1, <2>2 DEF OnConnect, Get
<1>9. CASE GamepadConnected
  <2>1. pump' \in PumpType /\ pump'.slot = pump.slot
    BY <1>9 DEF GamepadConnected, PumpType
  <2>2. Connected(view, pump.slot, pump.snap) \in ViewType
    BY SectionTypes DEF PumpType
  <2> QED
    BY <1>9, <2>1, <2>2 DEF GamepadConnected
<1>10. CASE OnFrame
  <2>1. PICK s \in BOOLEAN :
           Get(s) /\ pump' = [pump EXCEPT !.at = "frame", !.snap = s, !.reader = fd.report]
    BY <1>10 DEF OnFrame
  <2>2. pump' \in PumpType /\ pump'.slot = pump.slot
    BY <2>1 DEF PumpType
  <2> QED
    BY <1>10, <2>1, <2>2 DEF OnFrame, Get
<1>11. CASE HandleFrame
  <2>1. pump' \in PumpType /\ pump'.slot = pump.slot
    BY <1>11 DEF HandleFrame, PumpType
  <2>2. Handle(view, pump.reader, pump.snap) \in ViewType
    BY SectionTypes DEF PumpType, Pads
  <2> QED
    BY <1>11, <2>1, <2>2 DEF HandleFrame
<1> QED
  BY <1>2, <1>3, <1>4, <1>5, <1>6, <1>7, <1>8, <1>9, <1>10, <1>11 DEF PumpStep

-----------------------------------------------------------------------------
(* Phases.  The pump's thread changes neither the gates nor the launch.    *)
LEMMA PumpKeepsPhases ==
  ASSUME DeliveryInv, PumpStep
  PROVE  Phases'
<1> USE DEF DeliveryInv, TypeOK, Phases, Starting, gateVars, hostVars
<1>1. UNCHANGED <<armed, running, target, focus, session>>
  BY DEF PumpStep, RunStarts, RunStops, Scan, Open, ReadFails, OnDisconnect,
         OnConnect, GamepadConnected, OnFrame, HandleFrame
<1>2. pump.at # "none" /\ pump'.at # "none"
  BY DEF PumpStep, RunStarts, RunStops, Scan, Open, ReadFails, OnDisconnect,
         OnConnect, GamepadConnected, OnFrame, HandleFrame, PumpType, NoPump
<1>3. pump'.at \in {"start", "done"} => pump'.slot = NoPad
  BY DEF PumpStep, RunStarts, RunStops, Scan, Open, ReadFails, OnDisconnect,
         OnConnect, GamepadConnected, OnFrame, HandleFrame, PumpType, NoPump
<1>4. pump'.at \in {"connect", "announce"} => pump'.slot \in Devices
  <2>1. CASE Open
    BY <2>1 DEF Open, PumpType, Pads
  <2>2. CASE OnDisconnect
    BY <2>2 DEF OnDisconnect, PumpType, Pads
  <2>3. CASE OnConnect
    BY <2>3 DEF OnConnect, PumpType, Pads
  <2>4. CASE ~Open /\ ~OnDisconnect /\ ~OnConnect
    BY <2>4 DEF PumpStep, RunStarts, RunStops, Scan, ReadFails, GamepadConnected,
                OnFrame, HandleFrame, PumpType, NoPump
  <2> QED
    BY <2>1, <2>2, <2>3, <2>4
<1> QED
  BY <1>1, <1>2, <1>3, <1>4

(* The user, the window and the launch.                                    *)
LEMMA HostKeepsPhases ==
  ASSUME DeliveryInv,
         \/ User \/ FocusStep \/ SessionStep
         \/ GainFocus \/ LoseFocus \/ OpenWindow \/ SetTarget \/ CloseWindow
  PROVE  Phases'
<1> USE DEF DeliveryInv, TypeOK, Phases, Starting, gateVars, hostVars
<1>1. /\ NoPump.at = "none" /\ NoPump.slot = NoPad
      /\ [NoPump EXCEPT !.at = "start"].at = "start"
      /\ [NoPump EXCEPT !.at = "start"].slot = NoPad
  BY DEF NoPump
<1>2. CASE User
  BY <1>2 DEF User, Toggle, PlugOrUnplug, Move
<1>3. CASE FocusStep
  <2>1. CASE ReconcileSwitch
    BY <2>1 DEF ReconcileSwitch
  <2>2. CASE ApplyOff
    BY <2>2 DEF ApplyOff
  <2>3. CASE ApplyOn
    <3>1. CASE armed /\ ~running /\ target
      BY <1>1, <2>3, <3>1 DEF ApplyOn, StartPump
    <3>2. CASE ~(armed /\ ~running /\ target)
      BY <2>3, <3>2 DEF ApplyOn
    <3> QED
      BY <3>1, <3>2
  <2>4. CASE Parked
    BY <1>1, <2>4 DEF Parked, CollectPump
  <2>5. CASE ForgetWithheld
    BY <2>5 DEF ForgetWithheld
  <2> QED
    BY <1>3, <2>1, <2>2, <2>3, <2>4, <2>5 DEF FocusStep
<1>4. CASE SessionStep
  <2>1. CASE ResetDelivery
    BY <2>1 DEF ResetDelivery
  <2>2. CASE Start
    BY <1>1, <2>2 DEF Start, StartPump
  <2>3. CASE Stop
    BY <2>3 DEF Stop
  <2>4. CASE StopWaits
    BY <1>1, <2>4 DEF StopWaits, CollectPump
  <2>5. CASE StopResets
    BY <2>5 DEF StopResets
  <2> QED
    BY <1>4, <2>1, <2>2, <2>3, <2>4, <2>5 DEF SessionStep
<1>5. CASE GainFocus
  BY <1>5 DEF GainFocus, Window
<1>6. CASE LoseFocus
  BY <1>6 DEF LoseFocus
<1>7. CASE OpenWindow
  BY <1>7 DEF OpenWindow
<1>8. CASE SetTarget
  BY <1>8 DEF SetTarget
<1>9. CASE CloseWindow
  BY <1>9 DEF CloseWindow
<1> QED
  BY <1>2, <1>3, <1>4, <1>5, <1>6, <1>7, <1>8, <1>9

-----------------------------------------------------------------------------
(* What is remembered.  While the pump runs the target is live, and its    *)
(* callbacks keep engine and baseline in agreement.                        *)
LEMMA PumpKeepsRemembered ==
  ASSUME DeliveryInv, PumpStep
  PROVE  Remembered'
<1>1. pump.at # "none"
  BY DEF PumpStep, RunStarts, RunStops, Scan, Open, ReadFails, OnDisconnect,
         OnConnect, GamepadConnected, OnFrame, HandleFrame
<1>2. ~Starting /\ target /\ Agree(view)
  BY <1>1 DEF DeliveryInv, TypeOK, Phases, Remembered, Starting
<1>3. UNCHANGED <<focused, session>>
  BY DEF PumpStep, RunStarts, RunStops, Scan, Open, ReadFails, OnDisconnect,
         OnConnect, GamepadConnected, OnFrame, HandleFrame
<1>4. view \in ViewType /\ pump \in PumpType
  BY DEF DeliveryInv, TypeOK
<1>5. Agree(view)'
  <2>1. CASE OnDisconnect
    <3>1. Agree(Disconnected(view))
      BY <1>2, <1>4 DEF Agree, ViewType, Disconnected, TakeAway, Release
    <3> QED
      BY <1>3, <2>1, <3>1 DEF OnDisconnect, Agree
  <2>2. CASE GamepadConnected
    <3>1. pump.slot \in Devices
      BY <2>2 DEF GamepadConnected, DeliveryInv, Phases
    <3>2. Agree(Connected(view, pump.slot, pump.snap))
      BY <1>2, <1>4, <3>1, SectionsAgree
    <3> QED
      BY <1>3, <2>2, <3>2 DEF GamepadConnected, Agree
  <2>3. CASE HandleFrame
    <3>1. pump.reader \in SUBSET Controls
      BY <1>4 DEF PumpType
    <3>2. Agree(Handle(view, pump.reader, pump.snap))
      BY <1>2, <1>4, <3>1, HandleAgrees
    <3> QED
      BY <1>3, <2>3, <3>2 DEF HandleFrame, Agree
  <2>4. CASE UNCHANGED view
    BY <1>2, <1>3, <2>4 DEF Agree
  <2> QED
    BY <2>1, <2>2, <2>3, <2>4 DEF PumpStep, RunStarts, RunStops, Scan, Open,
       ReadFails, OnConnect, OnFrame
<1> QED
  BY <1>2, <1>3, <1>5 DEF Remembered, Starting

(* The window's thread and the launch also meet the time before the        *)
(* target is wired, when there is nothing to reconcile or release.         *)
LEMMA HostKeepsRemembered ==
  ASSUME DeliveryInv,
         \/ User \/ FocusStep \/ SessionStep
         \/ GainFocus \/ LoseFocus \/ OpenWindow \/ SetTarget \/ CloseWindow
  PROVE  Remembered'
<1>1. view \in ViewType /\ session \in {"off", "window", "set", "wired", "on",
                                       "closing", "stopWait", "stopped"}
  BY DEF DeliveryInv, TypeOK
<1>2. /\ Starting => Clean(view)
      /\ session \notin {"off", "window"} => Agree(view) /\ target
      /\ session = "off" => focus.at = "idle"
  BY DEF DeliveryInv, Phases, Remembered
<1>3. CASE User
  BY <1>2, <1>3 DEF User, Toggle, PlugOrUnplug, Move, Remembered, Starting, Clean,
                    Agree
<1>4. CASE ReconcileSwitch
  <2>1. Clean(view) => Reconcile(view, focus.snap, TRUE) = view
    BY DEF Clean, Reconcile, Withdraw
  <2>2. ASSUME Agree(view), target PROVE Agree(Reconcile(view, focus.snap, TRUE))
    BY <1>1, <2>2 DEF Agree, ViewType, Reconcile, Withdraw, TakeAway, Release,
                      Announce
  <2>3. Starting' => Clean(view)'
    BY <1>2, <1>4, <2>1 DEF ReconcileSwitch, Starting, Clean
  <2>4. (session \notin {"off", "window"} => Agree(view))'
    BY <1>2, <1>4, <2>2 DEF ReconcileSwitch, Agree
  <2> QED
    BY <2>3, <2>4 DEF Remembered
<1>5. CASE LoseFocus
  <2>1. ASSUME Agree(view), target PROVE Agree(view)'
    <3>1. view' = [view EXCEPT !.held = @ \ view.base, !.base = {}]
      BY <1>5, <2>1 DEF LoseFocus, Release
    <3> QED
      BY <1>1, <2>1, <3>1 DEF Agree, ViewType
  <2>2. Clean(view) => Clean(view)'
    BY <1>1, <1>5 DEF LoseFocus, Release, Clean, ViewType
  <2> QED
    BY <1>2, <1>5, <2>1, <2>2 DEF LoseFocus, Remembered, Starting
<1>6. CASE ForgetWithheld
  <2>1. Agree(view) => Agree(view)'
    BY <1>1, <1>6 DEF ForgetWithheld, Agree, ViewType
  <2>2. Clean(view) => Clean(view)'
    BY <1>1, <1>6 DEF ForgetWithheld, Clean, ViewType
  <2> QED
    BY <1>2, <1>6, <2>1, <2>2 DEF ForgetWithheld, Remembered, Starting
<1>7. CASE SetTarget
  BY <1>1, <1>2, <1>7 DEF SetTarget, Remembered, Starting, Clean, Agree, ViewType
<1>8. CASE ResetDelivery
  BY <1>1, <1>2, <1>8 DEF ResetDelivery, Forget, Remembered, Starting, Clean, Agree,
                          ViewType
<1>9. CASE StopResets
  BY <1>1, <1>9 DEF StopResets, Forget, Remembered, Starting, Clean, ViewType
<1>10. ASSUME UNCHANGED <<view, focused>>,
              \/ UNCHANGED session
              \/ session = "off" /\ session' = "window"
              \/ /\ session \notin {"off", "window"}
                 /\ session' \notin {"off", "window", "set", "wired"}
       PROVE  Remembered'
  BY <1>1, <1>2, <1>10 DEF Remembered, Starting, Clean, Agree
<1>11. CASE ApplyOff \/ ApplyOn \/ Parked \/ GainFocus
  BY <1>10, <1>11 DEF ApplyOff, ApplyOn, Parked, GainFocus
<1>12. CASE OpenWindow \/ Start \/ Stop \/ StopWaits \/ CloseWindow
  BY <1>10, <1>12 DEF OpenWindow, Start, Stop, StopWaits, CloseWindow
<1> QED
  BY <1>3, <1>4, <1>5, <1>6, <1>7, <1>8, <1>9, <1>11, <1>12
  DEF FocusStep, SessionStep

-----------------------------------------------------------------------------
(* The invariant holds throughout: every step keeps its three parts.       *)
LEMMA DeliveryInvHolds == Spec => []DeliveryInv
<1>1. DeliveryInv /\ [Next]_vars => DeliveryInv'
  <2> SUFFICES ASSUME DeliveryInv, [Next]_vars PROVE DeliveryInv'
    OBVIOUS
  <2>1. CASE PumpStep
    BY <2>1, PumpKeepsTypes, PumpKeepsPhases, PumpKeepsRemembered DEF DeliveryInv
  <2>2. CASE \/ User \/ FocusStep \/ SessionStep
             \/ GainFocus \/ LoseFocus \/ OpenWindow \/ SetTarget \/ CloseWindow
    BY <2>2, HostKeepsTypes, HostKeepsPhases, HostKeepsRemembered DEF DeliveryInv
  <2>3. CASE UNCHANGED vars
    BY <2>3 DEF vars, gateVars, hostVars, DeliveryInv, TypeOK, Phases, Remembered,
                Starting, Clean, Agree
  <2> QED
    BY <2>1, <2>2, <2>3 DEF Next
<1> QED
  BY <1>1, InitHolds, PTL DEF Spec

(* Type correctness of the pump, the delivery state and the launch.        *)
THEOREM TypeCorrect == Spec => []TypeOK
<1>1. DeliveryInv => TypeOK
  BY DEF DeliveryInv
<1> QED
  BY <1>1, DeliveryInvHolds, PTL

(* The baseline of handleGamepadFrameSnap is what the engine holds.        *)
THEOREM BaselineIsWhatTheEngineHolds == Spec => []EngineAsTold
<1>1. DeliveryInv => EngineAsTold
  BY DEF DeliveryInv, Remembered, Agree, EngineAsTold, Wired
<1> QED
  BY <1>1, DeliveryInvHolds, PTL

(* No control stays down in the engine after its pad or the focus is gone. *)
THEOREM NoControlIsStuck == Spec => []NoStuckControl
<1>1. DeliveryInv => NoStuckControl
  BY DEF DeliveryInv, Remembered, Agree, NoStuckControl, Wired
<1> QED
  BY <1>1, DeliveryInvHolds, PTL

(* After StopResets no thread tells the old engine anything until the next *)
(* one is wired: no pump runs, and there is nothing left to replay.        *)
THEOREM SilentBetweenSessions == Spec => SilentAfterStop
<1>1. ASSUME DeliveryInv, [Next]_vars
      PROVE  session \in {"off", "window"} /\ session' # "set" => UNCHANGED ToEngine
  <2> SUFFICES ASSUME session \in {"off", "window"}, session' # "set"
               PROVE  UNCHANGED ToEngine
    OBVIOUS
  <2>1. Clean(view) /\ pump.at = "none" /\ view \in ViewType
    BY <1>1 DEF DeliveryInv, Phases, Remembered, Starting, TypeOK
  <2>2. ~PumpStep
    BY <2>1 DEF PumpStep, RunStarts, RunStops, Scan, Open, ReadFails, OnDisconnect,
                OnConnect, GamepadConnected, OnFrame, HandleFrame
  <2>3. ~SessionStep /\ ~SetTarget
    BY DEF SessionStep, ResetDelivery, Start, Stop, StopWaits, StopResets, SetTarget
  <2>4. CASE ReconcileSwitch
    BY <2>1, <2>4 DEF ReconcileSwitch, Reconcile, Withdraw, Clean, ToEngine
  <2>5. CASE LoseFocus
    BY <2>1, <2>5 DEF LoseFocus, Release, Clean, ViewType, ToEngine
  <2>6. CASE ForgetWithheld
    BY <2>1, <2>6 DEF ForgetWithheld, ViewType, ToEngine
  <2>7. CASE \/ User \/ ApplyOff \/ ApplyOn \/ Parked \/ GainFocus \/ OpenWindow
             \/ CloseWindow \/ UNCHANGED vars
    BY <2>7 DEF User, Toggle, PlugOrUnplug, Move, ApplyOff, ApplyOn, Parked,
                GainFocus, OpenWindow, CloseWindow, vars, ToEngine
  <2> QED
    BY <1>1, <2>2, <2>3, <2>4, <2>5, <2>6, <2>7 DEF Next, FocusStep
<1> QED
  BY <1>1, DeliveryInvHolds, PTL DEF Spec, SilentAfterStop

=============================================================================
