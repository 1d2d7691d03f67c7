# Tipsy, verified

A TLA+ development of [Tipsy](../src/README.md), the runtime that plays the
Android x86-64 Roblox client in an X11 window on Linux. It models the parts of
Tipsy where threads, callbacks, files and the engine meet: TLC checks them on
small instances, TLAPS proves their central invariants for every instance.
`PROJECT.json` lists the components, runs, mutants, theorems, the hazards of the
code and the source lines of every definition.

## The system

Tipsy loads the engine's ELF libraries into its own process, gives them an
Android (bionic, NDK, EGL, OpenSL ES, JNI) made of C and Go, and feeds them
window, input and audio from Linux.

| component | state it keeps | operations | what makes it correct |
|---|---|---|---|
| ALooper and bionic waits (`internal/android/ndk.c`) | per thread: epoll set, wake pipe, watcher, the condition it is parked on, `pending_wake`, `looper_woke` | addFd, removeFd, pollOnce, wake, `pthread_cond_wait` and `_timedwait` | a thread that waits on a condition still serves its looper: no wake-up is lost, every ready callback is polled |
| native main thread (`native/call.c`) | `g_pending`, `g_mu`, three conditions; jobs on their submitters' stacks | submit, the main loop, idle and wake of the looper | a job is run once, while its submitter waits, whatever the main thread was blocked in |
| controller pump (`internal/gamepad`) | the open slot, inotify watch, recovery deadline, cached settings | rescan, open, frames, read failures, shutdown | the first pad of the directory is served; stopping returns |
| controller delivery (`internal/jni/gamepad.go`) | announced and withheld pad, diff baseline, focus, pump handle, engine target | connect, disconnect, frame, focus, switch, start, stop | the baseline is what the engine holds; nothing stays pressed; a pad comes on |
| generation store (`internal/integrity`, `internal/setupsvc`, `internal/app`) | verified APK trees, the active records, retained APK blobs | stage, activate, open, recheck, repair, remove old | the active record names a tree that verifies; a good tree is never lost |
| OpenSL ES audio (`internal/android/opensles.c`) | players and recorders, buffer queues, a worker per stream | enqueue, clear, set state, backend open and retry, destroy | buffers complete in order, once each; destroy joins the worker |
| asset cache (`internal/android/asset.go`, `asset_mmap.go`) | per set of sources: names, blobs, loads in flight, an LRU list; per process: mappings with pins, borrows of native `AAsset`s | open, load, publish, borrow, close, replace the sources | one thread loads a name; what is pinned stays mapped; the budget holds; nothing leaks |
| hand-over of the window (`internal/graphics`, the EGL shim in `internal/android/host.c`) | the shim's records of guest surfaces, the router's registrations and routes, the C sentinel | start and stop the sentinel, create, present, destroy a surface | the three layers agree; the sentinel never waits for a surface whose swap it would not hear of |
| GameActivity session (`internal/runtime`) | lifecycle, post-exit resume | start, focus, pause, shutdown | shutdown once, in lifecycle order |
| text input, pointer capture (`internal/jni`) | edit state, capture state | engine and X11 events | both sides agree on the text and the capture |
| Discord presence (`internal/discord`) | wanted and published activity | set, reconnect | the last activity set is published |
| loader, JNI object model, Vulkan/EGL, X11, apk, GUI, settings, packaging | see `PROJECT.json` | | data-heavy or I/O; not planned |

How they interact. The engine runs on the *native main thread* and on threads of
its own, any of which may own a looper. Other threads of Tipsy get engine code
run on the main thread by *submitting jobs*, and get it out of a blocking poll or
a condition wait by *waking its looper*. The X11 reader thread, the evdev pump
goroutine and the launch deliver controller input by direct calls into the
engine; they share `gamepadState` and `gamepadPump`, under a mutex each, and
the settings file that the GUI process writes. Setup and launch run in separate
processes and meet in the generation store on disk. The engine's threads open
assets and create OpenSL ES streams; a stream's worker calls back into the
engine. The client's render thread presents through the EGL shim, which tells
the router of `internal/graphics`, which tells the boot frame's sentinel.

What is hard: a wait on one condition that has to be left for another source; a
condition broadcast by a thread that got the condition's address under a lock it
no longer holds; callbacks that wait again, inside the poll that called them;
snapshots taken before the lock under which they are used; a switch applied in
two critical sections; stopping a goroutine that is in a callback; files shared
by processes that take no lock.

## Modules

| module | models | state and actions |
|---|---|---|
| `NdkLooper` | one `ALooper` with its owner, watcher and wakers | `used`, `queued`, `token`, `edge`, `order` are what epoll knows; `parked`, `pending_wake`, `looper_woke` are the fields of the struct; `sig` is each caller of `looper_signal_parked`; `at`, `ctx`, `frames`, `event` are the owner's stack. Every critical section under `l->lock` is an action (`Signal`, `Arm`, `ArmPending`, `Disarm`), and so is each call that can block (`LockParked`, `Sleep`, `Relock`, `TakeEvent`). `owed` is a history variable: the sources whose signal the owner has consumed and not served to the end |
| `NativeMain` | `submit()` and `native_main_thunk` on top of `NdkLooper` | EXTENDS it; the looper's owner is the main thread and its posters are the submitters. `WakeMain` is the looper's `Wake` |
| `GamepadDelivery` | pump goroutine, focus handler, launch, settings and engine | the sections under `gamepadState.mu` are functions of the record `view` (`Release`, `Announce`, `Withdraw`, `Reconcile`, `Connected`, `Disconnected`, `Handle`); the actions read a snapshot first and apply the section later, as the code does. `view.pad` and `view.held` are what the engine was told |
| `AudioStream` | the client's calls, the stream worker, mute gate, microphone door and its watcher | a section under `o->mu` is an action; `at` is the worker's place in `stream_worker`, which is unlocked while it closes, opens (`Check`, `ForgetClose`, `Connect`) or transfers, and in the callback (`Complete`, `CallbackReturns`), from which the client may re-enter every call, `Destroy` too. `door` is the holder of `microphoneDoor.mu`. `cut`, `missed`, `forgotten` are history |
| `BufferQueue` | the abstract queue that `AudioStream` implements | buffers go to the host in order, end once each, are reported while the stream is active, and are dropped only by Clear, Destroy or a pause |
| `GenerationStore` | `Stage`, `Activate`, `Active` of `integrity/store.go`, and the jobs that use them: Install, and a launch that opens, repairs or adopts | `tree`, `blob`, `latest`, `record` are the files; `adrift`, `afloat`, `bare` and `loose` say which names of trees, of blobs and of directories, and which trees' insides, are not on the disk yet, `disk` what each record may be after a loss of power; a process's step is `at`, the record it holds open `file`. Every rename, every sync and every open and read of a record is an action, between any two of which a process may fail or be killed, files be damaged, or power be lost. `spoiled`, `trusted`, `lost`, `hurt`, `overtaken`, `named` are history |
| `AssetCache` | `openAssetBytes`, `acquireAssetBorrow`, the close of an asset, `setAssetsLocked` | `cache[g]` is the `assetCache` of a set of sources; its fields change by functions named for the methods (`Record`, `Protect`, `Enforce`, `DropRetired`, `Finished`), applied in the sections under its mutex; `mapped`, `pins` are `mappedDirAssets`, `borrows` is `assetPins` |
| `AssetCacheMC`, `GenerationStoreMC` | | the symmetry sets of the runs |
| `NativeMainMC`, `AudioStreamMC` | | the runs' bounds on what the environment begins, two instances in one run each |
| `GuestSwap` | the sentinel thread of `egl.c`, the router of `guest_swap.go`, the records of `host.c` | `sentinel` is `struct tipsy_swap`, `window`, `route`, `entry`, `accepted` the router, `records` and `pendingHandoffs` the shim; `job` is the EGL call of a client's thread. The locks of the three are never held together, so a call is a row of actions: `Discard`, `SurfaceCreated`, `Tell`, `Confirm`, `Store` for a creation, `Swap`, `GuestSwap`, `Signal`, `Accept` or `Reject`, `FinishClaim` for a swap, `Destroy`, `SurfaceDestroyed`, `Untell`, `HostDestroy`; any number of threads may be in any of them. `crossed` is history: surfaces whose record the late store of an older creation dropped |
| `NdkLooperProofs`, `NativeMainProofs`, `GamepadDeliveryProofs`, `AudioStreamProofs`, `GenerationStoreProofs`, `AssetCacheProofs`, `AssetBlobProofs`, `GuestSwapProofs` | | proofs about the modules of these names; `AssetBlobProofs` continues `AssetCacheProofs` |

`NativeMain` composes with `NdkLooper` by conjoining its actions; that the
composition still behaves as a looper is the theorem `ImplementsLooper`. That a
stream is a `BufferQueue` under the mapping `BQ` is the property
`ImplementsQueue` and the theorem `ImplementsBufferQueue`.

What the models abstract:

- *Looper.* Time-outs other than zero and infinite (timed waits may time out at
  any moment); the ident, events and data of a registration, except whether it
  has a callback. A callback reads one message of its descriptor: callbacks that
  read none are the engine's fault, those that read more only help. epoll is
  level-triggered for the owner, with the kernel's rotating ready list, whose
  order a source that becomes ready may or may not join (`BecomeReady`), and
  edge-triggered for the watcher. Looper acquire/release and the futex park,
  which only tests use, are left out. The bound `NestLimit` stands for the 64
  rounds, `MaxFds` for `MAX_LOOPER_FDS`.
- *Native main.* What a job does: it may wait on conditions and prepare the
  looper. A submission by the main thread itself runs at once and is left out.
- *Gamepad.* Buttons held and axes off rest are both `Controls`; reports
  collapse to the latest one. Where a rescan error would be retried the model
  retries at any later time (`hot`). A pad is known by its path; when a node
  comes back between two scans it may be another device (`Scan`). Dispatches
  succeed while the target is wired. `ClearRobloxDirectGamepadTarget` has no
  production caller at this commit (`launch.go` 466-469 defers the clearing of
  the other direct targets), so nothing unwires the target here either. A
  target with missing exports is left out.
- *Audio.* One stream lives at a time (streams share only door and gate).
  Formats, volume, positions, the output mix and the data are left out; a
  transfer succeeds or fails. `queue_index` is its parity. Time-outs may happen
  at any moment. The environment variables that switch the microphone off are
  constant in a process and left out: with one of them the door never opens.
- *Store.* A tree verifies or not: hashes, signatures and the authorization
  policy are one bit. Two processes do one job each; the identifiers of
  generations are pairs of package and mode, since nothing else goes into the
  digest. A loss of power keeps what was synced: a file's name if its directory
  was synced after the rename, a directory if its parent was. The store's root
  and its parents are taken to be on the disk. A process that loses power ends;
  others begin their job after it. `MaxDamage` bounds how often the environment
  damages something or takes the power.
- *Assets.* Blobs have one size; a negative entry may be lost at any time
  (capacity and lifetime); one name is an alias, of the APK entry in
  `asset_cache` and of the mapped file in `asset_evict`. `Fresh` does not give out
  an address again to which a thread still refers after finding 4, so that one
  fault does not hide others behind it.
- *Guest swap.* One window.
  What EGL draws, the source of a retirement and the goroutine that logs it are
  left out. The host does not give out a handle that is some thread's current
  surface. Registrations and surfaces draw on one sequence of generations
  (`MaxGeneration`), of which the starts still to come and the creations under way
  (`Underway`) have their share reserved.

## Runs

| run | instance | states | shows |
|---|---|---|---|
| `ndk_looper` | 1 callback descriptor, 1 poster, 1 timed wait, nesting 1, 2 poll rounds, watcher present or not | 150 thousand | `TypeOK`, `NoLostWakeup`, `ReadyIsPolledWhileWaiting` with an engine that never signals |
| `ndk_looper_comment` | 2 callback descriptors, both registered, 1 wait, nesting 1 | violated after 14 states | `PostedFdsRunDuringWait`, the unqualified promise of the comment at `ndk.c` 1076-1080 |
| `native_main` | 2 submitters and the wake pipe alone, or 1 submitter and a callback descriptor whose callback may wait | 90 thousand | `NativeTypeOK`, `JobOnLiveStack`, `NoMissedJob`, `RanOnceOnReturn`, `HandedOverReturns`, `QueueMoves` |
| `gamepad` | 2 pads, 1 control | 82 thousand | `EngineAsTold`, `NoStuckControl`, `SilentAfterStop`, `StopReturns`, `ControllerComesOn` |
| `gamepad_parked` | 1 pad, 1 control | violated | `ParkedPadIsWithdrawn`, the comment at `gamepad.go` 525-528 |
| `audio` | players with 2 buffers in a queue of 2, or muted and unmuted recorders given 1 at a time | 200 thousand | `AudioTypeOK`, `StorageBounded`, `NoLostWakeup`, `StoppedIsClosed`, `ImplementsQueue`, `DestroyReturns`, `SwitchOffShutsCapture`, `WatcherEnds`, `AudioFlows` |
| `audio_destroy` | a player with 1 buffer | violated | `DestroyJoins`: what the client's teardown needs of Destroy |
| `generation_store` | 2 processes, 2 packages, 2 modes, 1 damage or loss of power | 4.8 million, with symmetry | `StoreTypeOK`, `RetainedFirst`, `ServesActive`, `NoSpuriousFailure`, `NoGoodTreeLost` |
| `store_slots` | the same, undamaged | violated | `DevelopmentKept`, the comments at `store.go` 24-27 and 185-187 |
| `asset_cache` | 2 threads, a mapped file, an APK entry with 2 names, a missing name, 2 sets of sources, a budget of 1 blob | 1.5 million, with symmetry | `AssetTypeOK`, `BudgetKept`, `NothingLeaks`, `RetiredLetsGo`, `SingleFlight`, `PinHolds` |
| `asset_evict` | the same with one set of sources, the mapped file under 2 names | violated after 22 states | `OpenStaysMapped`, the comments at `asset.go` 29-30 and 962-963 |
| `guest_swap` | 2 threads, 2 surfaces, 2 starts, 4 generations, 1 probe; either thread creates | 887 thousand | `GuestTypeOK`, `LayersAgree`, `AwaitedIsBacked`, `SentinelEnds` |

Why these bounds are enough to meet the interesting cases.

- *Looper.* The wake pipe is a second source beside the descriptor, so the ready
  list has an order; nesting 1 is a wait in a callback of a poll of a wait;
  `NestLimit = 2` is the number of sources, as the code's 64 rounds are more than
  its 16 descriptors and the pipe: with fewer rounds than sources
  `ReadyIsPolledWhileWaiting` fails. Two descriptors and the change of places in a
  full set occur in `ndk_looper_comment`; `TypeOK` and `NoLostWakeup` are proved
  for any number of descriptors and waits. `ReadyIsPolledWhileWaiting` requires the
  poll after a 16 ms slice of the fallback as well; only a slice that the engine's
  own signal ends (`at = "notified"`, `ndk.c` 1119-1121) skips it.
- *Native main.* Two submitters compete for `g_pending` while one of them leaves.
  With a callback descriptor the main thread may be parked in a callback's condition
  wait when a submitter, with `g_mu` locked, wakes the looper and takes that wait's
  mutex. Both at once do not fit in the run; `NativeMainMC` admits either. The
  four safety properties are proved for any submitters and descriptors.
- *Gamepad.* Two pads exchange places at the front of the directory; controls are
  independent of each other in every section, so one suffices for TLC (and the
  proofs hold for any set).
- *Audio.* Two buffers are what it takes to see an order, a full queue, and a
  buffer requeued before another: players have them. Mutes and the door concern
  recorders, which get one buffer at a time and are not paused (the code treats a
  pause as a stop but for the close request). `AudioStreamMC` bounds what the client
  and the user do, and nothing that fairness speaks of. The four invariants and the
  refinement are proved without these bounds.
- *Store.* Two processes overtake, repair and adopt against each other; two
  packages make a newest one; one damage is enough for a repair, and a second
  process's repair then meets the first's. A loss of power ends both processes, so
  what it spares is seen in the state after it. The invariants and the action
  property are proved for any processes, packages and damages.
- *Assets.* Two threads are a leader and a waiter, or a borrower and the one that
  evicts; the budget holds one blob of three; two sets of sources are one that
  retires and one that is current.
- *Guest swap.* Two surfaces supersede one another and are given out again; two
  starts make a registration that is replaced; each thread presents or destroys
  what the other creates, or creates a surface while the other does. Four
  generations are two starts and two creations, or one start and three; with five
  the run does not end in a few minutes. The safety properties are proved for any
  number of threads, surfaces, starts and generations.

`MaxNesting`, `MaxQueued`, `MaxDamage`, `MaxGeneration` and `MaxStarts` bound the
models and not the code; where there is a proof it holds for every value.

Every passing run's property has a mutant: a definition of the code with a
plausible slip, under which TLC finds the property violated.

### Findings

1. *A wait in a callback can sleep over a ready source* (`ndk_looper_comment`).
   The outer wait consumes the signal for all ready sources when it starts its
   nested poll, in `looper_arm_cond` (`ndk.c` 969-989) if the signal came before
   it slept, as in the trace, or in `looper_disarm_cond`. If the first callback waits itself, the inner wait finds no
   pending signal, no edge is left in the watcher, and it sleeps although the
   other source is ready. `NoLostWakeup` states what does hold: such a source is
   in `owed`.
2. *A parked pump can leave a pad behind* (`gamepad_parked`). Focus gain with the
   switch off withdraws the pad under `gamepadState.mu`, then parks the pump
   without it. A callback of the pump whose snapshot still says that the switch is
   on (taken before it was turned off, or from the cache that `LiveConfig.Get`
   refreshes only at intervals) announces the pad in between, and `Manager.Close`
   fires no disconnect: with the switch off and the pump parked, the engine keeps
   the pad.
3. *Destroy can hang* (`audio_destroy`). An idle worker that owes a close does it
   without the mutex (`opensles.c` 1186-1192), locks again and goes straight to
   `pthread_cond_wait` without testing its condition anew. A broadcast in between
   is lost; if it was Destroy's, `pthread_join` never returns. The client's own
   teardown (STOPPED, Clear, Destroy) makes just this sequence of calls.
   `NoLostWakeup` and `DestroyReturns` except this case by `missed`, and no other.
4. *An asset may be unmapped by its own load* (`asset_evict`). `finishLoad` ends the
   protection of the load and enforces the budget before `acquireAssetBorrow` pins
   the bytes. Borrowed blobs count, so while assets hold more than the budget, or
   for a file larger than it, the new blob is the only one that may be evicted:
   the `AAsset` gets a pointer to unmapped memory. Another thread's eviction, or a
   change of sources, between return and pin does the same. A hit on a source
   (`asset.go` 767-770) is found under one lock and recorded under another: evicted
   in between, the unmapped bytes enter the cache again under its names.
   `PinHolds` states what does hold: once pinned, bytes stay.
5. *An adoption can overwrite a development activation* (`store_slots`). An official
   launch that finds a legacy `active.json` naming a development generation adopts it
   by `writeActiveRecordIfMissing`, which tests for `active-development.json` and
   then renames a record over that name. A development install may activate its
   generation in between (`store.go` 278-283): the older generation takes the slot
   again, and both processes end without an error. `store.go` 24-27 has the slots
   keep the two clients from overwriting each other's active generation.

Other observations, which contradict no statement of the repository:

- *Audio.* A Stop while the recorder opens its source has its close request dropped
  by `backend_open` (`forgotten`); a client that keeps cutting a muted recorder's
  pauses short can put off the door's close for ever; Clear with a buffer in flight
  leaves a count of 1, so the queue takes one buffer less until it ends; a buffer
  in flight when the stream is paused or stopped ends without a callback (`cut`);
  RegisterCallback with NULL does not stop a callback that was already read.
- *Store.* There is no lock between processes. `retainAPKBlob` syncs `apks/sha256`
  and never `apks` or the root (`store.go` 381-384, 440), so after a first install a
  loss of power may keep the record without any blob; it may also take a tree or a
  blob which a Stage found in place (64-79, 163-167, 387-388, 433-435) before the
  process that had renamed it there synced the directory. `RetainedFirst` excepts
  just these (`lost`). A loss of power can also leave a published tree incomplete,
  since only its top directory is synced (113-118): it fails to verify then, and is
  repaired. Reading a record fails when another process renames over the file that
  is held (`open_linux.go` 384-398), even to activate the same generation: an
  Install that has activated its client then reports a failure (`service.go` 250),
  a repair too (`retained.go` 80); a launch at its first look repairs from
  the newest package instead. `overtaken` records who met this. The rollback of a cancelled repair
  may put a bad tree back over another process's repair. A repair derives from the
  newest retained package only. An official Install over a legacy `active.json` that names a
  development generation overwrites it without adopting it; a development record
  whose tree fails to open falls back to the legacy generation.
- *Guest swap.* After a retirement by the fallback probe, or when the probes are
  used up just as a surface is created, that surface's hand-over stays pending and
  every swap crosses into Go and is answered 0, where `guest_swap.h` 9-13 would
  have -1 stop them. Two creations of surfaces
  of the window that overlap may store their records in the other order than the
  router saw them: `tipsy_egl_guest_surface_store` (`host.c` 643-681) drops the newer
  record, the shim then signals the obsolete surface only, and the sentinel waits
  until it is stopped or another surface comes. The router's check against a delayed
  creation (`guest_swap.go` 183-194, `bind_linux.go` 254-259, tested at
  `guest_swap_test.go` 216-253) is made before the store and does not cover it. EGL
  itself refuses a second surface on a window, but the shim does not count on that,
  and neither does the model: `AwaitedIsBacked` and `SentinelEnds` except the surface
  that was dropped so (`crossed`), and no other. The sentinel decides to show its frame before
  it shows it, so that it may come after the client's first.

### Fairness

Deadlock is checked in every run but the two of the store, whose processes end. The
runs with liveness properties assume:

- *Looper* (`Fairness`): the owner's own code runs (weak); a mutex that is free
  again and again is obtained by the owner and by each signaller (strong: an
  assumption on the scheduler, since a pthread mutex promises no order; the
  sections are short and the code relies on it); callbacks return. Nothing is assumed of the engine's signals,
  posts and wakes.
- *Native main* (`NativeFairness`): the main thread's own code, the watcher, each
  signaller and each submitter run (weak); a mutex that is free again and again is
  obtained by the main thread (strong); the engine's jobs, callbacks and waits end
  (strong, for each depth of the stack: one that is interrupted by nested polls over
  and over ends as well), and a condition somebody waits on is signalled in the end.
  Without the last two a job need not end. Posts and registrations are not assumed.
- *Gamepad* (`FairSpec`): the three threads run. The pump's `poll` looks at the
  shutdown eventfd first, then at inotify, then at the device, so neither of the
  first two is starved by frames (strong fairness of `RunStops` and `Scan`).
  Nothing is assumed of the user, of focus changes or of the launch starting.
- *Audio* (`FairSpec`): the worker runs, time-outs expire, Destroy and the sweep of
  the door go on (weak); the users of `microphoneDoor.mu` each obtain it, and a
  host that is asked again and again connects and transfers at last (strong).
  Nothing is assumed of the client.
- *Guest swap* (`Fairness`): the sentinel and every thread in a call run (weak), and a
  client presents each of its surfaces again and again, as a render loop does
  (strong: a thread that is busy with another call cannot present). Nothing is
  assumed of stops, creations and destructions.

The asset cache has no liveness property: its run uses symmetry, under which TLC's
liveness checking is unsound, and does not finish without.

## Proofs

TLAPS checks, for every value of the constants that satisfies the named
assumptions (`ConstantsAssumption`: distinct sentinels, positive bounds;
`GamepadAssumption`: any set of paths has a first one; `AudioAssumption`,
`StoreAssumption`, `AssetAssumption`, `GuestSwapAssumption`: distinct sentinels, bounds that are numbers,
a finite number of threads that open assets):

| theorem | property |
|---|---|
| `NdkLooperProofs!TypeCorrect` | `Spec => []TypeOK` |
| `NdkLooperProofs!NoWakeupIsLost` | `Spec => []NoLostWakeup` |
| `NativeMainProofs!ImplementsLooper` | `NativeSpec => Spec` of `NdkLooper` |
| `NativeMainProofs!QueueLosesNoWakeup` | `NativeSpec => []NoLostWakeup` |
| `NativeMainProofs!JobStackIsLive` | `NativeSpec => []JobOnLiveStack` |
| `NativeMainProofs!JobRanOnce` | `NativeSpec => RanOnceOnReturn` |
| `NativeMainProofs!NativeTypeCorrect` | `NativeSpec => []NativeTypeOK` |
| `NativeMainProofs!NoJobIsMissed` | `NativeSpec => []NoMissedJob` |
| `GamepadDeliveryProofs!TypeCorrect` | `Spec => []TypeOK` |
| `GamepadDeliveryProofs!BaselineIsWhatTheEngineHolds` | `Spec => []EngineAsTold` |
| `GamepadDeliveryProofs!NoControlIsStuck` | `Spec => []NoStuckControl` |
| `GamepadDeliveryProofs!SilentBetweenSessions` | `Spec => SilentAfterStop` |
| `AudioStreamProofs!TypeCorrect` | `Spec => []AudioTypeOK` |
| `AudioStreamProofs!StorageIsBounded` | `Spec => []StorageBounded` |
| `AudioStreamProofs!NoWakeupIsLost` | `Spec => []NoLostWakeup` |
| `AudioStreamProofs!StoppedStreamsClose` | `Spec => []StoppedIsClosed` |
| `AudioStreamProofs!ImplementsBufferQueue` | `Spec => ImplementsQueue` |
| `GenerationStoreProofs!TypeCorrect` | `Spec => []StoreTypeOK` |
| `GenerationStoreProofs!PackagesAreRetainedFirst` | `Spec => []RetainedFirst` |
| `GenerationStoreProofs!ProcessesDoNotInterfere` | `Spec => []NoSpuriousFailure` |
| `GenerationStoreProofs!LaunchesServeTheActive` | `Spec => []ServesActive` |
| `GenerationStoreProofs!GoodTreesStay` | `Spec => NoGoodTreeLost` |
| `AssetCacheProofs!OneLeaderPerLoad` | `Spec => []SingleFlight` |
| `AssetCacheProofs!RetiredSourcesLetGo` | `Spec => []RetiredLetsGo` |
| `AssetCacheProofs!PinsProtect` | `Spec => PinHolds` |
| `AssetBlobProofs!AssetTypes` | `Spec => []AssetTypeOK` |
| `AssetBlobProofs!NothingIsLeft` | `Spec => []NothingLeaks` |
| `AssetBlobProofs!BudgetIsKept` | `Spec => []BudgetKept` |
| `GuestSwapProofs!GuestTypes` | `Spec => []GuestTypeOK` |
| `GuestSwapProofs!Agreement` | `Spec => []LayersAgree` |
| `GuestSwapProofs!Backing` | `Spec => []AwaitedIsBacked` |

The arguments. *No wake-up is lost* is not inductive: the signal for a ready
source changes its form as it travels. `LooperInv` follows it: a source that is
ready and not owed is known to the watcher (`edge`, or a signal it is about to
give) or is in the looper's flags (`SourcesAccounted`); a flag set while the owner
parks is `looper_woke`, whose setter has not broadcast yet as long as the owner is
not up (`SignalUnderWay`); and it cannot broadcast between arming and sleeping,
because the owner has the wait's mutex then (`MutexHeld`, `ParkedIsPublished`,
`WaitKnown`). *Jobs*: `QueueInv` says that `g_pending` names the one submitter
past its hand-over, and that the job the main thread runs is that one, not done.
*Controller*: `DeliveryInv` ties the phases of the launch, the pump and the focus
handler to `running`, `armed` and `stopping` (`Phases`: at most one pump, stopped
before the session ends) and says what is remembered of the engine in each
(`Remembered`). The lemmas `SectionsAgree` and `HandleAgrees` show that each
section under the mutex keeps the baseline equal to what the engine holds.

*No job is missed* adds `IdleInv`: a job that was handed over while the main thread
goes idle or is blocked has left a token in the wake pipe, or its submitter is still
to write one.
*Audio*: `AudioInv` adds to the three invariants it proves that the node in flight
and the worker's place agree (`NodeAgrees`), that the object's life and the worker's
agree (`LifeAgrees`), and that a close request is kept until it is served or
forgotten (`RequestsKept`); the refinement then follows action by action.
*Store*: `StoreInv` is the type, two of the invariants and, for every process, what its place in
its job says of the files and of what disturbed it (`ProcInv`); `RetainedFirst`
follows from what each outcome of a loss of power would find: whatever record the disk
may hold, its generation has a tree and a blob whose names last, or is among the
excepted (`RecordsAgree`, `Covered`). *Assets*: `LoadInv`
says that the loads in flight and their leaders correspond (`LoadsLed`), who opens
the archive (`ArchiveLed`) and that what is retired has let go at the end of each
section (`AllLetGo`); `PinInv` counts (`PinCounts`): the borrows of a blob are its
holders, and a mapping has one pin for all of them and one for each thread that is
giving its own back.

*Blobs*: what a cache protects or lends is a number in the cache, what a thread has
to give back is its own, and neither is written under the lock of the other.
`BlobInv` ties them together. `Orderly`: the LRU list has each idle blob once and no
other. `Counted`: a blob is protected at most once for each load that leases it, and
lent at most once for each claim; a claim is with one thread (`Tracking`: before it
is noted with the borrow, and after the last handle was closed) or with the borrow,
and a bound is all that holds, since a blob that is dropped with its cache takes its
counts with it. `Equipped` says what a thread has at each of its steps. `Kept`: a
mapping is cached or in the hands of somebody. `Thrifty`: a cache without loads
keeps its budget or has nothing to evict; it holds because each section that ends a
protection or a claim enforces the budget. The lemmas on the operations
(`TouchOrders`, ..., `FinishedOrders`) say that each leaves a cache orderly; they
rest on the facts of the LRU list (`AppendLists`, `WithoutLists`, `FrontLists`). Each
action has a lemma; those that only change a cache under its lock and move one
thread share `ThreadStep`.

*Guest swap*: that a sentinel never waits in vain is a statement about three layers
with a lock each, and a call passes through them one by one. `GuestInv` says what
they know of each other at every point of every call, however many creations are
under way. `Windows` and `Routes`: the router's registration is the sentinel's unless
somebody is stopping it, and it routes at most one surface, which is the `Newest` of
all. `Recorded` and `Claims`: there is at most one record, of a live surface; whoever
creates or destroys a surface is alone with it (`Alone`), one thread at a time claims
the swap of a generation (`OneClaim`), and what a creation announces is `Unshared`
until it is stored. `Answered`: a generation that is no longer pending, a record that
is complete, and an acceptance belong to a sentinel that has retired. `Created`:
nobody presents a surface that is being announced, and the sentinel does not wait for
it before it is told. `Backed` is the property itself with its cases named: a record
that `Offers`, a thread that `Leaves`, or one that `Brings` a newer surface or this
one; that a late store leaves some case true for every surface that it does not drop
rests on `Newest`. The proof has one lemma for what each action does (`StartDoes`,
...), one for each part of the invariant (`WindowsKept`, ...) with a case per action.

Only model-checked: all liveness (`ReadyIsPolledWhileWaiting`,
`HandedOverReturns`, `QueueMoves`, `StopReturns`, `ControllerComesOn`,
`DestroyReturns`, `SwitchOffShutsCapture`, `WatcherEnds`, `AudioFlows`,
`SentinelEnds`), which is beyond the proof system. Every invariant and every action
property that a run checks is also proved.

## Plan

Built: `NdkLooper`, `NativeMain`, `GamepadDelivery`, `AudioStream` with
`BufferQueue`, `GenerationStore`, `AssetCache`, `GuestSwap`, and their proofs. What
would come next, in this order:

1. `Session`: the GameActivity lifecycle with post-exit resume, composed with
   `GamepadDelivery`'s launch actions.
2. Text input and pointer capture: agreement of the engine's and the window's edit
   and capture state.
3. Discord presence: the last activity set is published through reconnects.

Not modelled and not planned: see the notes in `PROJECT.json`.
