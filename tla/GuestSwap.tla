----------------------------- MODULE GuestSwap -----------------------------
(***************************************************************************)
(* The hand-over of the window from Tipsy's boot frame to the client.  A   *)
(* sentinel thread (src/internal/graphics/egl.c) presents one black frame  *)
(* and then waits until the client presents: told by the EGL shim          *)
(* (src/internal/android/host.c) through a router (guest_swap.go), or else *)
(* by a few looks at the window.  The client creates, presents and         *)
(* destroys surfaces of the window on threads of its own meanwhile.        *)
(*                                                                         *)
(* There is one window and one display: a key of the router is a surface.  *)
(***************************************************************************)
EXTENDS Integers, FiniteSets

CONSTANTS
    Threads,        \* the client's threads
    Surfaces,       \* values of an EGLSurface; the host gives them out again
    MaxGeneration,  \* bounds how many registrations and surfaces there are
    MaxStarts,      \* bounds how often the sentinel is started
    MaxProbes       \* TIPSY_SWAP_FALLBACK_MAX_PROBES

ASSUME GuestSwapAssumption ==
    /\ IsFiniteSet(Threads) /\ IsFiniteSet(Surfaces) /\ 0 \notin Surfaces
    /\ MaxGeneration \in Nat /\ MaxStarts \in 0 .. MaxGeneration /\ MaxProbes \in Nat

Generations == 1 .. MaxGeneration

VARIABLES
    nextGeneration, starts,
    window,     \* the router's registration for the window, or 0
    accepted,   \* the registrations whose hand-over was accepted
    route,      \* the router's surfaces: the generation of each, or 0
    entry,      \* the guestSwapSurface of a generation
    swap,       \* e.swapGuest, the registration of the running sentinel, or 0
    guest,      \* e.swapGuestSurface, a generation or 0
    stopping,   \* StopSwapThread holds e.mu and joins the sentinel
    sentinel,   \* struct tipsy_swap
    records, pendingHandoffs,   \* egl_guest_surfaces and its count
    live,       \* the host's surfaces
    crossed,    \* history: generations whose record an older one's store dropped
    job         \* the call a thread is in: its step, surface and generation

router == <<nextGeneration, window, accepted, route, entry>>
egl == <<swap, guest, stopping, sentinel, starts>>
shim == <<records, pendingHandoffs>>
vars == <<router, egl, shim, live, job, crossed>>

Gone == [run |-> FALSE, retired |-> FALSE, finished |-> FALSE,
         avail |-> FALSE, probes |-> 0, at |-> "done"]
Idle == [at |-> "idle", surf |-> 0, gen |-> 0]

Init ==
    /\ nextGeneration = 0 /\ starts = 0 /\ window = 0 /\ accepted = {}
    /\ route = [s \in Surfaces |-> 0]
    /\ entry = [g \in Generations |-> [reg |-> 0, pending |-> FALSE, inFlight |-> FALSE]]
    /\ swap = 0 /\ guest = 0 /\ stopping = FALSE /\ sentinel = Gone
    /\ records = {} /\ pendingHandoffs = 0 /\ live = {}
    /\ job = [t \in Threads |-> Idle] /\ crossed = {}

(* The routes without those of a registration.                             *)
Without(reg) ==
    [s \in Surfaces |-> IF route[s] # 0 /\ entry[route[s]].reg = reg THEN 0 ELSE route[s]]

(* A broadcast wakes the sentinel, which looks again.                      *)
Woken(c) == IF c.at \in {"wait", "timed"} THEN [c EXCEPT !.at = "check"] ELSE c

-----------------------------------------------------------------------------
(* StartSwapThread, with register of the router.                           *)
Start ==
    /\ swap = 0 /\ starts < MaxStarts
    /\ nextGeneration' = nextGeneration + 1
    /\ window' = nextGeneration' /\ swap' = nextGeneration'
    /\ route' = IF window = 0 THEN route ELSE Without(window)
    /\ sentinel' = [Gone EXCEPT !.run = TRUE, !.at = "present"]
    /\ starts' = starts + 1
    /\ UNCHANGED <<accepted, entry, guest, stopping, shim, live, job, crossed>>

(* stopSwapThreadLocked: callbacks find no registration from here on, and  *)
(* the thread is told, joined under e.mu                                   *)
Stop ==
    /\ swap # 0 /\ ~stopping /\ stopping' = TRUE
    /\ window' = IF window = swap THEN 0 ELSE window
    /\ route' = Without(swap)
    /\ guest' = 0 /\ sentinel' = Woken([sentinel EXCEPT !.run = FALSE])
    /\ UNCHANGED <<nextGeneration, starts, accepted, entry, swap, shim, live, job, crossed>>

(* and freed.                                                              *)
Joined ==
    /\ stopping /\ sentinel.at = "done"
    /\ swap' = 0 /\ stopping' = FALSE /\ sentinel' = Gone
    /\ UNCHANGED <<router, starts, guest, shim, live, job, crossed>>

-----------------------------------------------------------------------------
(* tipsy_swap_main                                                         *)
Becomes(c) ==
    /\ swap # 0 /\ sentinel' = c
    /\ UNCHANGED <<router, swap, guest, stopping, starts, shim, live, job, crossed>>

(* It shows the boot frame, unless EGL fails.                              *)
Present ==
    /\ sentinel.at = "present"
    /\ \E step \in {"check", "finish"} : Becomes([sentinel EXCEPT !.at = step])

(* It waits without a deadline for a surface that is known to be the       *)
(* client's, for a while otherwise.                                        *)
Check ==
    /\ sentinel.at = "check"
    /\ Becomes([sentinel EXCEPT !.at =
          IF ~sentinel.run \/ sentinel.retired THEN "finish"
          ELSE IF sentinel.avail THEN "wait"
          ELSE IF sentinel.probes >= MaxProbes THEN "finish" ELSE "timed"])

Timeout ==
    /\ sentinel.at = "timed"
    /\ Becomes([sentinel EXCEPT !.probes = @ + 1, !.at = "probe"])

(* It looks at the window for a frame that is not its own.                 *)
Probe ==
    /\ sentinel.at = "probe"
    /\ \E foreign \in BOOLEAN :
          Becomes([sentinel EXCEPT !.at = "check",
             !.retired = @ \/ (foreign /\ sentinel.run /\ ~sentinel.avail)])

(* tipsy_swap_finish                                                       *)
Finish ==
    /\ sentinel.at = "finish"
    /\ Becomes([sentinel EXCEPT !.finished = TRUE, !.at = "done"])

Sentinel == Present \/ Check \/ Timeout \/ Probe \/ Finish

-----------------------------------------------------------------------------
(* The steps of presenting, creating and destroying a surface.             *)
Claiming == {"guestSwap", "signal", "accept", "reject", "complete", "rearm"}
Creating == {"discard", "created", "tell", "confirm", "store", "rollback", "withdraw"}
Destroying == {"destroyed", "untell", "hostDestroy"}

At(t, step) == job[t].at = step
Goto(t, step) == job' = [job EXCEPT ![t].at = step]
Return(t) == job' = [job EXCEPT ![t] = Idle]
Pending(rs) == {r \in rs : r.state = "pending"}

(* The sentinel's surface is the one this call is about.                   *)
Ours(t) == /\ swap # 0 /\ swap = entry[job[t].gen].reg
           /\ guest = job[t].gen
(* tipsy_egl_swap_thread_set_guest_signal_available                        *)
Active == sentinel.run /\ ~sentinel.finished
SetAvailable(b) ==
    sentinel' = IF Active THEN Woken([sentinel EXCEPT !.avail = b]) ELSE sentinel

-----------------------------------------------------------------------------
(* eglCreateWindowSurface, by any thread: the host gives out a handle that *)
(* no surface and no thread's current surface has.  Without memory it      *)
(* stays unknown.                                                          *)
Underway == {t \in Threads : job[t].at \in {"discard", "created"}}

Create(t) ==
    /\ At(t, "idle")
    /\ \E s \in Surfaces \ live :
          /\ \A u \in Threads : job[u].surf # s
          /\ live' = live \cup {s}
          /\ \/ /\ nextGeneration + (MaxStarts - starts) + Cardinality(Underway)
                       < MaxGeneration
                /\ job' = [job EXCEPT ![t] = [at |-> "discard", surf |-> s, gen |-> 0]]
             \/ job' = job
    /\ UNCHANGED <<router, egl, shim, crossed>>

(* tipsy_egl_guest_surface_discard_window                                  *)
Discard(t) ==
    /\ At(t, "discard") /\ Goto(t, "created")
    /\ pendingHandoffs' = pendingHandoffs - Cardinality(Pending(records))
    /\ records' = {}
    /\ UNCHANGED <<router, egl, live, crossed>>

(* Mutant: the entry is not made pending.                                  *)
SurfaceCreatedBlank(t) ==
    /\ At(t, "created")
    /\ \/ window = 0 /\ Return(t) /\ UNCHANGED router
       \/ /\ window # 0
          /\ nextGeneration' = nextGeneration + 1
          /\ entry' = [entry EXCEPT ![nextGeneration'] =
                [reg |-> window, pending |-> FALSE, inFlight |-> FALSE]]
          /\ route' = [Without(window) EXCEPT ![job[t].surf] = nextGeneration']
          /\ job' = [job EXCEPT ![t] =
                        [at |-> "tell", surf |-> job[t].surf, gen |-> nextGeneration']]
          /\ UNCHANGED <<window, accepted>>
    /\ UNCHANGED <<egl, shim, live, crossed>>

(* surfaceCreated of the router: the surface supersedes those before it,   *)
SurfaceCreated(t) ==
    /\ At(t, "created")
    /\ \/ window = 0 /\ Return(t) /\ UNCHANGED router
       \/ /\ window # 0
          /\ nextGeneration' = nextGeneration + 1
          /\ entry' = [entry EXCEPT ![nextGeneration'] =
                [reg |-> window, pending |-> window \notin accepted, inFlight |-> FALSE]]
          /\ route' = [Without(window) EXCEPT ![job[t].surf] = nextGeneration']
          /\ job' = [job EXCEPT ![t] =
                        [at |-> "tell", surf |-> job[t].surf, gen |-> nextGeneration']]
          /\ UNCHANGED <<window, accepted>>
    /\ UNCHANGED <<egl, shim, live, crossed>>

(* the sentinel is told to wait for it,                                    *)
Tell(t) ==
    /\ At(t, "tell") /\ ~stopping
    /\ LET fits == swap # 0 /\ swap = entry[job[t].gen].reg /\ guest <= job[t].gen
       IN  /\ IF fits THEN SetAvailable(TRUE) ELSE UNCHANGED sentinel
           /\ IF fits /\ (Active \/ sentinel.retired)
              THEN guest' = job[t].gen /\ Goto(t, "confirm")
              ELSE guest' = guest /\ Goto(t, "withdraw")
    /\ UNCHANGED <<router, swap, stopping, starts, shim, live, crossed>>

(* unless it is obsolete by now.                                           *)
Confirm(t) ==
    /\ At(t, "confirm")
    /\ Goto(t, IF window = entry[job[t].gen].reg /\ route[job[t].surf] = job[t].gen
               THEN "store" ELSE "rollback")
    /\ UNCHANGED <<router, egl, shim, live, crossed>>

Withdraw(t) ==
    /\ At(t, "withdraw") /\ Return(t)
    /\ route' = [route EXCEPT ![job[t].surf] = IF @ = job[t].gen THEN 0 ELSE @]
    /\ UNCHANGED <<nextGeneration, window, accepted, entry, egl, shim, live, crossed>>

(* tipsy_egl_guest_surface_store drops every record of the window, also    *)
(* one that is newer, of a creation that overtook this.                    *)
Store(t) ==
    /\ At(t, "store") /\ Return(t)
    /\ crossed' = crossed \cup {g \in Generations :
                                 g > job[t].gen /\ \E r \in records : r.gen = g}
    /\ pendingHandoffs' = pendingHandoffs - Cardinality(Pending(records)) + 1
    /\ records' = {[surf |-> job[t].surf, gen |-> job[t].gen, state |-> "pending"]}
    /\ UNCHANGED <<router, egl, live>>

-----------------------------------------------------------------------------
(* eglSwapBuffers: after the host presented, one swap may claim a pending  *)
(* hand-over,                                                              *)
Swap(t, s) ==
    /\ At(t, "idle") /\ s \in live /\ pendingHandoffs # 0
    /\ \E r \in records :
          /\ r.surf = s /\ r.state = "pending"
          /\ records' = (records \ {r}) \cup {[r EXCEPT !.state = "inflight"]}
          /\ pendingHandoffs' = pendingHandoffs - 1
          /\ job' = [job EXCEPT ![t] = [at |-> "guestSwap", surf |-> s, gen |-> r.gen]]
    /\ UNCHANGED <<router, egl, live, crossed>>

(* guestSwap of the router checks that it is current,                      *)
GuestSwap(t) ==
    /\ At(t, "guestSwap")
    /\ LET g == job[t].gen
           current == route[job[t].surf] = g /\ window = entry[g].reg
           done == window \in accepted \/ ~entry[g].pending
       IN  /\ Goto(t, IF ~current THEN "rearm" ELSE IF done THEN "complete"
                      ELSE IF entry[g].inFlight THEN "rearm" ELSE "signal")
           /\ entry' = [entry EXCEPT ![g].inFlight = @ \/ (current /\ ~done)]
    /\ UNCHANGED <<nextGeneration, window, accepted, route, egl, shim, live, crossed>>

(* Mutant: without the broadcast.                                          *)
SignalQuietly(t) ==
    /\ At(t, "signal") /\ ~stopping
    /\ IF Ours(t) /\ Active /\ sentinel.avail /\ ~sentinel.retired
       THEN sentinel' = [sentinel EXCEPT !.retired = TRUE] /\ Goto(t, "accept")
       ELSE UNCHANGED sentinel /\ Goto(t, "reject")
    /\ UNCHANGED <<router, swap, guest, stopping, starts, shim, live, crossed>>

(* the sentinel retires if it waits for this surface,                      *)
Signal(t) ==
    /\ At(t, "signal") /\ ~stopping
    /\ IF Ours(t) /\ Active /\ sentinel.avail /\ ~sentinel.retired
       THEN sentinel' = Woken([sentinel EXCEPT !.retired = TRUE]) /\ Goto(t, "accept")
       ELSE UNCHANGED sentinel /\ Goto(t, "reject")
    /\ UNCHANGED <<router, swap, guest, stopping, starts, shim, live, crossed>>

(* and the router and the shim note the answer.                            *)
Accept(t) ==
    /\ At(t, "accept") /\ Goto(t, "complete")
    /\ LET g == job[t].gen
       IN  /\ accepted' = IF window = entry[g].reg THEN accepted \cup {window} ELSE accepted
           /\ entry' = [entry EXCEPT ![g].inFlight = FALSE, ![g].pending = FALSE]
    /\ UNCHANGED <<nextGeneration, window, route, egl, shim, live, crossed>>

Reject(t) ==
    /\ At(t, "reject") /\ Goto(t, "rearm")
    /\ LET g == job[t].gen
       IN  entry' = IF /\ window = entry[g].reg /\ route[job[t].surf] = g
                       /\ window \notin accepted
                    THEN [entry EXCEPT ![g].inFlight = FALSE, ![g].pending = TRUE]
                    ELSE entry
    /\ UNCHANGED <<nextGeneration, window, accepted, route, egl, shim, live, crossed>>

(* tipsy_egl_guest_surface_finish                                          *)
FinishClaim(t) ==
    /\ job[t].at \in {"complete", "rearm"} /\ Return(t)
    /\ LET claimed == [surf |-> job[t].surf, gen |-> job[t].gen, state |-> "inflight"]
           state == IF At(t, "complete") THEN "complete" ELSE "pending"
       IN  IF claimed \in records
           THEN /\ records' = (records \ {claimed}) \cup {[claimed EXCEPT !.state = state]}
                /\ pendingHandoffs' = pendingHandoffs + (IF state = "pending" THEN 1 ELSE 0)
           ELSE UNCHANGED shim
    /\ UNCHANGED <<router, egl, live, crossed>>

(* Mutant: a record whose swap is in flight is counted down again.         *)
DestroyCounting(t, s) ==
    /\ At(t, "idle") /\ s \in live
    /\ \A u \in Threads : job[u].surf = s => job[u].at \in Claiming
    /\ LET taken == {r \in records : r.surf = s}
       IN  /\ records' = records \ taken
           /\ pendingHandoffs' = pendingHandoffs - Cardinality(taken)
           /\ job' = [job EXCEPT ![t] =
                 [at |-> IF taken = {} THEN "hostDestroy" ELSE "destroyed", surf |-> s,
                  gen |-> IF taken = {} THEN 0 ELSE (CHOOSE r \in taken : TRUE).gen]]
    /\ UNCHANGED <<router, egl, live, crossed>>

-----------------------------------------------------------------------------
(* eglDestroySurface: the record is taken,                                 *)
Destroy(t, s) ==
    /\ At(t, "idle") /\ s \in live
    /\ \A u \in Threads : job[u].surf = s => job[u].at \in Claiming
    /\ LET taken == {r \in records : r.surf = s}
       IN  /\ records' = records \ taken
           /\ pendingHandoffs' = pendingHandoffs - Cardinality(Pending(taken))
           /\ job' = [job EXCEPT ![t] =
                 [at |-> IF taken = {} THEN "hostDestroy" ELSE "destroyed", surf |-> s,
                  gen |-> IF taken = {} THEN 0 ELSE (CHOOSE r \in taken : TRUE).gen]]
    /\ UNCHANGED <<router, egl, live, crossed>>

(* Mutant: the sentinel is not told.                                       *)
SurfaceForgotten(t) ==
    /\ At(t, "destroyed")
    /\ IF route[job[t].surf] = job[t].gen
       THEN route' = [route EXCEPT ![job[t].surf] = 0] /\ Goto(t, "hostDestroy")
       ELSE route' = route /\ Goto(t, "hostDestroy")
    /\ UNCHANGED <<nextGeneration, window, accepted, entry, egl, shim, live, crossed>>

(* the router's route with it,                                             *)
SurfaceDestroyed(t) ==
    /\ At(t, "destroyed")
    /\ IF route[job[t].surf] = job[t].gen
       THEN route' = [route EXCEPT ![job[t].surf] = 0] /\ Goto(t, "untell")
       ELSE route' = route /\ Goto(t, "hostDestroy")
    /\ UNCHANGED <<nextGeneration, window, accepted, entry, egl, shim, live, crossed>>

(* the sentinel no longer waits for it; so it goes with a surface that was *)
(* obsolete when it was created;                                           *)
Untell(t) ==
    /\ job[t].at \in {"untell", "rollback"} /\ ~stopping
    /\ IF At(t, "rollback") THEN Return(t) ELSE Goto(t, "hostDestroy")
    /\ IF Ours(t) THEN guest' = 0 /\ SetAvailable(FALSE) ELSE UNCHANGED <<guest, sentinel>>
    /\ UNCHANGED <<router, swap, stopping, starts, shim, live, crossed>>

(* the host may give the handle out again.                                 *)
HostDestroy(t) ==
    /\ At(t, "hostDestroy") /\ Return(t)
    /\ live' = live \ {job[t].surf}
    /\ UNCHANGED <<router, egl, shim, crossed>>

-----------------------------------------------------------------------------
Step(t) ==
    \/ Discard(t) \/ SurfaceCreated(t) \/ Tell(t) \/ Confirm(t) \/ Withdraw(t) \/ Store(t)
    \/ GuestSwap(t) \/ Signal(t) \/ Accept(t) \/ Reject(t) \/ FinishClaim(t)
    \/ SurfaceDestroyed(t) \/ Untell(t) \/ HostDestroy(t)

Next ==
    \/ Start \/ Stop \/ Joined \/ Sentinel
    \/ \E t \in Threads : Create(t) \/ Step(t)
    \/ \E t \in Threads, s \in Surfaces : Swap(t, s) \/ Destroy(t, s)

Spec == Init /\ [][Next]_vars

(* Threads run, and a client goes on presenting each of its surfaces.      *)
Fairness ==
    /\ WF_vars(Sentinel) /\ WF_vars(Joined)
    /\ \A t \in Threads : WF_vars(Step(t))
    /\ \A s \in Surfaces : SF_vars(\E t \in Threads : Swap(t, s))
FairSpec == Spec /\ Fairness

-----------------------------------------------------------------------------
Entries == [reg : 0 .. MaxGeneration, pending : BOOLEAN, inFlight : BOOLEAN]
SentinelStates ==
    [run : BOOLEAN, retired : BOOLEAN, finished : BOOLEAN, avail : BOOLEAN,
     probes : 0 .. MaxProbes,
     at : {"present", "check", "wait", "timed", "probe", "finish", "done"}]
Records == [surf : Surfaces, gen : Generations, state : {"pending", "inflight", "complete"}]
Jobs == [at : {"idle"} \cup Claiming \cup Creating \cup Destroying,
         surf : Surfaces \cup {0}, gen : 0 .. MaxGeneration]

RouterType ==
    /\ nextGeneration \in 0 .. MaxGeneration /\ window \in 0 .. nextGeneration
    /\ accepted \subseteq 1 .. nextGeneration
    /\ route \in [Surfaces -> 0 .. nextGeneration]
    /\ entry \in [Generations -> Entries]
    /\ \A g \in Generations : entry[g].reg <= nextGeneration

EglType ==
    /\ swap \in 0 .. nextGeneration /\ guest \in 0 .. nextGeneration
    /\ stopping \in BOOLEAN
    /\ sentinel \in SentinelStates
    /\ sentinel.at = "timed" => sentinel.probes < MaxProbes
    /\ starts \in 0 .. MaxStarts

ShimType == records \subseteq Records /\ pendingHandoffs \in Nat /\ live \subseteq Surfaces

(* The type of the state.                                                  *)
GuestTypeOK ==
    RouterType /\ EglType /\ ShimType /\ job \in [Threads -> Jobs] /\ crossed \subseteq Generations

(* The three layers agree about who has been handed over to whom: the      *)
(* shim's count is that of its pending records, which are of surfaces that *)
(* still exist; it stops signalling a surface the router still routes only *)
(* when the sentinel has retired, and so it has when the router accepts.   *)
LayersAgree ==
    /\ pendingHandoffs = Cardinality(Pending(records))
    /\ \A r \in records :
          /\ r.surf \in live
          /\ r.state = "complete" /\ route[r.surf] = r.gen => sentinel.retired
    /\ swap \in accepted => sentinel.retired

(* A sentinel that waits for a surface without a deadline can count on it: *)
(* the next swap of that surface will get through every layer's check, or  *)
(* some thread is just now about to signal, replace or withdraw it.  The   *)
(* exception are two creations that overlap and whose stores come in the   *)
(* reverse order: the older then drops the record of the newer, which      *)
(* router and sentinel go by.                                              *)
AwaitedIsBacked ==
    swap # 0 /\ Active /\ sentinel.avail /\ ~sentinel.retired =>
       \/ guest \in crossed
       \/ \E r \in records : /\ r.gen = guest /\ r.state = "pending" /\ r.surf \in live
                             /\ route[r.surf] = guest /\ window = swap
                             /\ entry[guest] = [reg |-> swap, pending |-> TRUE, inFlight |-> FALSE]
       \/ \E t \in Threads : job[t].at \in Creating
       \/ \E t \in Threads : job[t].gen = guest /\ job[t].at \in Claiming \cup {"destroyed", "untell"}

(* The boot thread does not outlive its purpose: it retires, gives up or   *)
(* is stopped, whatever surfaces come and go, unless the record of the one *)
(* that it waits for was dropped by the store of an older.                 *)
SentinelEnds == []<>(sentinel.at = "done" \/ guest \in crossed)
=============================================================================
