-------------------------- MODULE GuestSwapProofs --------------------------
(***************************************************************************)
(* Proofs about GuestSwap, for any threads, surfaces and bounds: the types *)
(* of its state, that its three layers agree, and that the sentinel never  *)
(* waits for a surface whose swap it would not hear of.                    *)
(***************************************************************************)
EXTENDS GuestSwap, FiniteSetTheorems, TLAPS

(* The sentinel waits for a surface, or is about to.                       *)
Awaits == swap # 0 /\ Active /\ sentinel.avail /\ ~sentinel.retired

(* A surface that is being created has a generation.                       *)
Told == {"tell", "confirm", "store", "rollback", "withdraw"}
Owning == Claiming \cup {"destroyed", "untell"} \cup Told

(* The generations that are left suffice for the starts to come and the    *)
(* creations under way; a call that has a surface and a generation has one.*)
Reserved ==
    nextGeneration + (MaxStarts - starts) + Cardinality(Underway) <= MaxGeneration

Called(t) ==
    /\ job[t].at # "idle" => job[t].surf \in Surfaces
    /\ job[t].at \in Creating \cup Destroying => job[t].surf \in live
    /\ job[t].at \in Owning => job[t].gen \in 1 .. nextGeneration /\ entry[job[t].gen].reg # 0
Calls == \A t \in Threads : Called(t)

Types == GuestTypeOK /\ Reserved /\ Calls

(* The router's registration is that of the sentinel, as long as nobody    *)
(* stops it.                                                               *)
Windows ==
    /\ swap = 0 => sentinel = Gone /\ ~stopping
    /\ ~stopping => window = swap
    /\ stopping => window = 0 /\ ~sentinel.run
    /\ swap = 0 \/ stopping => guest = 0

(* It routes one surface, the newest, and the sentinel's is one of its     *)
(* registration.                                                           *)
Routes ==
    /\ \A s \in Surfaces : route[s] # 0 => window # 0 /\ entry[route[s]].reg = window
    /\ \A s, u \in Surfaces : route[s] # 0 /\ route[u] # 0 => s = u
    /\ guest # 0 => entry[guest].reg = swap
    /\ Awaits => guest # 0

Newest ==
    \A s \in Surfaces, g \in Generations :
       route[s] # 0 /\ g <= nextGeneration /\ entry[g].reg # 0 => g <= route[s]

(* There is at most one record.                                            *)
OneRecord ==
    /\ \A r, q \in records : r = q
    /\ pendingHandoffs = IF Pending(records) = {} THEN 0 ELSE 1

(* A surface under creation has no record yet, one under destruction none  *)
(* any more, and neither is another's.                                     *)
LiveRecords ==
    /\ \A r \in records : /\ r.gen <= nextGeneration /\ entry[r.gen].reg # 0 /\ r.surf \in live
    /\ \A r \in records, t \in Threads :
          r.surf = job[t].surf => job[t].at \in Claiming \cup {"idle"}

Alone ==
    /\ \A t, u \in Threads :
          job[t].at \in Destroying /\ job[u].at \in Destroying
             /\ job[t].surf = job[u].surf => t = u
    /\ \A t, u \in Threads :
          job[t].at \in Creating /\ job[t].surf = job[u].surf => t = u

Recorded == OneRecord /\ LiveRecords /\ Alone

(* One claim of a generation is under way, and none of one that is still   *)
(* being created.                                                          *)
OneClaim ==
    /\ \A t \in Threads, r \in records :
          job[t].at \in Claiming /\ job[t].gen = r.gen => r.state = "inflight"
    /\ \A t, u \in Threads :
          job[t].at \in Claiming /\ job[u].at \in Claiming /\ job[t].gen = job[u].gen => t = u

Unshared ==
    \A t \in Threads : job[t].at \in Told =>
       /\ \A r \in records : r.gen # job[t].gen
       /\ \A u \in Threads : job[u].at \in Owning /\ job[u].gen = job[t].gen => u = t

Claims == OneClaim /\ Unshared

(* Who is not pending any more belongs to a sentinel that has retired.     *)
AnsweredEntries ==
    /\ swap \in accepted => sentinel.retired
    /\ \A g \in 1 .. nextGeneration :
          swap # 0 /\ entry[g].reg = swap => entry[g].pending \/ sentinel.retired

AnsweredRecords ==
    /\ \A t \in Threads :
          job[t].at \in {"accept", "complete"} /\ swap # 0 /\ entry[job[t].gen].reg = swap
             => sentinel.retired
    /\ \A r \in records :
          r.state = "complete" /\ swap # 0 /\ entry[r.gen].reg = swap => sentinel.retired

Answered == AnsweredEntries /\ AnsweredRecords

(* Nobody presents a surface that is being created, and the sentinel has   *)
(* not heard of it before it is told.                                      *)
Created ==
    \A t \in Threads :
       /\ job[t].at \in Told => ~entry[job[t].gen].inFlight
       /\ job[t].at \in {"tell", "withdraw"} => guest # job[t].gen

(* A record through whose next swap the sentinel will retire, or a thread  *)
(* that is just now about to signal it,                                    *)
CanSignal(t, r) ==
    /\ job[t].gen = r.gen /\ job[t].surf = r.surf
    /\ \/ job[t].at = "guestSwap" /\ ~entry[r.gen].inFlight
       \/ job[t].at = "signal"

Offers(r) ==
    /\ r.gen = guest /\ route[r.surf] = guest
    /\ \/ r.state = "pending" /\ ~entry[guest].inFlight
       \/ r.state = "inflight" /\ \E t \in Threads : CanSignal(t, r)

(* or about to tell it that the surface is gone,                           *)
Leaves(t) ==
    /\ job[t].gen = guest
    /\ \/ job[t].at = "untell"
       \/ job[t].at = "destroyed" /\ route[job[t].surf] = guest

(* or creates one that will take its place, or has just created this.      *)
Brings(t) ==
    \/ job[t].at = "created"
    \/ job[t].at = "tell" /\ route[job[t].surf] = job[t].gen /\ guest <= job[t].gen
    \/ job[t].at \in {"confirm", "rollback"} /\ job[t].gen = guest
    \/ job[t].at = "store" /\ job[t].gen = guest /\ route[job[t].surf] = guest

Backs ==
    \/ \E r \in records : Offers(r)
    \/ \E t \in Threads : Leaves(t) \/ Brings(t)

Backed == Awaits /\ guest \notin crossed => Backs

GuestInv ==
    /\ Types /\ Windows /\ Routes /\ Newest /\ Recorded /\ Claims /\ Answered /\ Created
    /\ Backed

(* The sentinel's own steps: it may retire by itself, unless it waits for  *)
(* a surface.                                                              *)
LEMMA SentinelDoes ==
  ASSUME GuestInv, Sentinel
  PROVE  /\ swap # 0 /\ UNCHANGED <<router, swap, guest, stopping, starts, shim, live, job, crossed>>
         /\ sentinel' \in SentinelStates
         /\ sentinel'.at = "timed" => sentinel'.probes < MaxProbes
         /\ sentinel'.run = sentinel.run /\ sentinel'.avail = sentinel.avail
         /\ sentinel.retired => sentinel'.retired
         /\ sentinel.finished => sentinel'.finished
<1> USE DEF GuestInv, Types, GuestTypeOK, EglType, SentinelStates, Becomes
<1>1. CASE Present
  BY <1>1 DEF Present
<1>2. CASE Check
  BY <1>2, GuestSwapAssumption DEF Check
<1>3. CASE Timeout
  <2>1. /\ sentinel.probes + 1 \in 0 .. MaxProbes
        /\ sentinel' = [sentinel EXCEPT !.probes = @ + 1, !.at = "probe"]
    BY <1>3, GuestSwapAssumption DEF Timeout
  <2>2. UNCHANGED <<router, swap, guest, stopping, starts, shim, live, job, crossed>> /\ swap # 0
    BY <1>3 DEF Timeout
  <2> QED
    BY <2>1, <2>2
<1>4. CASE Probe
  BY <1>4 DEF Probe
<1>5. CASE Finish
  BY <1>5 DEF Finish
<1> QED
  BY <1>1, <1>2, <1>3, <1>4, <1>5 DEF Sentinel

(* What others tell it.                                                    *)
LEMMA SentinelTold ==
  ASSUME NEW c \in SentinelStates
  PROVE  /\ Woken(c) \in SentinelStates /\ Woken(c).at # "timed"
         /\ Woken(c).run = c.run /\ Woken(c).avail = c.avail
         /\ Woken(c).retired = c.retired /\ Woken(c).finished = c.finished
         /\ \A b \in BOOLEAN : [c EXCEPT !.avail = b] \in SentinelStates
         /\ [c EXCEPT !.retired = TRUE] \in SentinelStates
         /\ [c EXCEPT !.run = FALSE] \in SentinelStates
BY DEF SentinelStates, Woken

(* What the router tells it about a surface leaves its own flags alone.    *)
LEMMA SetAvailableSteps ==
  ASSUME EglType, NEW b \in BOOLEAN, SetAvailable(b)
  PROVE  /\ sentinel' \in SentinelStates
         /\ sentinel'.at = "timed" => sentinel'.probes < MaxProbes
         /\ sentinel'.run = sentinel.run /\ sentinel'.finished = sentinel.finished
         /\ sentinel'.retired = sentinel.retired
         /\ Active => sentinel'.avail = b
<1>1. [sentinel EXCEPT !.avail = b] \in SentinelStates
  BY SentinelTold DEF EglType
<1>2. /\ [sentinel EXCEPT !.avail = b].run = sentinel.run
      /\ [sentinel EXCEPT !.avail = b].finished = sentinel.finished
      /\ [sentinel EXCEPT !.avail = b].retired = sentinel.retired
      /\ [sentinel EXCEPT !.avail = b].avail = b
  OBVIOUS
<1> QED
  BY <1>1, <1>2, SentinelTold DEF SetAvailable, EglType

-----------------------------------------------------------------------------
Steps == {"idle"} \cup Claiming \cup Creating \cup Destroying

(* A step of thread t leaves its job so, and those of the others alone.    *)
Takes(t, step, s, g) ==
    /\ job' \in [Threads -> Jobs]
    /\ job'[t].at = step /\ job'[t].surf = s /\ job'[t].gen = g
    /\ \A u \in Threads \ {t} : job'[u] = job[u]

(* Where the job of a thread goes: on, to a new job, or home.              *)
LEMMA Goes ==
  ASSUME job \in [Threads -> Jobs], NEW t \in Threads, NEW step \in Steps, Goto(t, step)
  PROVE  Takes(t, step, job[t].surf, job[t].gen)
BY DEF Goto, Jobs, Steps, Takes

LEMMA Begins ==
  ASSUME job \in [Threads -> Jobs], NEW t \in Threads,
         NEW step \in Steps, NEW s \in Surfaces \cup {0}, NEW g \in 0 .. MaxGeneration,
         job' = [job EXCEPT ![t] = [at |-> step, surf |-> s, gen |-> g]]
  PROVE  Takes(t, step, s, g)
BY DEF Jobs, Steps, Takes

LEMMA Ends ==
  ASSUME job \in [Threads -> Jobs], NEW t \in Threads, Return(t)
  PROVE  Takes(t, "idle", 0, 0)
<1>1. 0 \in 0 .. MaxGeneration /\ 0 \in Surfaces \cup {0} /\ "idle" \in Steps
  BY GuestSwapAssumption DEF Steps
<1>2. job' = [job EXCEPT ![t] = [at |-> "idle", surf |-> 0, gen |-> 0]]
  BY DEF Return, Idle
<1> QED
  BY <1>1, <1>2, Begins

(* Of at most one record, at most one is pending.                          *)
LEMMA OneCounts ==
  ASSUME NEW rs, \A r, q \in rs : r = q
  PROVE  Cardinality(Pending(rs)) = IF Pending(rs) = {} THEN 0 ELSE 1
<1>1. CASE Pending(rs) = {}
  BY <1>1, FS_EmptySet
<1>2. CASE Pending(rs) # {}
  <2>1. PICK r : r \in Pending(rs)
    BY <1>2
  <2>2. Pending(rs) = {r}
    BY <2>1 DEF Pending
  <2> QED
    BY <2>2, FS_Singleton
<1> QED
  BY <1>1, <1>2

(* A lone record is pending, or none is.                                   *)
LEMMA PendingOnes ==
  /\ Pending({}) = {}
  /\ \A q : (Pending({q}) = {}) <=> q.state # "pending"
BY DEF Pending

(* The creations under way that still need a generation are finitely many, *)
(* and the step of one thread adds or removes at most that one.            *)
LEMMA UnderwayIs == IsFiniteSet(Underway) /\ Cardinality(Underway) \in Nat
<1>1. Underway \subseteq Threads
  BY DEF Underway
<1>2. IsFiniteSet(Underway)
  BY <1>1, FS_Subset, GuestSwapAssumption
<1> QED
  BY <1>2, FS_CardinalityType

LEMMA UnderwayStays ==
  ASSUME NEW t \in Threads, NEW step, NEW s, NEW g, Takes(t, step, s, g),
         job[t].at \in {"discard", "created"} <=> step \in {"discard", "created"}
  PROVE  Underway' = Underway
BY DEF Takes, Underway

LEMMA UnderwayGrows ==
  ASSUME NEW t \in Threads, NEW s, NEW g, Takes(t, "discard", s, g), job[t].at = "idle"
  PROVE  Cardinality(Underway') = Cardinality(Underway) + 1
<1>1. Underway' = Underway \cup {t} /\ t \notin Underway
  BY DEF Takes, Underway
<1> QED
  BY <1>1, UnderwayIs, FS_AddElement

LEMMA UnderwayShrinks ==
  ASSUME NEW t \in Threads, NEW step \in {"idle", "tell"}, NEW s, NEW g, Takes(t, step, s, g),
         job[t].at = "created"
  PROVE  Cardinality(Underway') = Cardinality(Underway) - 1
<1>1. Underway' = Underway \ {t} /\ t \in Underway
  BY DEF Takes, Underway
<1> QED
  BY <1>1, UnderwayIs, FS_RemoveElement

(* A generation is left for a start, and for a surface under creation.     *)


LEMMA NextFits ==
  ASSUME Types
  PROVE  /\ starts < MaxStarts => nextGeneration + 1 \in Generations
         /\ \A t \in Threads : job[t].at = "created" => nextGeneration + 1 \in Generations
<1>1. /\ nextGeneration \in Nat /\ starts \in 0 .. MaxStarts
      /\ MaxGeneration \in Nat /\ MaxStarts \in Nat
  BY GuestSwapAssumption DEF Types, GuestTypeOK, RouterType, EglType
<1>2. nextGeneration + (MaxStarts - starts) + Cardinality(Underway) <= MaxGeneration
  BY DEF Types, Reserved
<1>3. Cardinality(Underway) \in Nat
  BY UnderwayIs
<1>4. ASSUME NEW t \in Threads, job[t].at = "created" PROVE Cardinality(Underway) >= 1
  <2>1. t \in Underway
    BY <1>4 DEF Underway
  <2>2. Underway # {}
    BY <2>1
  <2>3. Cardinality(Underway) # 0
    BY <2>2, UnderwayIs, FS_EmptySet
  <2> QED
    BY <1>3, <2>3
<1> QED
  BY <1>1, <1>2, <1>3, <1>4 DEF Generations

(* The surface and the generation of a job and of a record are known.      *)
LEMMA Known ==
  ASSUME GuestInv
  PROVE  /\ \A s \in Surfaces : route[s] \in Nat /\ (route[s] # 0 => route[s] \in Generations)
         /\ \A s \in Surfaces : route[s] <= nextGeneration
         /\ guest \in Nat /\ guest <= nextGeneration /\ (guest # 0 => guest \in Generations)
         /\ \A g \in 1 .. nextGeneration : g \in Generations
         /\ \A r \in records : r \in Records /\ r.gen \in Generations /\ r.surf \in Surfaces
         /\ \A t \in Threads :
               job[t].at \in Owning => /\ job[t].gen \in Generations /\ job[t].gen <= nextGeneration
                                       /\ entry[job[t].gen].reg # 0
         /\ nextGeneration \in Nat
<1>1. /\ RouterType /\ EglType /\ ShimType /\ Calls
      /\ nextGeneration \in Nat /\ \A g \in 1 .. nextGeneration : g \in Generations
  BY GuestSwapAssumption DEF GuestInv, Types, GuestTypeOK, RouterType, Generations
<1>2. /\ \A s \in Surfaces : route[s] \in Nat /\ (route[s] # 0 => route[s] \in Generations)
      /\ \A s \in Surfaces : route[s] <= nextGeneration
  BY <1>1 DEF RouterType
<1>3. guest \in Nat /\ guest <= nextGeneration /\ (guest # 0 => guest \in Generations)
  BY <1>1 DEF EglType
<1>4. \A r \in records : r \in Records /\ r.gen \in Generations /\ r.surf \in Surfaces
  BY <1>1 DEF ShimType, Records
<1>5. \A t \in Threads :
         job[t].at \in Owning => /\ job[t].gen \in Generations /\ job[t].gen <= nextGeneration
                                 /\ entry[job[t].gen].reg # 0
  BY <1>1 DEF Calls, Called
<1> QED
  BY <1>1, <1>2, <1>3, <1>4, <1>5

(* What each operation does, in a state of the invariant.                  *)
LEMMA StartDoes ==
  ASSUME GuestInv, Start
  PROVE  /\ swap = 0 /\ starts < MaxStarts /\ starts' = starts + 1
         /\ nextGeneration' = nextGeneration + 1 /\ nextGeneration' \in Generations
         /\ window' = nextGeneration' /\ swap' = nextGeneration'
         /\ route' \in [Surfaces -> 0 .. nextGeneration] /\ \A s \in Surfaces : route'[s] = 0
         /\ sentinel' \in SentinelStates /\ sentinel'.at # "timed"
         /\ sentinel'.run /\ ~sentinel'.avail /\ ~sentinel'.retired
         /\ UNCHANGED <<accepted, entry, guest, stopping, shim, live, job, crossed>>
<1>1. /\ swap = 0 /\ starts < MaxStarts /\ starts' = starts + 1
      /\ nextGeneration' = nextGeneration + 1 /\ nextGeneration' \in Generations
      /\ window' = nextGeneration' /\ swap' = nextGeneration'
      /\ UNCHANGED <<accepted, entry, guest, stopping, shim, live, job, crossed>>
  BY NextFits DEF Start, GuestInv
<1>2. route' \in [Surfaces -> 0 .. nextGeneration] /\ \A s \in Surfaces : route'[s] = 0
  BY DEF Start, Without, GuestInv, Types, GuestTypeOK, RouterType, Routes
<1>3. /\ sentinel' \in SentinelStates /\ sentinel'.at # "timed"
      /\ sentinel'.run /\ ~sentinel'.avail /\ ~sentinel'.retired
  <2>1. sentinel' = [run |-> TRUE, retired |-> FALSE, finished |-> FALSE,
                     avail |-> FALSE, probes |-> 0, at |-> "present"]
    BY DEF Start, Gone
  <2> QED
    BY <2>1, GuestSwapAssumption DEF SentinelStates
<1> QED
  BY <1>1, <1>2, <1>3

(* What every action does, as far as the invariant is concerned.           *)
LEMMA StopDoes ==
  ASSUME GuestInv, Stop
  PROVE  /\ swap # 0 /\ ~stopping /\ stopping' = TRUE /\ window' = 0 /\ guest' = 0
         /\ route' \in [Surfaces -> 0 .. nextGeneration] /\ \A s \in Surfaces : route'[s] = 0
         /\ sentinel' \in SentinelStates /\ sentinel'.at # "timed"
         /\ ~sentinel'.run /\ sentinel'.retired = sentinel.retired
         /\ UNCHANGED <<nextGeneration, starts, accepted, entry, swap, shim, live, job, crossed>>
<1>1. /\ swap # 0 /\ ~stopping /\ stopping' = TRUE /\ window' = 0 /\ guest' = 0
      /\ UNCHANGED <<nextGeneration, starts, accepted, entry, swap, shim, live, job, crossed>>
  BY DEF Stop, GuestInv, Windows
<1>2. route' \in [Surfaces -> 0 .. nextGeneration] /\ \A s \in Surfaces : route'[s] = 0
  BY DEF Stop, Without, GuestInv, Types, GuestTypeOK, RouterType, Windows, Routes
<1>3. /\ [sentinel EXCEPT !.run = FALSE] \in SentinelStates
      /\ ~[sentinel EXCEPT !.run = FALSE].run
      /\ [sentinel EXCEPT !.run = FALSE].retired = sentinel.retired
  BY DEF GuestInv, Types, GuestTypeOK, EglType, SentinelStates
<1> QED
  BY <1>1, <1>2, <1>3, SentinelTold DEF Stop

LEMMA JoinedDoes ==
  ASSUME Joined
  PROVE  /\ stopping /\ swap' = 0 /\ stopping' = FALSE /\ sentinel' = Gone
         /\ sentinel' \in SentinelStates /\ sentinel'.at # "timed"
         /\ ~sentinel'.run /\ ~sentinel'.avail /\ ~sentinel'.retired
         /\ UNCHANGED <<router, starts, guest, shim, live, job, crossed>>
BY GuestSwapAssumption DEF Joined, Gone, SentinelStates

LEMMA CreateDoes ==
  ASSUME GuestInv, NEW t \in Threads, Create(t)
  PROVE  /\ job[t].at = "idle"
         /\ \E s \in Surfaces \ live :
               /\ live' = live \cup {s} /\ \A u \in Threads : job[u].surf # s
               /\ \/ /\ nextGeneration + (MaxStarts - starts) + Cardinality(Underway)
                           < MaxGeneration
                     /\ Takes(t, "discard", s, 0)
                  \/ job' = job
         /\ UNCHANGED <<router, egl, shim, crossed>>
<1>1. ASSUME NEW s \in Surfaces,
             job' = [job EXCEPT ![t] = [at |-> "discard", surf |-> s, gen |-> 0]]
      PROVE  Takes(t, "discard", s, 0)
  <2>1. 0 \in 0 .. MaxGeneration /\ "discard" \in Steps /\ job \in [Threads -> Jobs]
    BY GuestSwapAssumption DEF Steps, Creating, GuestInv, Types, GuestTypeOK
  <2> QED
    BY <1>1, <2>1, Begins
<1> QED
  BY <1>1 DEF Create, At

LEMMA DiscardDoes ==
  ASSUME GuestInv, NEW t \in Threads, Discard(t)
  PROVE  /\ job[t].at = "discard" /\ Takes(t, "created", job[t].surf, job[t].gen)
         /\ records' = {} /\ pendingHandoffs' = 0
         /\ UNCHANGED <<router, egl, live, crossed>>
<1>1. /\ job[t].at = "discard" /\ Takes(t, "created", job[t].surf, job[t].gen)
      /\ records' = {} /\ UNCHANGED <<router, egl, live, crossed>>
  BY Goes DEF Discard, At, GuestInv, Types, GuestTypeOK, Steps, Creating
<1>2. pendingHandoffs' = 0
  BY OneCounts DEF Discard, GuestInv, Recorded, OneRecord
<1> QED
  BY <1>1, <1>2 DEF GuestInv, Types, Calls, Called, Creating

LEMMA SurfaceCreatedDoes ==
  ASSUME GuestInv, NEW t \in Threads, SurfaceCreated(t)
  PROVE  /\ job[t].at = "created"
         /\ \/ window = 0 /\ Takes(t, "idle", 0, 0) /\ UNCHANGED router
            \/ /\ window # 0
               /\ nextGeneration' = nextGeneration + 1 /\ nextGeneration' \in Generations
               /\ entry' \in [Generations -> Entries]
               /\ entry'[nextGeneration'].reg = window /\ ~entry'[nextGeneration'].inFlight
               /\ entry'[nextGeneration'].pending = (window \notin accepted)
               /\ \A g \in Generations \ {nextGeneration'} : entry'[g] = entry[g]
               /\ job[t].surf \in Surfaces
               /\ route' \in [Surfaces -> 0 .. nextGeneration']
               /\ route'[job[t].surf] = nextGeneration'
               /\ \A s \in Surfaces \ {job[t].surf} : route'[s] = 0
               /\ Takes(t, "tell", job[t].surf, nextGeneration')
               /\ UNCHANGED <<window, accepted>>
         /\ UNCHANGED <<egl, shim, live, crossed>>
<1>1. job[t].at = "created" /\ job[t].surf \in Surfaces
  BY DEF SurfaceCreated, At, GuestInv, Types, Calls, Called, Creating
<1>2. CASE window = 0
  BY <1>1, <1>2, Ends DEF SurfaceCreated, GuestInv, Types, GuestTypeOK
<1>3. CASE window # 0
  <2>1. /\ nextGeneration' = nextGeneration + 1 /\ nextGeneration' \in Generations
        /\ UNCHANGED <<window, accepted>> /\ UNCHANGED <<egl, shim, live, crossed>>
    BY <1>1, <1>3, NextFits DEF SurfaceCreated, GuestInv
  <2>2. Takes(t, "tell", job[t].surf, nextGeneration')
    BY <1>1, <1>3, <2>1, Begins DEF SurfaceCreated, GuestInv, Types, GuestTypeOK, Steps,
       Creating, Generations
  <2>3. window \in 0 .. MaxGeneration
    BY GuestSwapAssumption DEF GuestInv, Types, GuestTypeOK, RouterType
  <2>4. /\ entry' \in [Generations -> Entries]
        /\ entry'[nextGeneration'].reg = window /\ ~entry'[nextGeneration'].inFlight
        /\ entry'[nextGeneration'].pending = (window \notin accepted)
        /\ \A g \in Generations \ {nextGeneration'} : entry'[g] = entry[g]
    <3> DEFINE e == [reg |-> window, pending |-> window \notin accepted, inFlight |-> FALSE]
    <3>1. e \in Entries /\ e.reg = window /\ ~e.inFlight /\ e.pending = (window \notin accepted)
      BY <2>3 DEF Entries
    <3>2. entry \in [Generations -> Entries] /\ entry' = [entry EXCEPT ![nextGeneration'] = e]
      BY <1>3 DEF SurfaceCreated, GuestInv, Types, GuestTypeOK, RouterType
    <3> HIDE DEF e
    <3> QED
      BY <3>1, <3>2, <2>1
  <2>5. /\ route' \in [Surfaces -> 0 .. nextGeneration']
        /\ route'[job[t].surf] = nextGeneration'
        /\ \A s \in Surfaces \ {job[t].surf} : route'[s] = 0
    <3>1. /\ Without(window) \in [Surfaces -> 0 .. nextGeneration]
          /\ \A s \in Surfaces : Without(window)[s] = 0
      BY DEF Without, GuestInv, Types, GuestTypeOK, RouterType, Routes
    <3>2. route' = [Without(window) EXCEPT ![job[t].surf] = nextGeneration']
      BY <1>3 DEF SurfaceCreated
    <3>3. nextGeneration \in 0 .. MaxGeneration
      BY DEF GuestInv, Types, GuestTypeOK, RouterType
    <3> QED
      BY <1>1, <2>1, <3>1, <3>2, <3>3
  <2> QED
    BY <1>1, <1>3, <2>1, <2>2, <2>4, <2>5
<1> QED
  BY <1>2, <1>3

LEMMA TellDoes ==
  ASSUME GuestInv, NEW t \in Threads, Tell(t)
  PROVE  /\ job[t].at = "tell" /\ ~stopping
         /\ \/ /\ swap # 0 /\ swap = entry[job[t].gen].reg /\ guest <= job[t].gen
               /\ guest' = job[t].gen /\ Takes(t, "confirm", job[t].surf, job[t].gen)
            \/ /\ ~(swap # 0 /\ swap = entry[job[t].gen].reg /\ guest <= job[t].gen /\ Active)
               /\ guest' = guest /\ sentinel' = sentinel
               /\ Takes(t, "withdraw", job[t].surf, job[t].gen)
         /\ sentinel' \in SentinelStates
         /\ sentinel'.at = "timed" => sentinel'.probes < MaxProbes
         /\ sentinel'.run = sentinel.run /\ sentinel'.finished = sentinel.finished
         /\ sentinel'.retired = sentinel.retired
         /\ UNCHANGED <<router, swap, stopping, starts, shim, live, crossed>>
<1>1. /\ job[t].at = "tell" /\ ~stopping
      /\ UNCHANGED <<router, swap, stopping, starts, shim, live, crossed>>
  BY DEF Tell, At, GuestInv, Types, Calls, Called, Creating
<1>2. EglType /\ job \in [Threads -> Jobs] /\ "confirm" \in Steps /\ "withdraw" \in Steps
  BY DEF GuestInv, Types, GuestTypeOK, Steps, Creating
<1> DEFINE fits == swap # 0 /\ swap = entry[job[t].gen].reg /\ guest <= job[t].gen
<1>3. /\ IF fits THEN SetAvailable(TRUE) ELSE UNCHANGED sentinel
      /\ \/ /\ fits /\ (Active \/ sentinel.retired) /\ guest' = job[t].gen
            /\ Goto(t, "confirm")
         \/ /\ ~(fits /\ (Active \/ sentinel.retired)) /\ guest' = guest
            /\ Goto(t, "withdraw")
  BY DEF Tell
<1>4. fits /\ ~Active => sentinel' = sentinel
  BY <1>3 DEF SetAvailable
<1>5. /\ sentinel' \in SentinelStates
      /\ sentinel'.at = "timed" => sentinel'.probes < MaxProbes
      /\ sentinel'.run = sentinel.run /\ sentinel'.finished = sentinel.finished
      /\ sentinel'.retired = sentinel.retired
  BY <1>2, <1>3, SetAvailableSteps DEF EglType
<1>6. \/ Takes(t, "confirm", job[t].surf, job[t].gen) \/ ~Goto(t, "confirm")
  BY <1>2, Goes
<1>7. \/ Takes(t, "withdraw", job[t].surf, job[t].gen) \/ ~Goto(t, "withdraw")
  BY <1>2, Goes
<1> QED
  BY <1>1, <1>3, <1>4, <1>5, <1>6, <1>7

LEMMA ConfirmDoes ==
  ASSUME GuestInv, NEW t \in Threads, Confirm(t)
  PROVE  /\ job[t].at = "confirm"
         /\ \/ /\ window = entry[job[t].gen].reg /\ route[job[t].surf] = job[t].gen
               /\ Takes(t, "store", job[t].surf, job[t].gen)
            \/ /\ ~(window = entry[job[t].gen].reg /\ route[job[t].surf] = job[t].gen)
               /\ Takes(t, "rollback", job[t].surf, job[t].gen)
         /\ UNCHANGED <<router, egl, shim, live, crossed>>
<1>1. /\ job[t].at = "confirm" /\ UNCHANGED <<router, egl, shim, live, crossed>>
  BY DEF Confirm, At, GuestInv, Types, Calls, Called, Creating
<1>2. job \in [Threads -> Jobs] /\ "store" \in Steps /\ "rollback" \in Steps
  BY DEF GuestInv, Types, GuestTypeOK, Steps, Creating
<1> QED
  BY <1>1, <1>2, Goes DEF Confirm

LEMMA WithdrawDoes ==
  ASSUME GuestInv, NEW t \in Threads, Withdraw(t)
  PROVE  /\ job[t].at = "withdraw" /\ Takes(t, "idle", 0, 0)
         /\ route' \in [Surfaces -> 0 .. nextGeneration]
         /\ \A s \in Surfaces :
               route'[s] = IF s = job[t].surf /\ route[s] = job[t].gen THEN 0 ELSE route[s]
         /\ UNCHANGED <<nextGeneration, window, accepted, entry, egl, shim, live, crossed>>
<1>1. /\ job[t].at = "withdraw" /\ Takes(t, "idle", 0, 0)
      /\ UNCHANGED <<nextGeneration, window, accepted, entry, egl, shim, live, crossed>>
  BY Ends DEF Withdraw, At, GuestInv, Types, GuestTypeOK, Calls, Called, Creating
<1>2. job[t].surf \in Surfaces /\ route \in [Surfaces -> 0 .. nextGeneration]
  BY <1>1 DEF GuestInv, Types, GuestTypeOK, RouterType, Calls, Called
<1>3. /\ route' = [route EXCEPT ![job[t].surf] =
                      IF route[job[t].surf] = job[t].gen THEN 0 ELSE route[job[t].surf]]
      /\ nextGeneration \in Nat
  BY DEF Withdraw, GuestInv, Types, GuestTypeOK, RouterType
<1> QED
  BY <1>1, <1>2, <1>3

LEMMA StoreDoes ==
  ASSUME GuestInv, NEW t \in Threads, Store(t)
  PROVE  /\ job[t].at = "store" /\ Takes(t, "idle", 0, 0)
         /\ pendingHandoffs' = 1
         /\ \E q \in Records : records' = {q} /\ q.surf = job[t].surf /\ q.gen = job[t].gen
                               /\ q.state = "pending"
         /\ crossed' = crossed \cup {g \in Generations :
                                     g > job[t].gen /\ \E r \in records : r.gen = g}
         /\ UNCHANGED <<router, egl, live>>
<1>1. /\ job[t].at = "store" /\ Takes(t, "idle", 0, 0)
      /\ crossed' = crossed \cup {g \in Generations :
                                  g > job[t].gen /\ \E r \in records : r.gen = g}
      /\ UNCHANGED <<router, egl, live>>
  BY Ends DEF Store, At, GuestInv, Types, GuestTypeOK
<1>2. pendingHandoffs' = 1
  <2>1. Cardinality(Pending(records)) = IF Pending(records) = {} THEN 0 ELSE 1
    BY OneCounts DEF GuestInv, Recorded, OneRecord
  <2>2. pendingHandoffs = IF Pending(records) = {} THEN 0 ELSE 1
    BY DEF GuestInv, Recorded, OneRecord
  <2> QED
    BY <2>1, <2>2 DEF Store
<1>3. job[t].surf \in Surfaces /\ job[t].gen \in Generations
  BY <1>1, Known DEF GuestInv, Types, Calls, Called, Owning, Told
<1> DEFINE q == [surf |-> job[t].surf, gen |-> job[t].gen, state |-> "pending"]
<1>4. records' = {q}
  BY DEF Store
<1>5. q \in Records /\ q.surf = job[t].surf /\ q.gen = job[t].gen /\ q.state = "pending"
  BY <1>3 DEF Records
<1> HIDE DEF q
<1> QED
  BY <1>1, <1>2, <1>4, <1>5

(* The swap of a surface, by its steps.                                    *)
LEMMA SwapDoes ==
  ASSUME GuestInv, NEW t \in Threads, NEW s \in Surfaces, Swap(t, s)
  PROVE  /\ job[t].at = "idle" /\ s \in live
         /\ \E r \in Records, q \in Records :
               /\ records = {r} /\ r.surf = s /\ r.state = "pending"
               /\ records' = {q} /\ q.surf = s /\ q.state = "inflight" /\ q.gen = r.gen
               /\ Takes(t, "guestSwap", s, r.gen)
         /\ pendingHandoffs' = 0
         /\ UNCHANGED <<router, egl, live, crossed>>
<1>1. PICK r \in records :
         /\ r.surf = s /\ r.state = "pending"
         /\ records' = (records \ {r}) \cup {[r EXCEPT !.state = "inflight"]}
         /\ pendingHandoffs' = pendingHandoffs - 1
         /\ job' = [job EXCEPT ![t] = [at |-> "guestSwap", surf |-> s, gen |-> r.gen]]
  BY DEF Swap
<1>2. records = {r} /\ Pending(records) # {}
  BY <1>1 DEF GuestInv, Recorded, OneRecord, Pending
<1>3. pendingHandoffs = IF Pending(records) = {} THEN 0 ELSE 1
  BY DEF GuestInv, Recorded, OneRecord
<1>4. r \in Records
  BY DEF GuestInv, Types, GuestTypeOK, ShimType
<1> DEFINE q == [r EXCEPT !.state = "inflight"]
<1>5. q \in Records /\ q.surf = r.surf /\ q.gen = r.gen /\ q.state = "inflight"
  BY <1>4 DEF Records
<1>6. records' = {q}
  BY <1>1, <1>2
<1>7. r.gen \in 0 .. MaxGeneration
  BY <1>4 DEF Records, Generations
<1>8. Takes(t, "guestSwap", s, r.gen)
  BY <1>1, <1>7, Begins DEF GuestInv, Types, GuestTypeOK, Steps, Claiming
<1> HIDE DEF q
<1> QED
  BY <1>2, <1>3, <1>4, <1>5, <1>6, <1>8 DEF Swap, At

LEMMA GuestSwapDoes ==
  ASSUME GuestInv, NEW t \in Threads, GuestSwap(t)
  PROVE  LET g == job[t].gen
             current == route[job[t].surf] = g /\ window = entry[g].reg
             done == window \in accepted \/ ~entry[g].pending
         IN  /\ job[t].at = "guestSwap" /\ g \in Generations /\ g <= nextGeneration
             /\ \/ ~current /\ Takes(t, "rearm", job[t].surf, g)
                \/ current /\ done /\ Takes(t, "complete", job[t].surf, g)
                \/ current /\ ~done /\ entry[g].inFlight /\ Takes(t, "rearm", job[t].surf, g)
                \/ current /\ ~done /\ ~entry[g].inFlight /\ Takes(t, "signal", job[t].surf, g)
             /\ entry' \in [Generations -> Entries]
             /\ \A h \in Generations :
                   entry'[h].reg = entry[h].reg /\ entry'[h].pending = entry[h].pending
             /\ \A h \in Generations \ {g} : entry'[h] = entry[h]
             /\ UNCHANGED <<nextGeneration, window, accepted, route, egl, shim, live, crossed>>
<1> DEFINE g == job[t].gen
           current == route[job[t].surf] = g /\ window = entry[g].reg
           done == window \in accepted \/ ~entry[g].pending
<1>1. /\ job[t].at = "guestSwap" /\ g \in Generations /\ g <= nextGeneration
      /\ UNCHANGED <<nextGeneration, window, accepted, route, egl, shim, live, crossed>>
  BY GuestSwapAssumption DEF GuestSwap, At, GuestInv, Types, GuestTypeOK, RouterType, Calls,
     Called, Claiming, Generations, Owning, Told
<1>2. Goto(t, IF ~current THEN "rearm" ELSE IF done THEN "complete"
                  ELSE IF entry[g].inFlight THEN "rearm" ELSE "signal")
  BY DEF GuestSwap
<1>3. \/ ~current /\ Goto(t, "rearm")
      \/ current /\ done /\ Goto(t, "complete")
      \/ current /\ ~done /\ entry[g].inFlight /\ Goto(t, "rearm")
      \/ current /\ ~done /\ ~entry[g].inFlight /\ Goto(t, "signal")
  BY <1>2
<1>4. /\ job \in [Threads -> Jobs]
      /\ "rearm" \in Steps /\ "complete" \in Steps /\ "signal" \in Steps
  BY DEF GuestInv, Types, GuestTypeOK, Steps, Claiming
<1>5. entry \in [Generations -> Entries]
      /\ entry' = [entry EXCEPT ![g].inFlight = @ \/ (current /\ ~done)]
  BY DEF GuestSwap, GuestInv, Types, GuestTypeOK, RouterType
<1>6. ASSUME NEW b \in BOOLEAN, entry' = [entry EXCEPT ![g].inFlight = b]
      PROVE /\ entry' \in [Generations -> Entries]
            /\ \A h \in Generations :
                  entry'[h].reg = entry[h].reg /\ entry'[h].pending = entry[h].pending
            /\ \A h \in Generations \ {g} : entry'[h] = entry[h]
  BY <1>1, <1>5 DEF Entries
<1>7. entry' = [entry EXCEPT ![g].inFlight = (entry[g].inFlight \/ (current /\ ~done))]
  BY <1>5
<1>8. (entry[g].inFlight \/ (current /\ ~done)) \in BOOLEAN
  OBVIOUS
<1>9. Takes(t, "rearm", job[t].surf, g) \/ ~Goto(t, "rearm")
  BY <1>4, Goes
<1>10. Takes(t, "complete", job[t].surf, g) \/ ~Goto(t, "complete")
  BY <1>4, Goes
<1>11. Takes(t, "signal", job[t].surf, g) \/ ~Goto(t, "signal")
  BY <1>4, Goes
<1>12. /\ entry' \in [Generations -> Entries]
       /\ \A h \in Generations :
             entry'[h].reg = entry[h].reg /\ entry'[h].pending = entry[h].pending
       /\ \A h \in Generations \ {g} : entry'[h] = entry[h]
  BY <1>6, <1>7, <1>8
<1> QED
  BY <1>1, <1>3, <1>9, <1>10, <1>11, <1>12

LEMMA SignalDoes ==
  ASSUME GuestInv, NEW t \in Threads, Signal(t)
  PROVE  /\ job[t].at = "signal" /\ ~stopping
         /\ \/ Takes(t, "accept", job[t].surf, job[t].gen) /\ Ours(t) /\ sentinel'.retired
            \/ /\ Takes(t, "reject", job[t].surf, job[t].gen) /\ sentinel' = sentinel
               /\ ~(Ours(t) /\ Active /\ sentinel.avail /\ ~sentinel.retired)
         /\ sentinel' \in SentinelStates
         /\ sentinel'.at = "timed" => sentinel'.probes < MaxProbes
         /\ sentinel'.run = sentinel.run /\ sentinel'.finished = sentinel.finished
         /\ sentinel'.avail = sentinel.avail
         /\ sentinel.retired => sentinel'.retired
         /\ UNCHANGED <<router, swap, guest, stopping, starts, shim, live, crossed>>
<1>1. EglType /\ job \in [Threads -> Jobs] /\ "accept" \in Steps /\ "reject" \in Steps
  BY DEF GuestInv, Types, GuestTypeOK, Steps, Claiming
<1>2. /\ [sentinel EXCEPT !.retired = TRUE] \in SentinelStates
      /\ [sentinel EXCEPT !.retired = TRUE].run = sentinel.run
      /\ [sentinel EXCEPT !.retired = TRUE].finished = sentinel.finished
      /\ [sentinel EXCEPT !.retired = TRUE].avail = sentinel.avail
      /\ [sentinel EXCEPT !.retired = TRUE].retired
  BY <1>1 DEF EglType, SentinelStates
<1>3. /\ job[t].at = "signal" /\ ~stopping
      /\ UNCHANGED <<router, swap, guest, stopping, starts, shim, live, crossed>>
      /\ \/ /\ Goto(t, "accept") /\ Ours(t)
            /\ sentinel' = Woken([sentinel EXCEPT !.retired = TRUE])
         \/ /\ Goto(t, "reject") /\ sentinel' = sentinel
            /\ ~(Ours(t) /\ Active /\ sentinel.avail /\ ~sentinel.retired)
  BY DEF Signal, At
<1>4. Takes(t, "accept", job[t].surf, job[t].gen) \/ ~Goto(t, "accept")
  BY <1>1, Goes
<1>5. Takes(t, "reject", job[t].surf, job[t].gen) \/ ~Goto(t, "reject")
  BY <1>1, Goes
<1>6. CASE sentinel' = Woken([sentinel EXCEPT !.retired = TRUE])
  BY <1>2, <1>3, <1>4, <1>5, <1>6, SentinelTold
<1>7. CASE sentinel' = sentinel
  BY <1>1, <1>3, <1>5, <1>6 DEF EglType
<1> QED
  BY <1>3, <1>6, <1>7

LEMMA AcceptDoes ==
  ASSUME GuestInv, NEW t \in Threads, Accept(t)
  PROVE  LET g == job[t].gen
         IN  /\ job[t].at = "accept" /\ g \in Generations /\ g <= nextGeneration
             /\ Takes(t, "complete", job[t].surf, g)
             /\ accepted' = IF window = entry[g].reg THEN accepted \cup {window} ELSE accepted
             /\ entry' \in [Generations -> Entries]
             /\ entry'[g].reg = entry[g].reg /\ ~entry'[g].pending
             /\ \A h \in Generations \ {g} : entry'[h] = entry[h]
             /\ UNCHANGED <<nextGeneration, window, route, egl, shim, live, crossed>>
<1> DEFINE g == job[t].gen
<1>1. /\ job[t].at = "accept" /\ g \in Generations /\ g <= nextGeneration
      /\ UNCHANGED <<nextGeneration, window, route, egl, shim, live, crossed>>
      /\ accepted' = IF window = entry[g].reg THEN accepted \cup {window} ELSE accepted
  BY GuestSwapAssumption DEF Accept, At, GuestInv, Types, GuestTypeOK, RouterType, Calls, Called,
     Claiming, Generations, Owning, Told
<1>2. Takes(t, "complete", job[t].surf, g)
  BY Goes DEF Accept, GuestInv, Types, GuestTypeOK, Steps, Claiming
<1>3. entry \in [Generations -> Entries]
      /\ entry' = [entry EXCEPT ![g].inFlight = FALSE, ![g].pending = FALSE]
  BY DEF Accept, GuestInv, Types, GuestTypeOK, RouterType
<1>4. /\ entry' \in [Generations -> Entries]
      /\ entry'[g].reg = entry[g].reg /\ ~entry'[g].pending
      /\ \A h \in Generations \ {g} : entry'[h] = entry[h]
  BY <1>1, <1>3 DEF Entries
<1> QED
  BY <1>1, <1>2, <1>4

LEMMA RejectDoes ==
  ASSUME GuestInv, NEW t \in Threads, Reject(t)
  PROVE  LET g == job[t].gen
         IN  /\ job[t].at = "reject" /\ g \in Generations /\ g <= nextGeneration
             /\ Takes(t, "rearm", job[t].surf, g)
             /\ entry' \in [Generations -> Entries]
             /\ \A h \in Generations : entry'[h].reg = entry[h].reg
             /\ \A h \in Generations \ {g} : entry'[h] = entry[h]
             /\ entry[g].pending => entry'[g].pending
             /\ entry'[g].inFlight => entry[g].inFlight
             /\ \/ entry' = entry /\ ~(window = entry[g].reg /\ route[job[t].surf] = g
                                       /\ window \notin accepted)
                \/ /\ window = entry[g].reg /\ route[job[t].surf] = g
                   /\ entry'[g].pending /\ ~entry'[g].inFlight
             /\ UNCHANGED <<nextGeneration, window, accepted, route, egl, shim, live, crossed>>
<1> DEFINE g == job[t].gen
           c == window = entry[g].reg /\ route[job[t].surf] = g /\ window \notin accepted
<1>1. /\ job[t].at = "reject" /\ g \in Generations /\ g <= nextGeneration
      /\ UNCHANGED <<nextGeneration, window, accepted, route, egl, shim, live, crossed>>
  BY GuestSwapAssumption DEF Reject, At, GuestInv, Types, GuestTypeOK, RouterType, Calls, Called,
     Claiming, Generations, Owning, Told
<1>2. Takes(t, "rearm", job[t].surf, g)
  BY Goes DEF Reject, GuestInv, Types, GuestTypeOK, Steps, Claiming
<1>3. /\ entry \in [Generations -> Entries]
      /\ entry' = IF c THEN [entry EXCEPT ![g].inFlight = FALSE, ![g].pending = TRUE] ELSE entry
  BY DEF Reject, GuestInv, Types, GuestTypeOK, RouterType
<1>4. CASE c
  <2>1. entry' = [entry EXCEPT ![g] = [entry[g] EXCEPT !.inFlight = FALSE, !.pending = TRUE]]
    BY <1>1, <1>3, <1>4
  <2> DEFINE e == [entry[g] EXCEPT !.inFlight = FALSE, !.pending = TRUE]
  <2>3. e \in Entries /\ e.reg = entry[g].reg /\ e.pending /\ ~e.inFlight
    BY <1>1, <1>3 DEF Entries
  <2> HIDE DEF c, e
  <2>4. g \in Generations /\ entry \in [Generations -> Entries] /\ entry' = [entry EXCEPT ![g] = e]
    BY <1>1, <1>3, <2>1 DEF e
  <2> HIDE DEF g
  <2>2. /\ entry' \in [Generations -> Entries]
        /\ \A h \in Generations : entry'[h].reg = entry[h].reg
        /\ \A h \in Generations \ {g} : entry'[h] = entry[h]
        /\ entry'[g].pending /\ ~entry'[g].inFlight
    BY <2>3, <2>4
  <2> USE DEF g
  <2> QED
    BY <1>1, <1>2, <1>4, <2>2 DEF c
<1>5. CASE ~c
  BY <1>1, <1>2, <1>3, <1>5
<1> QED
  BY <1>4, <1>5

LEMMA FinishClaimDoes ==
  ASSUME GuestInv, NEW t \in Threads, FinishClaim(t)
  PROVE  /\ job[t].at \in {"complete", "rearm"} /\ Takes(t, "idle", 0, 0)
         /\ \/ /\ UNCHANGED shim
               /\ ~\E r \in records : /\ r.surf = job[t].surf /\ r.gen = job[t].gen
                                      /\ r.state = "inflight"
            \/ \E r \in Records, q \in Records :
                  /\ records = {r} /\ r.surf = job[t].surf /\ r.gen = job[t].gen
                  /\ r.state = "inflight"
                  /\ records' = {q} /\ q.surf = r.surf /\ q.gen = r.gen
                  /\ \/ job[t].at = "complete" /\ q.state = "complete" /\ pendingHandoffs' = 0
                     \/ job[t].at = "rearm" /\ q.state = "pending" /\ pendingHandoffs' = 1
         /\ UNCHANGED <<router, egl, live, crossed>>
<1> DEFINE claimed == [surf |-> job[t].surf, gen |-> job[t].gen, state |-> "inflight"]
           state == IF At(t, "complete") THEN "complete" ELSE "pending"
           q == [claimed EXCEPT !.state = state]
<1>1. /\ job[t].at \in {"complete", "rearm"} /\ Takes(t, "idle", 0, 0)
      /\ UNCHANGED <<router, egl, live, crossed>>
  BY Ends DEF FinishClaim, GuestInv, Types, GuestTypeOK
<1>2. CASE claimed \in records
  <2>1. claimed \in Records /\ records = {claimed}
    BY <1>2 DEF GuestInv, Types, GuestTypeOK, ShimType, Recorded, OneRecord
  <2>2. /\ claimed.surf = job[t].surf /\ claimed.gen = job[t].gen /\ claimed.state = "inflight"
    OBVIOUS
  <2>3. pendingHandoffs = 0
    BY <2>1 DEF Pending, GuestInv, Recorded, OneRecord
  <2>4. /\ records' = (records \ {claimed}) \cup {q}
        /\ pendingHandoffs' = pendingHandoffs + (IF state = "pending" THEN 1 ELSE 0)
    BY <1>2 DEF FinishClaim
  <2>5. q \in Records /\ q.surf = claimed.surf /\ q.gen = claimed.gen /\ q.state = state
    BY <2>1 DEF Records
  <2>6. \/ job[t].at = "complete" /\ state = "complete"
        \/ job[t].at = "rearm" /\ state = "pending"
    BY <1>1 DEF At
  <2> HIDE DEF claimed, q, state
  <2>7. records' = {q}
    BY <2>1, <2>4
  <2> QED
    BY <1>1, <2>1, <2>2, <2>3, <2>4, <2>5, <2>6
<1>3. CASE claimed \notin records
  <2>1. UNCHANGED shim
    BY <1>3 DEF FinishClaim
  <2>2. ASSUME NEW r \in records, r.surf = job[t].surf, r.gen = job[t].gen, r.state = "inflight"
        PROVE  FALSE
    <3>1. r \in Records
      BY DEF GuestInv, Types, GuestTypeOK, ShimType
    <3>2. r = claimed
      BY <2>2, <3>1 DEF Records
    <3> QED
      BY <1>3, <3>2
  <2> QED
    BY <1>1, <2>1, <2>2
<1> QED
  BY <1>2, <1>3

(* The destruction of a surface, by its steps.                             *)
LEMMA DestroyDoes ==
  ASSUME GuestInv, NEW t \in Threads, NEW s \in Surfaces, Destroy(t, s)
  PROVE  /\ job[t].at = "idle" /\ s \in live
         /\ \A u \in Threads : job[u].surf = s => job[u].at \in Claiming
         /\ \/ /\ UNCHANGED shim /\ Takes(t, "hostDestroy", s, 0)
               /\ \A r \in records : r.surf # s
            \/ \E r \in Records :
                  /\ records = {r} /\ r.surf = s /\ records' = {} /\ pendingHandoffs' = 0
                  /\ Takes(t, "destroyed", s, r.gen)
         /\ UNCHANGED <<router, egl, live, crossed>>
<1> DEFINE taken == {r \in records : r.surf = s}
<1>1. /\ job[t].at = "idle" /\ s \in live /\ UNCHANGED <<router, egl, live, crossed>>
      /\ \A u \in Threads : job[u].surf = s => job[u].at \in Claiming
      /\ records' = records \ taken
      /\ pendingHandoffs' = pendingHandoffs - Cardinality(Pending(taken))
      /\ job' = [job EXCEPT ![t] =
                 [at |-> IF taken = {} THEN "hostDestroy" ELSE "destroyed", surf |-> s,
                  gen |-> IF taken = {} THEN 0 ELSE (CHOOSE r \in taken : TRUE).gen]]
  BY DEF Destroy, At
<1>2. job \in [Threads -> Jobs] /\ "hostDestroy" \in Steps /\ "destroyed" \in Steps
  BY DEF GuestInv, Types, GuestTypeOK, Steps, Destroying
<1>3. Cardinality(Pending(taken)) = IF Pending(taken) = {} THEN 0 ELSE 1
  BY OneCounts DEF GuestInv, Recorded, OneRecord
<1>4. pendingHandoffs \in Nat /\ pendingHandoffs = IF Pending(records) = {} THEN 0 ELSE 1
  BY DEF GuestInv, Recorded, OneRecord
<1>5. CASE taken = {}
  <2>1. pendingHandoffs' = pendingHandoffs /\ records' = records
    BY <1>1, <1>3, <1>4, <1>5 DEF Pending
  <2>2. job' = [job EXCEPT ![t] = [at |-> "hostDestroy", surf |-> s, gen |-> 0]]
    BY <1>1, <1>5
  <2>3. Takes(t, "hostDestroy", s, 0)
    <3>1. 0 \in 0 .. MaxGeneration
      BY GuestSwapAssumption
    <3> QED
      BY <1>2, <2>2, <3>1, Begins
  <2> QED
    BY <1>1, <2>1, <2>3 DEF shim
<1>6. CASE taken # {}
  <2>1. PICK r \in records : r.surf = s
    BY <1>6
  <2>2. records = {r} /\ taken = {r}
    BY <2>1 DEF GuestInv, Recorded, OneRecord
  <2>3. r \in Records /\ r.gen \in 0 .. MaxGeneration
    BY DEF GuestInv, Types, GuestTypeOK, ShimType, Records, Generations
  <2>4. records' = {} /\ pendingHandoffs' = 0
    <3>1. records' = {} /\ taken = records
      BY <1>1, <2>2
    <3> HIDE DEF taken
    <3> QED
      BY <1>1, <1>3, <1>4, <3>1
  <2>5. (CHOOSE x \in taken : TRUE) = r
    BY <2>2
  <2>6. job' = [job EXCEPT ![t] = [at |-> "destroyed", surf |-> s, gen |-> r.gen]]
    BY <1>1, <1>6, <2>5
  <2>7. Takes(t, "destroyed", s, r.gen)
    BY <1>2, <2>3, <2>6, Begins
  <2> QED
    BY <1>1, <2>1, <2>2, <2>3, <2>4, <2>7
<1> QED
  BY <1>5, <1>6

LEMMA SurfaceDestroyedDoes ==
  ASSUME GuestInv, NEW t \in Threads, SurfaceDestroyed(t)
  PROVE  /\ job[t].at = "destroyed"
         /\ \/ /\ route[job[t].surf] = job[t].gen
               /\ Takes(t, "untell", job[t].surf, job[t].gen)
            \/ /\ route[job[t].surf] # job[t].gen
               /\ Takes(t, "hostDestroy", job[t].surf, job[t].gen)
         /\ route' \in [Surfaces -> 0 .. nextGeneration]
         /\ \A s \in Surfaces :
               route'[s] = IF s = job[t].surf /\ route[s] = job[t].gen THEN 0 ELSE route[s]
         /\ UNCHANGED <<nextGeneration, window, accepted, entry, egl, shim, live, crossed>>
<1>1. /\ job[t].at = "destroyed"
      /\ UNCHANGED <<nextGeneration, window, accepted, entry, egl, shim, live, crossed>>
  BY DEF SurfaceDestroyed, At
<1>2. job \in [Threads -> Jobs] /\ "untell" \in Steps /\ "hostDestroy" \in Steps
  BY DEF GuestInv, Types, GuestTypeOK, Steps, Destroying
<1>3. /\ route' \in [Surfaces -> 0 .. nextGeneration]
      /\ \A s \in Surfaces :
            route'[s] = IF s = job[t].surf /\ route[s] = job[t].gen THEN 0 ELSE route[s]
  BY DEF SurfaceDestroyed, GuestInv, Types, GuestTypeOK, RouterType
<1> QED
  BY <1>1, <1>2, <1>3, Goes DEF SurfaceDestroyed

LEMMA UntellDoes ==
  ASSUME GuestInv, NEW t \in Threads, Untell(t)
  PROVE  /\ ~stopping
         /\ \/ job[t].at = "rollback" /\ Takes(t, "idle", 0, 0)
            \/ job[t].at = "untell" /\ Takes(t, "hostDestroy", job[t].surf, job[t].gen)
         /\ \/ Ours(t) /\ guest' = 0 /\ (Active => ~sentinel'.avail)
            \/ ~Ours(t) /\ guest' = guest /\ sentinel' = sentinel
         /\ sentinel' \in SentinelStates
         /\ sentinel'.at = "timed" => sentinel'.probes < MaxProbes
         /\ sentinel'.run = sentinel.run /\ sentinel'.finished = sentinel.finished
         /\ sentinel'.retired = sentinel.retired
         /\ UNCHANGED <<router, swap, stopping, starts, shim, live, crossed>>
<1>1. EglType /\ job \in [Threads -> Jobs] /\ "hostDestroy" \in Steps
  BY DEF GuestInv, Types, GuestTypeOK, Steps, Destroying
<1>2. /\ ~stopping /\ UNCHANGED <<router, swap, stopping, starts, shim, live, crossed>>
      /\ \/ job[t].at = "rollback" /\ Takes(t, "idle", 0, 0)
         \/ job[t].at = "untell" /\ Takes(t, "hostDestroy", job[t].surf, job[t].gen)
  BY <1>1, Goes, Ends DEF Untell, At
<1> QED
  BY <1>1, <1>2, SetAvailableSteps DEF Untell, EglType

LEMMA HostDestroyDoes ==
  ASSUME GuestInv, NEW t \in Threads, HostDestroy(t)
  PROVE  /\ job[t].at = "hostDestroy" /\ Takes(t, "idle", 0, 0)
         /\ live' = live \ {job[t].surf}
         /\ UNCHANGED <<router, egl, shim, crossed>>
BY Ends DEF HostDestroy, At, GuestInv, Types, GuestTypeOK

(* Each layer keeps its type.                                              *)
LEMMA RouterTyped ==
  ASSUME GuestInv, [Next]_vars
  PROVE  RouterType'
<1>0. /\ RouterType /\ EglType /\ ShimType /\ job \in [Threads -> Jobs] /\ Reserved /\ Calls
      /\ Windows /\ Routes /\ Newest /\ Recorded /\ Claims /\ Answered /\ Created /\ Backed
  BY DEF GuestInv, Types, GuestTypeOK
<1>1. ASSUME Start PROVE RouterType'
  <2>1. /\ nextGeneration' \in 0 .. MaxGeneration /\ nextGeneration <= nextGeneration'
        /\ 1 .. nextGeneration \subseteq 1 .. nextGeneration'
    BY <1>0, <1>1, StartDoes DEF RouterType, Generations
  <2>2. window' \in 0 .. nextGeneration'
    BY <1>1, StartDoes, <2>1
  <2>3. accepted' \subseteq 1 .. nextGeneration'
    BY <1>0, <1>1, StartDoes, <2>1 DEF RouterType, router, egl, shim
  <2>4. route' \in [Surfaces -> 0 .. nextGeneration']
    BY <1>1, StartDoes, <2>1
  <2>5. entry' \in [Generations -> Entries]
    BY <1>0, <1>1, StartDoes DEF RouterType
  <2>6. \A g \in Generations : entry'[g].reg <= nextGeneration'
    BY <1>0, <1>1, StartDoes DEF RouterType, Entries
  <2> QED
    BY <2>1, <2>2, <2>3, <2>4, <2>5, <2>6 DEF RouterType
<1>2. ASSUME Stop PROVE RouterType'
  <2>1. /\ nextGeneration' \in 0 .. MaxGeneration /\ nextGeneration <= nextGeneration'
        /\ 1 .. nextGeneration \subseteq 1 .. nextGeneration'
    BY <1>0, <1>2, StopDoes DEF RouterType
  <2>2. window' \in 0 .. nextGeneration'
    BY <1>2, StopDoes, <2>1
  <2>3. accepted' \subseteq 1 .. nextGeneration'
    BY <1>0, <1>2, StopDoes, <2>1 DEF RouterType, router, egl, shim
  <2>4. route' \in [Surfaces -> 0 .. nextGeneration']
    BY <1>2, StopDoes
  <2>5. entry' \in [Generations -> Entries]
    BY <1>0, <1>2, StopDoes DEF RouterType
  <2>6. \A g \in Generations : entry'[g].reg <= nextGeneration'
    BY <1>0, <1>2, StopDoes DEF RouterType
  <2> QED
    BY <2>1, <2>2, <2>3, <2>4, <2>5, <2>6 DEF RouterType
<1>3. ASSUME Joined PROVE RouterType'
  BY <1>0, <1>3, JoinedDoes DEF RouterType, router, egl, shim
<1>4. ASSUME Sentinel PROVE RouterType'
  BY <1>0, <1>4, SentinelDoes DEF RouterType, router, egl, shim
<1>5. ASSUME NEW t \in Threads, Create(t) PROVE RouterType'
  BY <1>0, <1>5, CreateDoes DEF RouterType, router, egl, shim
<1>6. ASSUME NEW t \in Threads, Discard(t) PROVE RouterType'
  BY <1>0, <1>6, DiscardDoes DEF RouterType, router, egl, shim
<1>7. ASSUME NEW t \in Threads, SurfaceCreated(t) PROVE RouterType'
  <2>1. /\ nextGeneration' \in 0 .. MaxGeneration /\ nextGeneration <= nextGeneration'
        /\ 1 .. nextGeneration \subseteq 1 .. nextGeneration'
    BY <1>0, <1>7, SurfaceCreatedDoes DEF RouterType, Generations, router
  <2>2. window' \in 0 .. nextGeneration'
    BY <1>0, <1>7, SurfaceCreatedDoes DEF RouterType, router
  <2>3. accepted' \subseteq 1 .. nextGeneration'
    BY <1>0, <1>7, SurfaceCreatedDoes, <2>1 DEF RouterType, router, egl, shim
  <2>4. route' \in [Surfaces -> 0 .. nextGeneration']
    BY <1>0, <1>7, SurfaceCreatedDoes DEF RouterType, router
  <2>5. entry' \in [Generations -> Entries]
    BY <1>0, <1>7, SurfaceCreatedDoes DEF RouterType, router
  <2>6. \A g \in Generations : entry'[g].reg <= nextGeneration'
    BY <1>0, <1>7, SurfaceCreatedDoes DEF RouterType, Entries, router
  <2> QED
    BY <2>1, <2>2, <2>3, <2>4, <2>5, <2>6 DEF RouterType
<1>8. ASSUME NEW t \in Threads, Tell(t) PROVE RouterType'
  BY <1>0, <1>8, TellDoes DEF RouterType, router, egl, shim
<1>9. ASSUME NEW t \in Threads, Confirm(t) PROVE RouterType'
  BY <1>0, <1>9, ConfirmDoes DEF RouterType, router, egl, shim
<1>10. ASSUME NEW t \in Threads, Withdraw(t) PROVE RouterType'
  BY <1>0, <1>10, WithdrawDoes DEF RouterType, router, egl, shim
<1>11. ASSUME NEW t \in Threads, Store(t) PROVE RouterType'
  BY <1>0, <1>11, StoreDoes DEF RouterType, router, egl, shim
<1>12. ASSUME NEW t \in Threads, GuestSwap(t) PROVE RouterType'
  BY <1>0, <1>12, GuestSwapDoes DEF RouterType, router, egl, shim
<1>13. ASSUME NEW t \in Threads, Signal(t) PROVE RouterType'
  BY <1>0, <1>13, SignalDoes DEF RouterType, router, egl, shim
<1>14. ASSUME NEW t \in Threads, Accept(t) PROVE RouterType'
  <2>1. /\ nextGeneration' \in 0 .. MaxGeneration /\ nextGeneration <= nextGeneration'
        /\ 1 .. nextGeneration \subseteq 1 .. nextGeneration'
    BY <1>0, <1>14, AcceptDoes DEF RouterType
  <2>2. window' \in 0 .. nextGeneration'
    BY <1>0, <1>14, AcceptDoes DEF RouterType
  <2>3. entry[job[t].gen].reg # 0 /\ window \in 0 .. nextGeneration
    BY <1>0, <1>14, AcceptDoes, Known DEF RouterType, Claiming, Owning, Told
  <2>4. /\ accepted' \subseteq accepted \cup {window}
        /\ window \in accepted' => window \in accepted \/ window # 0
    BY <1>14, AcceptDoes, <2>3
  <2>5. accepted' \subseteq 1 .. nextGeneration'
    BY <1>0, <1>14, AcceptDoes, <2>4 DEF RouterType
  <2>6. route' \in [Surfaces -> 0 .. nextGeneration']
    BY <1>0, <1>14, AcceptDoes DEF RouterType
  <2>7. entry' \in [Generations -> Entries]
    BY <1>14, AcceptDoes
  <2>8. \A g \in Generations : entry'[g].reg <= nextGeneration'
    BY <1>0, <1>14, AcceptDoes DEF RouterType
  <2> QED
    BY <2>1, <2>2, <2>4, <2>5, <2>6, <2>7, <2>8 DEF RouterType
<1>15. ASSUME NEW t \in Threads, Reject(t) PROVE RouterType'
  BY <1>0, <1>15, RejectDoes DEF RouterType, router, egl, shim
<1>16. ASSUME NEW t \in Threads, FinishClaim(t) PROVE RouterType'
  BY <1>0, <1>16, FinishClaimDoes DEF RouterType, router, egl, shim
<1>17. ASSUME NEW t \in Threads, SurfaceDestroyed(t) PROVE RouterType'
  BY <1>0, <1>17, SurfaceDestroyedDoes DEF RouterType, router, egl, shim
<1>18. ASSUME NEW t \in Threads, Untell(t) PROVE RouterType'
  BY <1>0, <1>18, UntellDoes DEF RouterType, router, egl, shim
<1>19. ASSUME NEW t \in Threads, HostDestroy(t) PROVE RouterType'
  BY <1>0, <1>19, HostDestroyDoes DEF RouterType, router, egl, shim
<1>20. ASSUME NEW t \in Threads, NEW s \in Surfaces, Swap(t, s) PROVE RouterType'
  <2>1. UNCHANGED <<router>>
    BY <1>20, SwapDoes DEF shim
  <2> QED
    BY <1>0, <2>1 DEF RouterType, router, egl, shim
<1>21. ASSUME NEW t \in Threads, NEW s \in Surfaces, Destroy(t, s) PROVE RouterType'
  BY <1>0, <1>21, DestroyDoes DEF RouterType, router, egl, shim
<1>22. ASSUME UNCHANGED vars PROVE RouterType'
  BY <1>0, <1>22 DEF RouterType, router, vars
<1> QED
  BY <1>1, <1>2, <1>3, <1>4, <1>5, <1>6, <1>7, <1>8, <1>9, <1>10, <1>11, <1>12, <1>13, <1>14,
     <1>15, <1>16, <1>17, <1>18, <1>19, <1>20, <1>21, <1>22 DEF Next, Step


LEMMA EglTyped ==
  ASSUME GuestInv, [Next]_vars
  PROVE  EglType'
<1>0. /\ RouterType /\ EglType /\ ShimType /\ job \in [Threads -> Jobs] /\ Reserved /\ Calls
      /\ Windows /\ Routes /\ Newest /\ Recorded /\ Claims /\ Answered /\ Created /\ Backed
  BY DEF GuestInv, Types, GuestTypeOK
<1>1. ASSUME Start PROVE EglType'
  <2>1. nextGeneration' \in Nat /\ nextGeneration \in 0 .. nextGeneration'
    BY <1>0, <1>1, StartDoes DEF RouterType
  <2>2. swap' \in 0 .. nextGeneration' /\ guest' \in 0 .. nextGeneration'
    BY <1>0, <1>1, StartDoes, <2>1 DEF EglType
  <2>3. stopping' \in BOOLEAN /\ starts' \in 0 .. MaxStarts
    BY <1>0, <1>1, StartDoes, GuestSwapAssumption DEF EglType
  <2>4. sentinel' \in SentinelStates /\ (sentinel'.at = "timed" => sentinel'.probes < MaxProbes)
    BY <1>1, StartDoes
  <2> QED
    BY <2>2, <2>3, <2>4 DEF EglType
<1>2. ASSUME Stop PROVE EglType'
  <2>1. nextGeneration' \in Nat /\ nextGeneration \in 0 .. nextGeneration'
    BY <1>0, <1>2, StopDoes DEF RouterType
  <2>2. swap' \in 0 .. nextGeneration' /\ guest' \in 0 .. nextGeneration'
    BY <1>0, <1>2, StopDoes, <2>1 DEF EglType
  <2>3. stopping' \in BOOLEAN /\ starts' \in 0 .. MaxStarts
    BY <1>0, <1>2, StopDoes DEF EglType
  <2>4. sentinel' \in SentinelStates /\ (sentinel'.at = "timed" => sentinel'.probes < MaxProbes)
    BY <1>2, StopDoes
  <2> QED
    BY <2>2, <2>3, <2>4 DEF EglType
<1>3. ASSUME Joined PROVE EglType'
  BY <1>0, <1>3, JoinedDoes DEF RouterType, EglType, router
<1>4. ASSUME Sentinel PROVE EglType'
  <2>1. nextGeneration' \in Nat /\ nextGeneration \in 0 .. nextGeneration'
    BY <1>0, <1>4, SentinelDoes DEF RouterType, router
  <2>2. swap' \in 0 .. nextGeneration' /\ guest' \in 0 .. nextGeneration'
    BY <1>0, <1>4, SentinelDoes, <2>1 DEF EglType
  <2>3. stopping' \in BOOLEAN /\ starts' \in 0 .. MaxStarts
    BY <1>0, <1>4, SentinelDoes DEF EglType
  <2>4. sentinel' \in SentinelStates /\ (sentinel'.at = "timed" => sentinel'.probes < MaxProbes)
    BY <1>4, SentinelDoes
  <2> QED
    BY <2>2, <2>3, <2>4 DEF EglType
<1>5. ASSUME NEW t \in Threads, Create(t) PROVE EglType'
  BY <1>0, <1>5, CreateDoes DEF EglType, router, egl
<1>6. ASSUME NEW t \in Threads, Discard(t) PROVE EglType'
  BY <1>0, <1>6, DiscardDoes DEF EglType, router, egl, shim
<1>7. ASSUME NEW t \in Threads, SurfaceCreated(t) PROVE EglType'
  BY <1>0, <1>7, SurfaceCreatedDoes DEF RouterType, EglType, router, egl
<1>8. ASSUME NEW t \in Threads, Tell(t) PROVE EglType'
  BY <1>0, <1>8, TellDoes DEF EglType, Calls, Called, Told, router, Owning, Claiming
<1>9. ASSUME NEW t \in Threads, Confirm(t) PROVE EglType'
  BY <1>0, <1>9, ConfirmDoes DEF EglType, router, egl
<1>10. ASSUME NEW t \in Threads, Withdraw(t) PROVE EglType'
  BY <1>0, <1>10, WithdrawDoes DEF EglType, egl
<1>11. ASSUME NEW t \in Threads, Store(t) PROVE EglType'
  BY <1>0, <1>11, StoreDoes DEF EglType, router, egl, shim
<1>12. ASSUME NEW t \in Threads, GuestSwap(t) PROVE EglType'
  BY <1>0, <1>12, GuestSwapDoes DEF EglType, egl
<1>13. ASSUME NEW t \in Threads, Signal(t) PROVE EglType'
  BY <1>0, <1>13, SignalDoes DEF EglType, router
<1>14. ASSUME NEW t \in Threads, Accept(t) PROVE EglType'
  BY <1>0, <1>14, AcceptDoes DEF EglType, egl
<1>15. ASSUME NEW t \in Threads, Reject(t) PROVE EglType'
  BY <1>0, <1>15, RejectDoes DEF EglType, egl
<1>16. ASSUME NEW t \in Threads, FinishClaim(t) PROVE EglType'
  BY <1>0, <1>16, FinishClaimDoes DEF EglType, router, egl
<1>17. ASSUME NEW t \in Threads, SurfaceDestroyed(t) PROVE EglType'
  BY <1>0, <1>17, SurfaceDestroyedDoes DEF EglType, egl
<1>18. ASSUME NEW t \in Threads, Untell(t) PROVE EglType'
  BY <1>0, <1>18, UntellDoes DEF RouterType, EglType, router
<1>19. ASSUME NEW t \in Threads, HostDestroy(t) PROVE EglType'
  BY <1>0, <1>19, HostDestroyDoes DEF EglType, router, egl
<1>20. ASSUME NEW t \in Threads, NEW s \in Surfaces, Swap(t, s) PROVE EglType'
  BY <1>0, <1>20, SwapDoes DEF EglType, router, egl, shim
<1>21. ASSUME NEW t \in Threads, NEW s \in Surfaces, Destroy(t, s) PROVE EglType'
  BY <1>0, <1>21, DestroyDoes DEF EglType, router, egl
<1>22. ASSUME UNCHANGED vars PROVE EglType'
  BY <1>0, <1>22 DEF EglType, router, egl, vars
<1> QED
  BY <1>1, <1>2, <1>3, <1>4, <1>5, <1>6, <1>7, <1>8, <1>9, <1>10, <1>11, <1>12, <1>13, <1>14,
     <1>15, <1>16, <1>17, <1>18, <1>19, <1>20, <1>21, <1>22 DEF Next, Step


LEMMA ShimTyped ==
  ASSUME GuestInv, [Next]_vars
  PROVE  ShimType'
<1>0. /\ RouterType /\ EglType /\ ShimType /\ job \in [Threads -> Jobs] /\ Reserved /\ Calls
      /\ Windows /\ Routes /\ Newest /\ Recorded /\ Claims /\ Answered /\ Created /\ Backed
  BY DEF GuestInv, Types, GuestTypeOK
<1>1. ASSUME Start PROVE ShimType'
  BY <1>0, <1>1, StartDoes DEF ShimType, router, egl, shim
<1>2. ASSUME Stop PROVE ShimType'
  BY <1>0, <1>2, StopDoes DEF ShimType, router, egl, shim
<1>3. ASSUME Joined PROVE ShimType'
  BY <1>0, <1>3, JoinedDoes DEF ShimType, egl, shim
<1>4. ASSUME Sentinel PROVE ShimType'
  BY <1>0, <1>4, SentinelDoes DEF ShimType, egl, shim
<1>5. ASSUME NEW t \in Threads, Create(t) PROVE ShimType'
  BY <1>0, <1>5, CreateDoes DEF ShimType, shim
<1>6. ASSUME NEW t \in Threads, Discard(t) PROVE ShimType'
  BY <1>0, <1>6, DiscardDoes DEF ShimType, shim
<1>7. ASSUME NEW t \in Threads, SurfaceCreated(t) PROVE ShimType'
  BY <1>0, <1>7, SurfaceCreatedDoes DEF ShimType, shim
<1>8. ASSUME NEW t \in Threads, Tell(t) PROVE ShimType'
  BY <1>0, <1>8, TellDoes DEF ShimType, egl, shim
<1>9. ASSUME NEW t \in Threads, Confirm(t) PROVE ShimType'
  BY <1>0, <1>9, ConfirmDoes DEF ShimType, shim
<1>10. ASSUME NEW t \in Threads, Withdraw(t) PROVE ShimType'
  BY <1>0, <1>10, WithdrawDoes DEF ShimType, shim
<1>11. ASSUME NEW t \in Threads, Store(t) PROVE ShimType'
  BY <1>0, <1>11, StoreDoes DEF ShimType, shim
<1>12. ASSUME NEW t \in Threads, GuestSwap(t) PROVE ShimType'
  BY <1>0, <1>12, GuestSwapDoes DEF ShimType, shim
<1>13. ASSUME NEW t \in Threads, Signal(t) PROVE ShimType'
  BY <1>0, <1>13, SignalDoes DEF ShimType, egl, shim
<1>14. ASSUME NEW t \in Threads, Accept(t) PROVE ShimType'
  BY <1>0, <1>14, AcceptDoes DEF ShimType, shim
<1>15. ASSUME NEW t \in Threads, Reject(t) PROVE ShimType'
  BY <1>0, <1>15, RejectDoes DEF ShimType, shim
<1>16. ASSUME NEW t \in Threads, FinishClaim(t) PROVE ShimType'
  BY <1>0, <1>16, FinishClaimDoes DEF ShimType, shim
<1>17. ASSUME NEW t \in Threads, SurfaceDestroyed(t) PROVE ShimType'
  BY <1>0, <1>17, SurfaceDestroyedDoes DEF ShimType, shim
<1>18. ASSUME NEW t \in Threads, Untell(t) PROVE ShimType'
  BY <1>0, <1>18, UntellDoes DEF ShimType, egl, shim
<1>19. ASSUME NEW t \in Threads, HostDestroy(t) PROVE ShimType'
  BY <1>0, <1>19, HostDestroyDoes DEF ShimType, shim
<1>20. ASSUME NEW t \in Threads, NEW s \in Surfaces, Swap(t, s) PROVE ShimType'
  BY <1>0, <1>20, SwapDoes DEF ShimType, shim
<1>21. ASSUME NEW t \in Threads, NEW s \in Surfaces, Destroy(t, s) PROVE ShimType'
  BY <1>0, <1>21, DestroyDoes DEF ShimType, shim
<1>22. ASSUME UNCHANGED vars PROVE ShimType'
  BY <1>0, <1>22 DEF ShimType, shim, vars
<1> QED
  BY <1>1, <1>2, <1>3, <1>4, <1>5, <1>6, <1>7, <1>8, <1>9, <1>10, <1>11, <1>12, <1>13, <1>14,
     <1>15, <1>16, <1>17, <1>18, <1>19, <1>20, <1>21, <1>22 DEF Next, Step


LEMMA JobsTyped ==
  ASSUME GuestInv, [Next]_vars
  PROVE  (job \in [Threads -> Jobs])'
<1>0. /\ RouterType /\ EglType /\ ShimType /\ job \in [Threads -> Jobs] /\ Reserved /\ Calls
      /\ Windows /\ Routes /\ Newest /\ Recorded /\ Claims /\ Answered /\ Created /\ Backed
  BY DEF GuestInv, Types, GuestTypeOK
<1>1. ASSUME Start PROVE (job \in [Threads -> Jobs])'
  BY <1>0, <1>1, StartDoes
<1>2. ASSUME Stop PROVE (job \in [Threads -> Jobs])'
  BY <1>0, <1>2, StopDoes
<1>3. ASSUME Joined PROVE (job \in [Threads -> Jobs])'
  BY <1>0, <1>3, JoinedDoes
<1>4. ASSUME Sentinel PROVE (job \in [Threads -> Jobs])'
  BY <1>0, <1>4, SentinelDoes
<1>5. ASSUME NEW t \in Threads, Create(t) PROVE (job \in [Threads -> Jobs])'
  BY <1>0, <1>5, CreateDoes DEF Takes
<1>6. ASSUME NEW t \in Threads, Discard(t) PROVE (job \in [Threads -> Jobs])'
  BY <1>6, DiscardDoes DEF Takes, shim
<1>7. ASSUME NEW t \in Threads, SurfaceCreated(t) PROVE (job \in [Threads -> Jobs])'
  BY <1>7, SurfaceCreatedDoes DEF Takes
<1>8. ASSUME NEW t \in Threads, Tell(t) PROVE (job \in [Threads -> Jobs])'
  BY <1>8, TellDoes DEF Takes
<1>9. ASSUME NEW t \in Threads, Confirm(t) PROVE (job \in [Threads -> Jobs])'
  BY <1>9, ConfirmDoes DEF Takes
<1>10. ASSUME NEW t \in Threads, Withdraw(t) PROVE (job \in [Threads -> Jobs])'
  BY <1>10, WithdrawDoes DEF Takes
<1>11. ASSUME NEW t \in Threads, Store(t) PROVE (job \in [Threads -> Jobs])'
  BY <1>11, StoreDoes DEF Takes, shim
<1>12. ASSUME NEW t \in Threads, GuestSwap(t) PROVE (job \in [Threads -> Jobs])'
  BY <1>12, GuestSwapDoes DEF Takes
<1>13. ASSUME NEW t \in Threads, Signal(t) PROVE (job \in [Threads -> Jobs])'
  BY <1>13, SignalDoes DEF Takes
<1>14. ASSUME NEW t \in Threads, Accept(t) PROVE (job \in [Threads -> Jobs])'
  BY <1>14, AcceptDoes DEF Takes
<1>15. ASSUME NEW t \in Threads, Reject(t) PROVE (job \in [Threads -> Jobs])'
  BY <1>15, RejectDoes DEF Takes
<1>16. ASSUME NEW t \in Threads, FinishClaim(t) PROVE (job \in [Threads -> Jobs])'
  BY <1>16, FinishClaimDoes DEF Takes
<1>17. ASSUME NEW t \in Threads, SurfaceDestroyed(t) PROVE (job \in [Threads -> Jobs])'
  BY <1>17, SurfaceDestroyedDoes DEF Takes
<1>18. ASSUME NEW t \in Threads, Untell(t) PROVE (job \in [Threads -> Jobs])'
  BY <1>18, UntellDoes DEF Takes
<1>19. ASSUME NEW t \in Threads, HostDestroy(t) PROVE (job \in [Threads -> Jobs])'
  BY <1>19, HostDestroyDoes DEF Takes
<1>20. ASSUME NEW t \in Threads, NEW s \in Surfaces, Swap(t, s) PROVE (job \in [Threads -> Jobs])'
  BY <1>20, SwapDoes DEF Takes, shim
<1>21. ASSUME NEW t \in Threads, NEW s \in Surfaces, Destroy(t, s) PROVE (job \in [Threads -> Jobs])'
  BY <1>21, DestroyDoes DEF Takes
<1>22. ASSUME UNCHANGED vars PROVE (job \in [Threads -> Jobs])'
  BY <1>0, <1>22 DEF vars
<1> QED
  BY <1>1, <1>2, <1>3, <1>4, <1>5, <1>6, <1>7, <1>8, <1>9, <1>10, <1>11, <1>12, <1>13, <1>14,
     <1>15, <1>16, <1>17, <1>18, <1>19, <1>20, <1>21, <1>22 DEF Next, Step

LEMMA CrossedTyped ==
  ASSUME GuestInv, [Next]_vars
  PROVE  crossed' \subseteq Generations
<1>0. crossed \subseteq Generations
  BY DEF GuestInv, Types, GuestTypeOK
<1>1. ASSUME Start PROVE crossed' \subseteq Generations
  BY <1>0, <1>1, StartDoes
<1>2. ASSUME Stop PROVE crossed' \subseteq Generations
  BY <1>0, <1>2, StopDoes
<1>3. ASSUME Joined PROVE crossed' \subseteq Generations
  BY <1>0, <1>3, JoinedDoes
<1>4. ASSUME Sentinel PROVE crossed' \subseteq Generations
  BY <1>0, <1>4, SentinelDoes
<1>5. ASSUME NEW t \in Threads, Create(t) PROVE crossed' \subseteq Generations
  BY <1>0, <1>5, CreateDoes
<1>6. ASSUME NEW t \in Threads, Discard(t) PROVE crossed' \subseteq Generations
  BY <1>0, <1>6, DiscardDoes
<1>7. ASSUME NEW t \in Threads, SurfaceCreated(t) PROVE crossed' \subseteq Generations
  BY <1>0, <1>7, SurfaceCreatedDoes
<1>8. ASSUME NEW t \in Threads, Tell(t) PROVE crossed' \subseteq Generations
  BY <1>0, <1>8, TellDoes
<1>9. ASSUME NEW t \in Threads, Confirm(t) PROVE crossed' \subseteq Generations
  BY <1>0, <1>9, ConfirmDoes
<1>10. ASSUME NEW t \in Threads, Withdraw(t) PROVE crossed' \subseteq Generations
  BY <1>0, <1>10, WithdrawDoes
<1>11. ASSUME NEW t \in Threads, Store(t) PROVE crossed' \subseteq Generations
  BY <1>0, <1>11, StoreDoes
<1>12. ASSUME NEW t \in Threads, GuestSwap(t) PROVE crossed' \subseteq Generations
  BY <1>0, <1>12, GuestSwapDoes
<1>13. ASSUME NEW t \in Threads, Signal(t) PROVE crossed' \subseteq Generations
  BY <1>0, <1>13, SignalDoes
<1>14. ASSUME NEW t \in Threads, Accept(t) PROVE crossed' \subseteq Generations
  BY <1>0, <1>14, AcceptDoes
<1>15. ASSUME NEW t \in Threads, Reject(t) PROVE crossed' \subseteq Generations
  BY <1>0, <1>15, RejectDoes
<1>16. ASSUME NEW t \in Threads, FinishClaim(t) PROVE crossed' \subseteq Generations
  BY <1>0, <1>16, FinishClaimDoes
<1>17. ASSUME NEW t \in Threads, SurfaceDestroyed(t) PROVE crossed' \subseteq Generations
  BY <1>0, <1>17, SurfaceDestroyedDoes
<1>18. ASSUME NEW t \in Threads, Untell(t) PROVE crossed' \subseteq Generations
  BY <1>0, <1>18, UntellDoes
<1>19. ASSUME NEW t \in Threads, HostDestroy(t) PROVE crossed' \subseteq Generations
  BY <1>0, <1>19, HostDestroyDoes
<1>20. ASSUME NEW t \in Threads, NEW s \in Surfaces, Swap(t, s) PROVE crossed' \subseteq Generations
  BY <1>0, <1>20, SwapDoes
<1>21. ASSUME NEW t \in Threads, NEW s \in Surfaces, Destroy(t, s) PROVE crossed' \subseteq Generations
  BY <1>0, <1>21, DestroyDoes
<1>22. ASSUME UNCHANGED vars PROVE crossed' \subseteq Generations
  BY <1>0, <1>22 DEF vars
<1> QED
  BY <1>1, <1>2, <1>3, <1>4, <1>5, <1>6, <1>7, <1>8, <1>9, <1>10, <1>11, <1>12, <1>13, <1>14,
     <1>15, <1>16, <1>17, <1>18, <1>19, <1>20, <1>21, <1>22 DEF Next, Step

(* The generations suffice.                                                *)
LEMMA ReservedFrom ==
  ASSUME GuestInv, UNCHANGED <<nextGeneration, starts>>, Underway' = Underway
  PROVE  Reserved'
BY DEF GuestInv, Types, Reserved

LEMMA ReservedKept ==
  ASSUME GuestInv, [Next]_vars
  PROVE  Reserved'
<1>0. /\ nextGeneration \in Nat /\ starts \in Nat /\ MaxStarts \in Nat /\ MaxGeneration \in Nat
      /\ Cardinality(Underway) \in Nat /\ Reserved
  BY UnderwayIs, GuestSwapAssumption DEF GuestInv, Types, GuestTypeOK, RouterType, EglType
<1>1. ASSUME Start PROVE Reserved'
  <2>1. Underway' = Underway
    BY <1>1, StartDoes DEF Underway
  <2> QED
    BY <1>0, <1>1, <2>1, StartDoes DEF Reserved
<1>2. ASSUME Stop PROVE Reserved'
  <2>1. Underway' = Underway
    BY <1>2, StopDoes DEF Underway
  <2> QED
    BY <1>2, <2>1, StopDoes, ReservedFrom DEF router
<1>3. ASSUME Joined PROVE Reserved'
  <2>1. Underway' = Underway
    BY <1>3, JoinedDoes DEF Underway
  <2> QED
    BY <1>3, <2>1, JoinedDoes, ReservedFrom DEF router
<1>4. ASSUME Sentinel PROVE Reserved'
  <2>1. Underway' = Underway
    BY <1>4, SentinelDoes DEF Underway
  <2> QED
    BY <1>4, <2>1, SentinelDoes, ReservedFrom DEF router
<1>5. ASSUME NEW t \in Threads, Create(t) PROVE Reserved'
  <2>1. UNCHANGED <<nextGeneration, starts>> /\ job[t].at = "idle"
    BY <1>5, CreateDoes DEF router, egl
  <2>2. CASE job' = job
    <3>1. Underway' = Underway
      BY <2>2 DEF Underway
    <3> QED
      BY <2>1, <3>1, ReservedFrom
  <2>3. CASE job' # job
    <3>1. nextGeneration + (MaxStarts - starts) + Cardinality(Underway) < MaxGeneration
      BY <1>5, <2>3, CreateDoes
    <3>2. Cardinality(Underway') = Cardinality(Underway) + 1
      BY <1>5, <2>1, <2>3, CreateDoes, UnderwayGrows
    <3> QED
      BY <1>0, <2>1, <3>1, <3>2 DEF Reserved
  <2> QED
    BY <2>2, <2>3
<1>6. ASSUME NEW t \in Threads, Discard(t) PROVE Reserved'
  <2>1. Underway' = Underway
    BY <1>6, DiscardDoes, UnderwayStays
  <2> QED
    BY <1>6, <2>1, DiscardDoes, ReservedFrom DEF router, egl
<1>7. ASSUME NEW t \in Threads, SurfaceCreated(t) PROVE Reserved'
  <2>1. Cardinality(Underway') = Cardinality(Underway) - 1
    BY <1>7, SurfaceCreatedDoes, UnderwayShrinks
  <2>2. nextGeneration' \in {nextGeneration, nextGeneration + 1} /\ starts' = starts
    BY <1>7, SurfaceCreatedDoes DEF router, egl
  <2> QED
    BY <1>0, <2>1, <2>2 DEF Reserved
<1>8. ASSUME NEW t \in Threads, Tell(t) PROVE Reserved'
  <2>1. Underway' = Underway
    BY <1>8, TellDoes, UnderwayStays
  <2> QED
    BY <1>8, <2>1, TellDoes, ReservedFrom DEF router, egl
<1>9. ASSUME NEW t \in Threads, Confirm(t) PROVE Reserved'
  <2>1. Underway' = Underway
    BY <1>9, ConfirmDoes, UnderwayStays
  <2> QED
    BY <1>9, <2>1, ConfirmDoes, ReservedFrom DEF router, egl
<1>10. ASSUME NEW t \in Threads, Withdraw(t) PROVE Reserved'
  <2>1. Underway' = Underway
    BY <1>10, WithdrawDoes, UnderwayStays
  <2> QED
    BY <1>10, <2>1, WithdrawDoes, ReservedFrom DEF router, egl
<1>11. ASSUME NEW t \in Threads, Store(t) PROVE Reserved'
  <2>1. Underway' = Underway
    BY <1>11, StoreDoes, UnderwayStays
  <2> QED
    BY <1>11, <2>1, StoreDoes, ReservedFrom DEF router, egl
<1>12. ASSUME NEW t \in Threads, GuestSwap(t) PROVE Reserved'
  <2>1. Underway' = Underway
    BY <1>12, GuestSwapDoes, UnderwayStays
  <2> QED
    BY <1>12, <2>1, GuestSwapDoes, ReservedFrom DEF router, egl
<1>13. ASSUME NEW t \in Threads, Signal(t) PROVE Reserved'
  <2>1. Underway' = Underway
    BY <1>13, SignalDoes, UnderwayStays
  <2> QED
    BY <1>13, <2>1, SignalDoes, ReservedFrom DEF router, egl
<1>14. ASSUME NEW t \in Threads, Accept(t) PROVE Reserved'
  <2>1. Underway' = Underway
    BY <1>14, AcceptDoes, UnderwayStays
  <2> QED
    BY <1>14, <2>1, AcceptDoes, ReservedFrom DEF router, egl
<1>15. ASSUME NEW t \in Threads, Reject(t) PROVE Reserved'
  <2>1. Underway' = Underway
    BY <1>15, RejectDoes, UnderwayStays
  <2> QED
    BY <1>15, <2>1, RejectDoes, ReservedFrom DEF router, egl
<1>16. ASSUME NEW t \in Threads, FinishClaim(t) PROVE Reserved'
  <2>1. Underway' = Underway
    BY <1>16, FinishClaimDoes, UnderwayStays
  <2> QED
    BY <1>16, <2>1, FinishClaimDoes, ReservedFrom DEF router, egl
<1>17. ASSUME NEW t \in Threads, SurfaceDestroyed(t) PROVE Reserved'
  <2>1. Underway' = Underway
    BY <1>17, SurfaceDestroyedDoes, UnderwayStays
  <2> QED
    BY <1>17, <2>1, SurfaceDestroyedDoes, ReservedFrom DEF router, egl
<1>18. ASSUME NEW t \in Threads, Untell(t) PROVE Reserved'
  <2>1. Underway' = Underway
    BY <1>18, UntellDoes, UnderwayStays
  <2> QED
    BY <1>18, <2>1, UntellDoes, ReservedFrom DEF router, egl
<1>19. ASSUME NEW t \in Threads, HostDestroy(t) PROVE Reserved'
  <2>1. Underway' = Underway
    BY <1>19, HostDestroyDoes, UnderwayStays
  <2> QED
    BY <1>19, <2>1, HostDestroyDoes, ReservedFrom DEF router, egl
<1>20. ASSUME NEW t \in Threads, NEW s \in Surfaces, Swap(t, s) PROVE Reserved'
  <2>1. Underway' = Underway
    BY <1>20, SwapDoes, UnderwayStays
  <2> QED
    BY <1>20, <2>1, SwapDoes, ReservedFrom DEF router, egl
<1>21. ASSUME NEW t \in Threads, NEW s \in Surfaces, Destroy(t, s) PROVE Reserved'
  <2>1. Underway' = Underway
    BY <1>21, DestroyDoes, UnderwayStays
  <2> QED
    BY <1>21, <2>1, DestroyDoes, ReservedFrom DEF router, egl
<1>22. ASSUME UNCHANGED vars PROVE Reserved'
  <2>1. Underway' = Underway
    BY <1>22 DEF vars, Underway
  <2> QED
    BY <1>22, <2>1, ReservedFrom DEF vars, router, egl
<1> QED
  BY <1>1, <1>2, <1>3, <1>4, <1>5, <1>6, <1>7, <1>8, <1>9, <1>10, <1>11, <1>12, <1>13, <1>14,
     <1>15, <1>16, <1>17, <1>18, <1>19, <1>20, <1>21, <1>22 DEF Next, Step

(* A generation keeps its registration.                                    *)
LEMMA RegKept ==
  ASSUME GuestInv, [Next]_vars
  PROVE  /\ nextGeneration' \in Nat /\ nextGeneration <= nextGeneration'
         /\ \A g \in 1 .. nextGeneration :
               g \in Generations /\ (entry[g].reg # 0 => entry'[g].reg = entry[g].reg)
<1> DEFINE Kept ==
       /\ nextGeneration' \in Nat /\ nextGeneration <= nextGeneration'
       /\ \A g \in 1 .. nextGeneration :
             g \in Generations /\ (entry[g].reg # 0 => entry'[g].reg = entry[g].reg)
<1>0. /\ RouterType /\ EglType /\ ShimType /\ job \in [Threads -> Jobs] /\ Reserved /\ Calls
      /\ Windows /\ Routes /\ Newest /\ Recorded /\ Claims /\ Answered /\ Created /\ Backed
  BY DEF GuestInv, Types, GuestTypeOK
<1>1. ASSUME Start PROVE Kept
  BY <1>1, StartDoes, Known
<1>2. ASSUME Stop PROVE Kept
  BY <1>2, StopDoes, Known
<1>3. ASSUME Joined PROVE Kept
  BY <1>3, JoinedDoes, Known DEF router
<1>4. ASSUME Sentinel PROVE Kept
  BY <1>4, SentinelDoes, Known DEF router
<1>5. ASSUME NEW t \in Threads, Create(t) PROVE Kept
  BY <1>5, CreateDoes, Known DEF router
<1>6. ASSUME NEW t \in Threads, Discard(t) PROVE Kept
  BY <1>6, DiscardDoes, Known DEF router, shim
<1>7. ASSUME NEW t \in Threads, SurfaceCreated(t) PROVE Kept
  BY <1>7, SurfaceCreatedDoes, Known DEF router
<1>8. ASSUME NEW t \in Threads, Tell(t) PROVE Kept
  BY <1>8, TellDoes, Known DEF router
<1>9. ASSUME NEW t \in Threads, Confirm(t) PROVE Kept
  BY <1>9, ConfirmDoes, Known DEF router
<1>10. ASSUME NEW t \in Threads, Withdraw(t) PROVE Kept
  BY <1>10, WithdrawDoes, Known
<1>11. ASSUME NEW t \in Threads, Store(t) PROVE Kept
  BY <1>11, StoreDoes, Known DEF router, shim
<1>12. ASSUME NEW t \in Threads, GuestSwap(t) PROVE Kept
  BY <1>12, GuestSwapDoes, Known
<1>13. ASSUME NEW t \in Threads, Signal(t) PROVE Kept
  BY <1>13, SignalDoes, Known DEF router
<1>14. ASSUME NEW t \in Threads, Accept(t) PROVE Kept
  BY <1>14, AcceptDoes, Known
<1>15. ASSUME NEW t \in Threads, Reject(t) PROVE Kept
  BY <1>15, RejectDoes, Known
<1>16. ASSUME NEW t \in Threads, FinishClaim(t) PROVE Kept
  BY <1>16, FinishClaimDoes, Known DEF router
<1>17. ASSUME NEW t \in Threads, SurfaceDestroyed(t) PROVE Kept
  BY <1>17, SurfaceDestroyedDoes, Known
<1>18. ASSUME NEW t \in Threads, Untell(t) PROVE Kept
  BY <1>18, UntellDoes, Known DEF router
<1>19. ASSUME NEW t \in Threads, HostDestroy(t) PROVE Kept
  BY <1>19, HostDestroyDoes, Known DEF router
<1>20. ASSUME NEW t \in Threads, NEW s \in Surfaces, Swap(t, s) PROVE Kept
  BY <1>20, SwapDoes, Known DEF router, shim
<1>21. ASSUME NEW t \in Threads, NEW s \in Surfaces, Destroy(t, s) PROVE Kept
  BY <1>21, DestroyDoes, Known DEF router
<1>22. ASSUME UNCHANGED vars PROVE Kept
  BY <1>22, Known DEF router, vars
<1> QED
  BY <1>1, <1>2, <1>3, <1>4, <1>5, <1>6, <1>7, <1>8, <1>9, <1>10, <1>11, <1>12, <1>13, <1>14,
     <1>15, <1>16, <1>17, <1>18, <1>19, <1>20, <1>21, <1>22 DEF Next, Step

LEMMA OthersCalled ==
  ASSUME GuestInv, [Next]_vars, NEW t \in Threads, nextGeneration <= nextGeneration',
         nextGeneration' \in Nat,
         \A u \in Threads \ {t} : job'[u] = job[u],
         \A u \in Threads \ {t} : job[u].at \in Creating \cup Destroying => job[u].surf \in live',
         Called(t)'
  PROVE  Calls'
<1> SUFFICES ASSUME NEW u \in Threads \ {t} PROVE Called(u)'
  BY DEF Calls
<1>1. Called(u) /\ job'[u] = job[u] /\ nextGeneration \in Nat
  BY Known DEF GuestInv, Types, Calls
<1> QED
  BY <1>1, RegKept DEF Called

(* A call goes on with its surface and generation.                         *)
LEMMA CallsKept ==
  ASSUME GuestInv, [Next]_vars
  PROVE  Calls'
<1>0. /\ RouterType /\ EglType /\ ShimType /\ job \in [Threads -> Jobs] /\ Reserved /\ Calls
      /\ Windows /\ Routes /\ Newest /\ Recorded /\ Claims /\ Answered /\ Created /\ Backed
  BY DEF GuestInv, Types, GuestTypeOK
<1>1. ASSUME Start PROVE Calls'
  BY <1>0, <1>1, StartDoes, Known DEF Calls, Called
<1>2. ASSUME Stop PROVE Calls'
  BY <1>0, <1>2, StopDoes DEF Calls, Called
<1>3. ASSUME Joined PROVE Calls'
  BY <1>0, <1>3, JoinedDoes, RegKept, Known DEF Calls, Called
<1>4. ASSUME Sentinel PROVE Calls'
  BY <1>0, <1>4, SentinelDoes, RegKept, Known DEF Calls, Called
<1>5. ASSUME NEW t \in Threads, Create(t) PROVE Calls'
  <2>1. \A u \in Threads \ {t} : job'[u] = job[u]
    BY <1>5, CreateDoes DEF Takes
  <2>2. \A u \in Threads \ {t} : job[u].at \in Creating \cup Destroying => job[u].surf \in live'
    BY <1>0, <1>5, CreateDoes DEF Calls, Called
  <2>3. Called(t)'
    BY <1>0, <1>5, CreateDoes DEF Takes, Calls, Called, Claiming, Told, Owning, Creating, Destroying
  <2> QED
    BY <2>1, <2>2, <2>3, RegKept, OthersCalled
<1>6. ASSUME NEW t \in Threads, Discard(t) PROVE Calls'
  <2>1. \A u \in Threads \ {t} : job'[u] = job[u]
    BY <1>6, DiscardDoes DEF Takes
  <2>2. \A u \in Threads \ {t} : job[u].at \in Creating \cup Destroying => job[u].surf \in live'
    BY <1>0, <1>6, DiscardDoes DEF Calls, Called, shim
  <2>3. Called(t)'
    BY <1>0, <1>6, DiscardDoes DEF Takes, Calls, Called, Claiming, Creating, Told, shim,
        Owning, Destroying
  <2> QED
    BY <2>1, <2>2, <2>3, RegKept, OthersCalled
<1>7. ASSUME NEW t \in Threads, SurfaceCreated(t) PROVE Calls'
  <2>1. \A u \in Threads \ {t} : job'[u] = job[u]
    BY <1>7, SurfaceCreatedDoes DEF Takes
  <2>2. \A u \in Threads \ {t} : job[u].at \in Creating \cup Destroying => job[u].surf \in live'
    BY <1>0, <1>7, SurfaceCreatedDoes DEF Calls, Called
  <2>3. Called(t)'
    BY <1>0, <1>7, SurfaceCreatedDoes, Known DEF Takes, Calls, Called, Claiming, Creating,
       Destroying, Told, Owning
  <2> QED
    BY <2>1, <2>2, <2>3, RegKept, OthersCalled
<1>8. ASSUME NEW t \in Threads, Tell(t) PROVE Calls'
  <2>1. \A u \in Threads \ {t} : job'[u] = job[u]
    BY <1>8, TellDoes DEF Takes
  <2>2. \A u \in Threads \ {t} : job[u].at \in Creating \cup Destroying => job[u].surf \in live'
    BY <1>0, <1>8, TellDoes DEF Calls, Called
  <2>3. Called(t)'
    BY <1>0, <1>8, TellDoes, RegKept, Known DEF Takes, Calls, Called, Creating, Told,
        Owning, Claiming, Destroying
  <2> QED
    BY <2>1, <2>2, <2>3, RegKept, OthersCalled
<1>9. ASSUME NEW t \in Threads, Confirm(t) PROVE Calls'
  <2>1. \A u \in Threads \ {t} : job'[u] = job[u]
    BY <1>9, ConfirmDoes DEF Takes
  <2>2. \A u \in Threads \ {t} : job[u].at \in Creating \cup Destroying => job[u].surf \in live'
    BY <1>0, <1>9, ConfirmDoes DEF Calls, Called
  <2>3. Called(t)'
    BY <1>0, <1>9, ConfirmDoes, RegKept, Known DEF Takes, Calls, Called, Creating, Told,
        Owning, Claiming, Destroying
  <2> QED
    BY <2>1, <2>2, <2>3, RegKept, OthersCalled
<1>10. ASSUME NEW t \in Threads, Withdraw(t) PROVE Calls'
  <2>1. \A u \in Threads \ {t} : job'[u] = job[u]
    BY <1>10, WithdrawDoes DEF Takes
  <2>2. \A u \in Threads \ {t} : job[u].at \in Creating \cup Destroying => job[u].surf \in live'
    BY <1>0, <1>10, WithdrawDoes DEF Calls, Called
  <2>3. Called(t)'
    BY <1>0, <1>10, WithdrawDoes DEF Takes, Called, Claiming, Creating, Destroying, Told, Owning
  <2> QED
    BY <2>1, <2>2, <2>3, RegKept, OthersCalled
<1>11. ASSUME NEW t \in Threads, Store(t) PROVE Calls'
  <2>1. \A u \in Threads \ {t} : job'[u] = job[u]
    BY <1>11, StoreDoes DEF Takes
  <2>2. \A u \in Threads \ {t} : job[u].at \in Creating \cup Destroying => job[u].surf \in live'
    BY <1>0, <1>11, StoreDoes DEF Calls, Called, shim
  <2>3. Called(t)'
    BY <1>0, <1>11, StoreDoes DEF Takes, Called, Claiming, Creating, Destroying, Told, shim, Owning
  <2> QED
    BY <2>1, <2>2, <2>3, RegKept, OthersCalled
<1>12. ASSUME NEW t \in Threads, GuestSwap(t) PROVE Calls'
  <2>1. \A u \in Threads \ {t} : job'[u] = job[u]
    BY <1>12, GuestSwapDoes DEF Takes
  <2>2. \A u \in Threads \ {t} : job[u].at \in Creating \cup Destroying => job[u].surf \in live'
    BY <1>0, <1>12, GuestSwapDoes DEF Calls, Called
  <2>3. Called(t)'
    BY <1>0, <1>12, GuestSwapDoes DEF Takes, Calls, Called, Claiming, Creating, Destroying,
        Owning, Told
  <2> QED
    BY <2>1, <2>2, <2>3, RegKept, OthersCalled
<1>13. ASSUME NEW t \in Threads, Signal(t) PROVE Calls'
  <2>1. \A u \in Threads \ {t} : job'[u] = job[u]
    BY <1>13, SignalDoes DEF Takes
  <2>2. \A u \in Threads \ {t} : job[u].at \in Creating \cup Destroying => job[u].surf \in live'
    BY <1>0, <1>13, SignalDoes DEF Calls, Called
  <2>3. Called(t)'
    BY <1>0, <1>13, SignalDoes, RegKept, Known DEF Takes, Calls, Called, Claiming, Creating,
       Destroying, Owning, Told
  <2> QED
    BY <2>1, <2>2, <2>3, RegKept, OthersCalled
<1>14. ASSUME NEW t \in Threads, Accept(t) PROVE Calls'
  <2>1. \A u \in Threads \ {t} : job'[u] = job[u]
    BY <1>14, AcceptDoes DEF Takes
  <2>2. \A u \in Threads \ {t} : job[u].at \in Creating \cup Destroying => job[u].surf \in live'
    BY <1>0, <1>14, AcceptDoes DEF Calls, Called
  <2>3. Called(t)'
    BY <1>0, <1>14, AcceptDoes DEF Takes, Calls, Called, Claiming, Creating, Destroying,
        Owning, Told
  <2> QED
    BY <2>1, <2>2, <2>3, RegKept, OthersCalled
<1>15. ASSUME NEW t \in Threads, Reject(t) PROVE Calls'
  <2>1. \A u \in Threads \ {t} : job'[u] = job[u]
    BY <1>15, RejectDoes DEF Takes
  <2>2. \A u \in Threads \ {t} : job[u].at \in Creating \cup Destroying => job[u].surf \in live'
    BY <1>0, <1>15, RejectDoes DEF Calls, Called
  <2>3. Called(t)'
    BY <1>0, <1>15, RejectDoes DEF Takes, Calls, Called, Claiming, Creating, Destroying,
        Owning, Told
  <2> QED
    BY <2>1, <2>2, <2>3, RegKept, OthersCalled
<1>16. ASSUME NEW t \in Threads, FinishClaim(t) PROVE Calls'
  <2>1. \A u \in Threads \ {t} : job'[u] = job[u]
    BY <1>16, FinishClaimDoes DEF Takes
  <2>2. \A u \in Threads \ {t} : job[u].at \in Creating \cup Destroying => job[u].surf \in live'
    BY <1>0, <1>16, FinishClaimDoes DEF Calls, Called
  <2>3. Called(t)'
    BY <1>0, <1>16, FinishClaimDoes DEF Takes, Called, Claiming, Creating, Destroying, Told, Owning
  <2> QED
    BY <2>1, <2>2, <2>3, RegKept, OthersCalled
<1>17. ASSUME NEW t \in Threads, SurfaceDestroyed(t) PROVE Calls'
  <2>1. \A u \in Threads \ {t} : job'[u] = job[u]
    BY <1>17, SurfaceDestroyedDoes DEF Takes
  <2>2. \A u \in Threads \ {t} : job[u].at \in Creating \cup Destroying => job[u].surf \in live'
    BY <1>0, <1>17, SurfaceDestroyedDoes DEF Calls, Called
  <2>3. Called(t)'
    BY <1>0, <1>17, SurfaceDestroyedDoes DEF Takes, Calls, Called, Creating, Destroying,
        Owning, Told, Claiming
  <2> QED
    BY <2>1, <2>2, <2>3, RegKept, OthersCalled
<1>18. ASSUME NEW t \in Threads, Untell(t) PROVE Calls'
  <2>1. \A u \in Threads \ {t} : job'[u] = job[u]
    BY <1>18, UntellDoes DEF Takes
  <2>2. \A u \in Threads \ {t} : job[u].at \in Creating \cup Destroying => job[u].surf \in live'
    BY <1>0, <1>18, UntellDoes DEF Calls, Called
  <2>3. Called(t)'
    BY <1>0, <1>18, UntellDoes DEF Takes, Calls, Called, Claiming, Creating, Destroying, Told,
        Owning
  <2> QED
    BY <2>1, <2>2, <2>3, RegKept, OthersCalled
<1>19. ASSUME NEW t \in Threads, HostDestroy(t) PROVE Calls'
  <2>1. \A u \in Threads \ {t} : job'[u] = job[u]
    BY <1>19, HostDestroyDoes DEF Takes
  <2>2. \A u \in Threads \ {t} : job[u].at \in Creating \cup Destroying => job[u].surf \in live'
    BY <1>0, <1>19, HostDestroyDoes DEF Calls, Called, Recorded, Alone, Destroying
  <2>3. Called(t)'
    BY <1>0, <1>19, HostDestroyDoes DEF Takes, Called, Claiming, Creating, Destroying, Told, Owning
  <2> QED
    BY <2>1, <2>2, <2>3, RegKept, OthersCalled
<1>20. ASSUME NEW t \in Threads, NEW s \in Surfaces, Swap(t, s) PROVE Calls'
  <2>1. \A u \in Threads \ {t} : job'[u] = job[u]
    BY <1>20, SwapDoes DEF Takes
  <2>2. \A u \in Threads \ {t} : job[u].at \in Creating \cup Destroying => job[u].surf \in live'
    BY <1>0, <1>20, SwapDoes DEF Calls, Called, shim
  <2>3. Called(t)'
    <3>1. PICK r \in records : Takes(t, "guestSwap", s, r.gen)
      BY <1>20, SwapDoes
    <3>2. r.gen \in 1 .. nextGeneration /\ entry[r.gen].reg # 0
      BY <1>0, Known DEF Recorded, LiveRecords, Generations
    <3> QED
      BY <1>0, <1>20, <3>2, SwapDoes DEF Takes, Called, Creating, router, shim
  <2> QED
    BY <2>1, <2>2, <2>3, RegKept, OthersCalled
<1>21. ASSUME NEW t \in Threads, NEW s \in Surfaces, Destroy(t, s) PROVE Calls'
  <2>1. \A u \in Threads \ {t} : job'[u] = job[u]
    BY <1>21, DestroyDoes DEF Takes
  <2>2. \A u \in Threads \ {t} : job[u].at \in Creating \cup Destroying => job[u].surf \in live'
    BY <1>0, <1>21, DestroyDoes DEF Calls, Called
  <2>3. Called(t)'
    <3>1. CASE Takes(t, "hostDestroy", s, 0)
      BY <1>21, <3>1, DestroyDoes DEF Takes, Called, Claiming, Creating, Told, Owning, Destroying
    <3>2. CASE \E r \in records : Takes(t, "destroyed", s, r.gen)
      <4>1. PICK r \in records : Takes(t, "destroyed", s, r.gen)
        BY <3>2
      <4>2. r.gen \in 1 .. nextGeneration /\ entry[r.gen].reg # 0
        BY <1>0, Known DEF Recorded, LiveRecords, Generations
      <4> QED
        BY <1>0, <1>21, <4>1, <4>2, DestroyDoes DEF Takes, Called, Creating, router
    <3> QED
      BY <1>21, <3>1, <3>2, DestroyDoes
  <2> QED
    BY <2>1, <2>2, <2>3, RegKept, OthersCalled
<1>22. ASSUME UNCHANGED vars PROVE Calls'
  BY <1>0, <1>22, RegKept, Known DEF Calls, Called, vars
<1> QED
  BY <1>1, <1>2, <1>3, <1>4, <1>5, <1>6, <1>7, <1>8, <1>9, <1>10, <1>11, <1>12, <1>13, <1>14,
     <1>15, <1>16, <1>17, <1>18, <1>19, <1>20, <1>21, <1>22 DEF Next, Step

(* The router and the sentinel are of one registration.                    *)
LEMMA WindowsKept ==
  ASSUME GuestInv, [Next]_vars
  PROVE  Windows'
<1>0. /\ RouterType /\ EglType /\ ShimType /\ job \in [Threads -> Jobs] /\ Reserved /\ Calls
      /\ Windows /\ Routes /\ Newest /\ Recorded /\ Claims /\ Answered /\ Created /\ Backed
  BY DEF GuestInv, Types, GuestTypeOK
<1>1. ASSUME Start PROVE Windows'
  BY <1>0, <1>1, StartDoes DEF Windows, RouterType
<1>2. ASSUME Stop PROVE Windows'
  BY <1>2, StopDoes DEF Windows
<1>3. ASSUME Joined PROVE Windows'
  BY <1>0, <1>3, JoinedDoes DEF Windows, router
<1>4. ASSUME Sentinel PROVE Windows'
  BY <1>0, <1>4, SentinelDoes DEF Windows, router
<1>5. ASSUME NEW t \in Threads, Create(t) PROVE Windows'
  BY <1>0, <1>5, CreateDoes DEF Windows, router, egl
<1>6. ASSUME NEW t \in Threads, Discard(t) PROVE Windows'
  BY <1>0, <1>6, DiscardDoes DEF Windows, router, egl, shim
<1>7. ASSUME NEW t \in Threads, SurfaceCreated(t) PROVE Windows'
  BY <1>0, <1>7, SurfaceCreatedDoes DEF Windows, router, egl
<1>8. ASSUME NEW t \in Threads, Tell(t) PROVE Windows'
  BY <1>0, <1>8, TellDoes DEF Windows, router
<1>9. ASSUME NEW t \in Threads, Confirm(t) PROVE Windows'
  BY <1>0, <1>9, ConfirmDoes DEF Windows, router, egl
<1>10. ASSUME NEW t \in Threads, Withdraw(t) PROVE Windows'
  BY <1>0, <1>10, WithdrawDoes DEF Windows, egl
<1>11. ASSUME NEW t \in Threads, Store(t) PROVE Windows'
  BY <1>0, <1>11, StoreDoes DEF Windows, router, egl, shim
<1>12. ASSUME NEW t \in Threads, GuestSwap(t) PROVE Windows'
  BY <1>0, <1>12, GuestSwapDoes DEF Windows, egl
<1>13. ASSUME NEW t \in Threads, Signal(t) PROVE Windows'
  BY <1>0, <1>13, SignalDoes DEF Windows, Ours, router
<1>14. ASSUME NEW t \in Threads, Accept(t) PROVE Windows'
  BY <1>0, <1>14, AcceptDoes DEF Windows, egl
<1>15. ASSUME NEW t \in Threads, Reject(t) PROVE Windows'
  BY <1>0, <1>15, RejectDoes DEF Windows, egl
<1>16. ASSUME NEW t \in Threads, FinishClaim(t) PROVE Windows'
  BY <1>0, <1>16, FinishClaimDoes DEF Windows, router, egl
<1>17. ASSUME NEW t \in Threads, SurfaceDestroyed(t) PROVE Windows'
  BY <1>0, <1>17, SurfaceDestroyedDoes DEF Windows, egl
<1>18. ASSUME NEW t \in Threads, Untell(t) PROVE Windows'
  BY <1>0, <1>18, UntellDoes DEF Windows, Ours, router
<1>19. ASSUME NEW t \in Threads, HostDestroy(t) PROVE Windows'
  BY <1>0, <1>19, HostDestroyDoes DEF Windows, router, egl
<1>20. ASSUME NEW t \in Threads, NEW s \in Surfaces, Swap(t, s) PROVE Windows'
  BY <1>0, <1>20, SwapDoes DEF Windows, router, egl, shim
<1>21. ASSUME NEW t \in Threads, NEW s \in Surfaces, Destroy(t, s) PROVE Windows'
  BY <1>0, <1>21, DestroyDoes DEF Windows, router, egl
<1>22. ASSUME UNCHANGED vars PROVE Windows'
  BY <1>0, <1>22 DEF Windows, router, egl, vars
<1> QED
  BY <1>1, <1>2, <1>3, <1>4, <1>5, <1>6, <1>7, <1>8, <1>9, <1>10, <1>11, <1>12, <1>13, <1>14,
     <1>15, <1>16, <1>17, <1>18, <1>19, <1>20, <1>21, <1>22 DEF Next, Step


LEMMA RoutesKept ==
  ASSUME GuestInv, [Next]_vars
  PROVE  Routes'
<1>0. /\ RouterType /\ EglType /\ ShimType /\ job \in [Threads -> Jobs] /\ Reserved /\ Calls
      /\ Windows /\ Routes /\ Newest /\ Recorded /\ Claims /\ Answered /\ Created /\ Backed
  BY DEF GuestInv, Types, GuestTypeOK
<1>1. ASSUME Start PROVE Routes'
  BY <1>0, <1>1, StartDoes DEF Routes, Awaits, Windows
<1>2. ASSUME Stop PROVE Routes'
  BY <1>2, StopDoes DEF Routes, Awaits, Active
<1>3. ASSUME Joined PROVE Routes'
  BY <1>0, <1>3, JoinedDoes DEF Routes, Awaits, Windows, router
<1>4. ASSUME Sentinel PROVE Routes'
  BY <1>0, <1>4, SentinelDoes DEF Routes, Awaits, Active, router
<1>5. ASSUME NEW t \in Threads, Create(t) PROVE Routes'
  BY <1>0, <1>5, CreateDoes DEF Routes, Awaits, Active, router, egl
<1>6. ASSUME NEW t \in Threads, Discard(t) PROVE Routes'
  BY <1>0, <1>6, DiscardDoes DEF Routes, Awaits, Active, router, egl, shim
<1>7. ASSUME NEW t \in Threads, SurfaceCreated(t) PROVE Routes'
  <2>1. CASE window = 0
    BY <1>0, <1>7, <2>1, SurfaceCreatedDoes DEF Routes, Awaits, Active, router, egl
  <2>2. CASE window # 0
    <3>1. guest # 0 => entry'[guest] = entry[guest] /\ entry[guest].reg = swap
      BY <1>0, <1>7, <2>2, SurfaceCreatedDoes, Known DEF Routes
    <3>2. \A s \in Surfaces : route'[s] # 0 => s = job[t].surf /\ entry'[route'[s]].reg = window'
      BY <1>7, <2>2, SurfaceCreatedDoes
    <3>3. UNCHANGED <<window, guest, swap, sentinel>> /\ (Awaits => guest # 0)
      BY <1>0, <1>7, <2>2, SurfaceCreatedDoes DEF egl, Routes
    <3> QED
      BY <2>2, <3>1, <3>2, <3>3 DEF Routes, Awaits, Active
  <2> QED
    BY <2>1, <2>2
<1>8. ASSUME NEW t \in Threads, Tell(t) PROVE Routes'
  BY <1>0, <1>8, TellDoes DEF Routes, Awaits, Active, Calls, Called, Told, router, Owning, Claiming
<1>9. ASSUME NEW t \in Threads, Confirm(t) PROVE Routes'
  BY <1>0, <1>9, ConfirmDoes DEF Routes, Awaits, Active, router, egl
<1>10. ASSUME NEW t \in Threads, Withdraw(t) PROVE Routes'
  BY <1>0, <1>10, WithdrawDoes DEF Routes, Awaits, Active, egl
<1>11. ASSUME NEW t \in Threads, Store(t) PROVE Routes'
  BY <1>0, <1>11, StoreDoes DEF Routes, Awaits, Active, router, egl, shim
<1>12. ASSUME NEW t \in Threads, GuestSwap(t) PROVE Routes'
  <2>1. UNCHANGED <<route, window, guest, swap, sentinel>>
    BY <1>12, GuestSwapDoes DEF egl
  <2>2. \A h \in Generations : entry'[h].reg = entry[h].reg
    BY <1>12, GuestSwapDoes
  <2>3. Routes
    BY <1>0
  <2> QED
    BY <2>1, <2>2, <2>3, Known DEF Routes, Awaits, Active, router, egl, shim
<1>13. ASSUME NEW t \in Threads, Signal(t) PROVE Routes'
  BY <1>0, <1>13, SignalDoes DEF Routes, Awaits, Active, router
<1>14. ASSUME NEW t \in Threads, Accept(t) PROVE Routes'
  <2>1. UNCHANGED <<route, window, guest, swap, sentinel>>
    BY <1>14, AcceptDoes DEF egl
  <2>2. \A h \in Generations : entry'[h].reg = entry[h].reg
    BY <1>14, AcceptDoes
  <2>3. Routes
    BY <1>0
  <2> QED
    BY <2>1, <2>2, <2>3, Known DEF Routes, Awaits, Active, router, egl, shim
<1>15. ASSUME NEW t \in Threads, Reject(t) PROVE Routes'
  <2>1. UNCHANGED <<route, window, guest, swap, sentinel>>
    BY <1>15, RejectDoes DEF egl
  <2>2. \A h \in Generations : entry'[h].reg = entry[h].reg
    BY <1>15, RejectDoes
  <2>3. Routes
    BY <1>0
  <2> QED
    BY <2>1, <2>2, <2>3, Known DEF Routes, Awaits, Active, router, egl, shim
<1>16. ASSUME NEW t \in Threads, FinishClaim(t) PROVE Routes'
  BY <1>0, <1>16, FinishClaimDoes DEF Routes, Awaits, Active, router, egl
<1>17. ASSUME NEW t \in Threads, SurfaceDestroyed(t) PROVE Routes'
  BY <1>0, <1>17, SurfaceDestroyedDoes DEF Routes, Awaits, Active, egl
<1>18. ASSUME NEW t \in Threads, Untell(t) PROVE Routes'
  BY <1>0, <1>18, UntellDoes DEF Routes, Awaits, Active, router
<1>19. ASSUME NEW t \in Threads, HostDestroy(t) PROVE Routes'
  BY <1>0, <1>19, HostDestroyDoes DEF Routes, Awaits, Active, router, egl
<1>20. ASSUME NEW t \in Threads, NEW s \in Surfaces, Swap(t, s) PROVE Routes'
  BY <1>0, <1>20, SwapDoes DEF Routes, Awaits, Active, router, egl, shim
<1>21. ASSUME NEW t \in Threads, NEW s \in Surfaces, Destroy(t, s) PROVE Routes'
  BY <1>0, <1>21, DestroyDoes DEF Routes, Awaits, Active, router, egl
<1>22. ASSUME UNCHANGED vars PROVE Routes'
  BY <1>0, <1>22 DEF Routes, Awaits, Active, router, egl, vars
<1> QED
  BY <1>1, <1>2, <1>3, <1>4, <1>5, <1>6, <1>7, <1>8, <1>9, <1>10, <1>11, <1>12, <1>13, <1>14,
     <1>15, <1>16, <1>17, <1>18, <1>19, <1>20, <1>21, <1>22 DEF Next, Step

(* It is the newest that is routed.                                        *)
LEMMA NewestKept ==
  ASSUME GuestInv, [Next]_vars
  PROVE  Newest'
<1>0. Newest /\ RouterType
  BY DEF GuestInv, Types, GuestTypeOK
<1>1. ASSUME Start PROVE Newest'
  BY <1>1, StartDoes DEF Newest
<1>2. ASSUME Stop PROVE Newest'
  BY <1>2, StopDoes DEF Newest
<1>3. ASSUME Joined PROVE Newest'
  BY <1>0, <1>3, JoinedDoes DEF Newest, router
<1>4. ASSUME Sentinel PROVE Newest'
  BY <1>0, <1>4, SentinelDoes DEF Newest, router
<1>5. ASSUME NEW t \in Threads, Create(t) PROVE Newest'
  BY <1>0, <1>5, CreateDoes DEF Newest, router
<1>6. ASSUME NEW t \in Threads, Discard(t) PROVE Newest'
  BY <1>0, <1>6, DiscardDoes DEF Newest, router
<1>7. ASSUME NEW t \in Threads, SurfaceCreated(t) PROVE Newest'
  <2>1. CASE window = 0
    BY <1>0, <1>7, <2>1, SurfaceCreatedDoes DEF Newest, router
  <2>2. CASE window # 0
    BY <1>7, <2>2, SurfaceCreatedDoes, Known DEF Newest, Generations
  <2> QED
    BY <2>1, <2>2
<1>8. ASSUME NEW t \in Threads, Tell(t) PROVE Newest'
  BY <1>0, <1>8, TellDoes DEF Newest, router
<1>9. ASSUME NEW t \in Threads, Confirm(t) PROVE Newest'
  BY <1>0, <1>9, ConfirmDoes DEF Newest, router
<1>10. ASSUME NEW t \in Threads, Withdraw(t) PROVE Newest'
  BY <1>0, <1>10, WithdrawDoes DEF Newest
<1>11. ASSUME NEW t \in Threads, Store(t) PROVE Newest'
  BY <1>0, <1>11, StoreDoes DEF Newest, router
<1>12. ASSUME NEW t \in Threads, GuestSwap(t) PROVE Newest'
  BY <1>0, <1>12, GuestSwapDoes DEF Newest
<1>13. ASSUME NEW t \in Threads, Signal(t) PROVE Newest'
  BY <1>0, <1>13, SignalDoes DEF Newest, router
<1>14. ASSUME NEW t \in Threads, Accept(t) PROVE Newest'
  BY <1>0, <1>14, AcceptDoes DEF Newest
<1>15. ASSUME NEW t \in Threads, Reject(t) PROVE Newest'
  BY <1>0, <1>15, RejectDoes DEF Newest
<1>16. ASSUME NEW t \in Threads, FinishClaim(t) PROVE Newest'
  BY <1>0, <1>16, FinishClaimDoes DEF Newest, router
<1>17. ASSUME NEW t \in Threads, SurfaceDestroyed(t) PROVE Newest'
  BY <1>0, <1>17, SurfaceDestroyedDoes DEF Newest
<1>18. ASSUME NEW t \in Threads, Untell(t) PROVE Newest'
  BY <1>0, <1>18, UntellDoes DEF Newest, router
<1>19. ASSUME NEW t \in Threads, HostDestroy(t) PROVE Newest'
  BY <1>0, <1>19, HostDestroyDoes DEF Newest, router
<1>20. ASSUME NEW t \in Threads, NEW s \in Surfaces, Swap(t, s) PROVE Newest'
  BY <1>0, <1>20, SwapDoes DEF Newest, router
<1>21. ASSUME NEW t \in Threads, NEW s \in Surfaces, Destroy(t, s) PROVE Newest'
  BY <1>0, <1>21, DestroyDoes DEF Newest, router
<1>22. ASSUME UNCHANGED vars PROVE Newest'
  BY <1>0, <1>22 DEF Newest, router, vars
<1> QED
  BY <1>1, <1>2, <1>3, <1>4, <1>5, <1>6, <1>7, <1>8, <1>9, <1>10, <1>11, <1>12, <1>13, <1>14,
     <1>15, <1>16, <1>17, <1>18, <1>19, <1>20, <1>21, <1>22 DEF Next, Step

(* The records stay one.                                                   *)
LEMMA OneRecordKept ==
  ASSUME GuestInv, [Next]_vars
  PROVE  OneRecord'
<1>0. /\ RouterType /\ EglType /\ ShimType /\ job \in [Threads -> Jobs] /\ Reserved /\ Calls
      /\ Windows /\ Routes /\ Newest /\ Recorded /\ Claims /\ Answered /\ Created /\ Backed
  BY DEF GuestInv, Types, GuestTypeOK
<1>1. ASSUME Start PROVE OneRecord'
  BY <1>0, <1>1, StartDoes DEF Recorded, OneRecord, router, egl, shim
<1>2. ASSUME Stop PROVE OneRecord'
  BY <1>0, <1>2, StopDoes DEF Recorded, OneRecord, router, egl, shim
<1>3. ASSUME Joined PROVE OneRecord'
  BY <1>0, <1>3, JoinedDoes DEF Recorded, OneRecord, egl, shim
<1>4. ASSUME Sentinel PROVE OneRecord'
  BY <1>0, <1>4, SentinelDoes DEF Recorded, OneRecord, egl, shim
<1>5. ASSUME NEW t \in Threads, Create(t) PROVE OneRecord'
  BY <1>0, <1>5, CreateDoes DEF Recorded, OneRecord, Takes, Told, shim
<1>6. ASSUME NEW t \in Threads, Discard(t) PROVE OneRecord'
  BY <1>0, <1>6, DiscardDoes, PendingOnes DEF OneRecord, Told, egl
<1>7. ASSUME NEW t \in Threads, SurfaceCreated(t) PROVE OneRecord'
  BY <1>0, <1>7, SurfaceCreatedDoes DEF Recorded, OneRecord, shim
<1>8. ASSUME NEW t \in Threads, Tell(t) PROVE OneRecord'
  BY <1>0, <1>8, TellDoes DEF Recorded, OneRecord, Told, egl, shim
<1>9. ASSUME NEW t \in Threads, Confirm(t) PROVE OneRecord'
  BY <1>0, <1>9, ConfirmDoes DEF Recorded, OneRecord, Told, shim
<1>10. ASSUME NEW t \in Threads, Withdraw(t) PROVE OneRecord'
  BY <1>0, <1>10, WithdrawDoes DEF Recorded, OneRecord, Told, shim
<1>11. ASSUME NEW t \in Threads, Store(t) PROVE OneRecord'
  BY <1>0, <1>11, StoreDoes, PendingOnes DEF OneRecord, Takes, Told, shim
<1>12. ASSUME NEW t \in Threads, GuestSwap(t) PROVE OneRecord'
  BY <1>0, <1>12, GuestSwapDoes, GuestSwapAssumption DEF Recorded, OneRecord, Takes, Told, shim
<1>13. ASSUME NEW t \in Threads, Signal(t) PROVE OneRecord'
  BY <1>0, <1>13, SignalDoes, GuestSwapAssumption DEF Recorded, OneRecord, Takes, Told, egl, shim
<1>14. ASSUME NEW t \in Threads, Accept(t) PROVE OneRecord'
  BY <1>0, <1>14, AcceptDoes, GuestSwapAssumption DEF Recorded, OneRecord, Takes, Told, shim
<1>15. ASSUME NEW t \in Threads, Reject(t) PROVE OneRecord'
  BY <1>0, <1>15, RejectDoes, GuestSwapAssumption DEF Recorded, OneRecord, Takes, Told, shim
<1>16. ASSUME NEW t \in Threads, FinishClaim(t) PROVE OneRecord'
  BY <1>0, <1>16, FinishClaimDoes, PendingOnes, GuestSwapAssumption DEF Recorded, OneRecord,
     Takes, Told, shim
<1>17. ASSUME NEW t \in Threads, SurfaceDestroyed(t) PROVE OneRecord'
  BY <1>0, <1>17, SurfaceDestroyedDoes, GuestSwapAssumption DEF Recorded, OneRecord, Takes, Told,
     shim
<1>18. ASSUME NEW t \in Threads, Untell(t) PROVE OneRecord'
  BY <1>0, <1>18, UntellDoes, GuestSwapAssumption DEF Recorded, OneRecord, Takes, Told, egl, shim
<1>19. ASSUME NEW t \in Threads, HostDestroy(t) PROVE OneRecord'
  BY <1>0, <1>19, HostDestroyDoes, GuestSwapAssumption DEF Recorded, OneRecord, Takes, Told, shim
<1>20. ASSUME NEW t \in Threads, NEW s \in Surfaces, Swap(t, s) PROVE OneRecord'
  BY <1>0, <1>20, SwapDoes, PendingOnes, GuestSwapAssumption DEF Recorded, OneRecord, Takes,
     Told, shim
<1>21. ASSUME NEW t \in Threads, NEW s \in Surfaces, Destroy(t, s) PROVE OneRecord'
  BY <1>0, <1>21, DestroyDoes, PendingOnes, GuestSwapAssumption DEF Recorded, OneRecord, Takes,
     Claiming, Creating, Destroying, Told, router, egl, shim
<1>22. ASSUME UNCHANGED vars PROVE OneRecord'
  BY <1>0, <1>22 DEF Recorded, OneRecord, shim, vars
<1> QED
  BY <1>1, <1>2, <1>3, <1>4, <1>5, <1>6, <1>7, <1>8, <1>9, <1>10, <1>11, <1>12, <1>13, <1>14,
     <1>15, <1>16, <1>17, <1>18, <1>19, <1>20, <1>21, <1>22 DEF Next, Step


LEMMA LiveRecordsKept ==
  ASSUME GuestInv, [Next]_vars
  PROVE  LiveRecords'
<1>0. /\ RouterType /\ EglType /\ ShimType /\ job \in [Threads -> Jobs] /\ Reserved /\ Calls
      /\ Windows /\ Routes /\ Newest /\ Recorded /\ Claims /\ Answered /\ Created /\ Backed
  BY DEF GuestInv, Types, GuestTypeOK
<1>1. ASSUME Start PROVE LiveRecords'
  <2>1. ASSUME NEW r \in records
        PROVE  r.gen <= nextGeneration' /\ entry'[r.gen].reg # 0 /\ r.surf \in live'
    BY <1>0, <1>1, StartDoes, Known DEF Recorded, LiveRecords, Generations
  <2> QED
    BY <1>0, <1>1, <2>1, StartDoes DEF Recorded, LiveRecords, shim
<1>2. ASSUME Stop PROVE LiveRecords'
  BY <1>0, <1>2, StopDoes DEF Recorded, LiveRecords, router, egl, shim
<1>3. ASSUME Joined PROVE LiveRecords'
  BY <1>0, <1>3, JoinedDoes DEF Recorded, LiveRecords, router, egl, shim
<1>4. ASSUME Sentinel PROVE LiveRecords'
  BY <1>0, <1>4, SentinelDoes DEF Recorded, LiveRecords, router, egl, shim
<1>5. ASSUME NEW t \in Threads, Create(t) PROVE LiveRecords'
  BY <1>0, <1>5, CreateDoes DEF Recorded, LiveRecords, Takes, router, shim
<1>6. ASSUME NEW t \in Threads, Discard(t) PROVE LiveRecords'
  BY <1>0, <1>6, DiscardDoes DEF LiveRecords, shim
<1>7. ASSUME NEW t \in Threads, SurfaceCreated(t) PROVE LiveRecords'
  <2>1. records' = records /\ live' = live /\ \A u \in Threads \ {t} : job'[u] = job[u]
    BY <1>7, SurfaceCreatedDoes DEF Takes, shim
  <2>2. ASSUME NEW r \in records
        PROVE  r.gen <= nextGeneration' /\ entry'[r.gen].reg # 0 /\ r.surf \in live
    BY <1>0, <2>2, RegKept, Known DEF Recorded, LiveRecords, Generations
  <2>3. ASSUME NEW r \in records, r.surf = job'[t].surf PROVE job'[t].at \in Claiming \cup {"idle"}
    <3>1. job[t].surf # r.surf
      BY <1>0, <1>7, SurfaceCreatedDoes DEF Recorded, LiveRecords, Claiming
    <3> QED
      BY <1>7, <2>3, <3>1, SurfaceCreatedDoes DEF Takes
  <2> QED
    BY <1>0, <2>1, <2>2, <2>3 DEF Recorded, LiveRecords
<1>8. ASSUME NEW t \in Threads, Tell(t) PROVE LiveRecords'
  BY <1>0, <1>8, TellDoes DEF Recorded, LiveRecords, Takes, Claiming, router, egl, shim
<1>9. ASSUME NEW t \in Threads, Confirm(t) PROVE LiveRecords'
  BY <1>0, <1>9, ConfirmDoes DEF Recorded, LiveRecords, Takes, Claiming, router, shim
<1>10. ASSUME NEW t \in Threads, Withdraw(t) PROVE LiveRecords'
  BY <1>0, <1>10, WithdrawDoes DEF Recorded, LiveRecords, Takes, shim
<1>11. ASSUME NEW t \in Threads, Store(t) PROVE LiveRecords'
  <2>1. PICK q \in Records : records' = {q} /\ q.surf = job[t].surf /\ q.gen = job[t].gen
    BY <1>11, StoreDoes
  <2>2. q.gen <= nextGeneration' /\ entry'[q.gen].reg # 0 /\ q.surf \in live'
    BY <1>0, <1>11, <2>1, StoreDoes DEF Calls, Called, Creating, Told, router, Owning, Claiming
  <2>3. ASSUME NEW u \in Threads, q.surf = job'[u].surf PROVE job'[u].at \in Claiming \cup {"idle"}
    <3>1. CASE u = t
      BY <1>11, <3>1, StoreDoes DEF Takes
    <3>2. CASE u # t
      <4>1. job'[u] = job[u] /\ job[u].surf = job[t].surf /\ job[t].at \in Creating
        BY <1>11, <2>1, <2>3, <3>2, StoreDoes DEF Takes, Creating
      <4> QED
        BY <1>0, <3>2, <4>1 DEF Recorded, Alone
    <3> QED
      BY <3>1, <3>2
  <2> QED
    BY <2>1, <2>2, <2>3 DEF LiveRecords
<1>12. ASSUME NEW t \in Threads, GuestSwap(t) PROVE LiveRecords'
  BY <1>0, <1>12, GuestSwapDoes, Known DEF Recorded, LiveRecords, Takes, Claiming, shim
<1>13. ASSUME NEW t \in Threads, Signal(t) PROVE LiveRecords'
  BY <1>0, <1>13, SignalDoes DEF Recorded, LiveRecords, Takes, Claiming, router, egl, shim
<1>14. ASSUME NEW t \in Threads, Accept(t) PROVE LiveRecords'
  BY <1>0, <1>14, AcceptDoes, Known DEF Recorded, LiveRecords, Takes, Claiming, shim
<1>15. ASSUME NEW t \in Threads, Reject(t) PROVE LiveRecords'
  BY <1>0, <1>15, RejectDoes, Known DEF Recorded, LiveRecords, Takes, Claiming, shim
<1>16. ASSUME NEW t \in Threads, FinishClaim(t) PROVE LiveRecords'
  BY <1>0, <1>16, FinishClaimDoes DEF Recorded, LiveRecords, Takes, router, shim
<1>17. ASSUME NEW t \in Threads, SurfaceDestroyed(t) PROVE LiveRecords'
  BY <1>0, <1>17, SurfaceDestroyedDoes DEF Recorded, LiveRecords, Takes, Claiming, shim
<1>18. ASSUME NEW t \in Threads, Untell(t) PROVE LiveRecords'
  BY <1>0, <1>18, UntellDoes DEF Recorded, LiveRecords, Takes, Claiming, router, egl, shim
<1>19. ASSUME NEW t \in Threads, HostDestroy(t) PROVE LiveRecords'
  BY <1>0, <1>19, HostDestroyDoes DEF Recorded, LiveRecords, Takes, Claiming, router, shim
<1>20. ASSUME NEW t \in Threads, NEW s \in Surfaces, Swap(t, s) PROVE LiveRecords'
  BY <1>0, <1>20, SwapDoes DEF Recorded, LiveRecords, Takes, Claiming, router, shim
<1>21. ASSUME NEW t \in Threads, NEW s \in Surfaces, Destroy(t, s) PROVE LiveRecords'
  BY <1>0, <1>21, DestroyDoes DEF Recorded, LiveRecords, Takes, router, shim
<1>22. ASSUME UNCHANGED vars PROVE LiveRecords'
  BY <1>0, <1>22 DEF Recorded, LiveRecords, router, shim, vars
<1> QED
  BY <1>1, <1>2, <1>3, <1>4, <1>5, <1>6, <1>7, <1>8, <1>9, <1>10, <1>11, <1>12, <1>13, <1>14,
     <1>15, <1>16, <1>17, <1>18, <1>19, <1>20, <1>21, <1>22 DEF Next, Step


LEMMA AloneKept ==
  ASSUME GuestInv, [Next]_vars
  PROVE  Alone'
<1>0. /\ RouterType /\ EglType /\ ShimType /\ job \in [Threads -> Jobs] /\ Reserved /\ Calls
      /\ Windows /\ Routes /\ Newest /\ Recorded /\ Claims /\ Answered /\ Created /\ Backed
  BY DEF GuestInv, Types, GuestTypeOK
<1>1. ASSUME Start PROVE Alone'
  BY <1>0, <1>1, StartDoes DEF Recorded, Alone
<1>2. ASSUME Stop PROVE Alone'
  BY <1>0, <1>2, StopDoes DEF Recorded, Alone
<1>3. ASSUME Joined PROVE Alone'
  BY <1>0, <1>3, JoinedDoes DEF Recorded, Alone
<1>4. ASSUME Sentinel PROVE Alone'
  BY <1>0, <1>4, SentinelDoes DEF Recorded, Alone
<1>5. ASSUME NEW t \in Threads, Create(t) PROVE Alone'
  BY <1>0, <1>5, CreateDoes DEF Recorded, Alone, Takes
<1>6. ASSUME NEW t \in Threads, Discard(t) PROVE Alone'
  BY <1>0, <1>6, DiscardDoes DEF Recorded, Alone, Takes, Creating, Destroying, shim
<1>7. ASSUME NEW t \in Threads, SurfaceCreated(t) PROVE Alone'
  BY <1>0, <1>7, SurfaceCreatedDoes, GuestSwapAssumption DEF Recorded, Alone, Takes, Creating, Destroying,
      Calls, Called, Claiming
<1>8. ASSUME NEW t \in Threads, Tell(t) PROVE Alone'
  BY <1>0, <1>8, TellDoes DEF Recorded, Alone, Takes, Creating, Destroying
<1>9. ASSUME NEW t \in Threads, Confirm(t) PROVE Alone'
  BY <1>0, <1>9, ConfirmDoes DEF Recorded, Alone, Takes, Creating, Destroying
<1>10. ASSUME NEW t \in Threads, Withdraw(t) PROVE Alone'
  BY <1>0, <1>10, WithdrawDoes, GuestSwapAssumption DEF Recorded, Alone, Takes, Creating, Destroying,
      Calls, Called, Claiming
<1>11. ASSUME NEW t \in Threads, Store(t) PROVE Alone'
  BY <1>0, <1>11, StoreDoes, GuestSwapAssumption DEF Recorded, Alone, Takes, Creating, Destroying, shim,
      Calls, Called, Claiming
<1>12. ASSUME NEW t \in Threads, GuestSwap(t) PROVE Alone'
  BY <1>0, <1>12, GuestSwapDoes DEF Recorded, Alone, Takes, Creating, Destroying
<1>13. ASSUME NEW t \in Threads, Signal(t) PROVE Alone'
  BY <1>0, <1>13, SignalDoes DEF Recorded, Alone, Takes, Creating, Destroying
<1>14. ASSUME NEW t \in Threads, Accept(t) PROVE Alone'
  BY <1>0, <1>14, AcceptDoes DEF Recorded, Alone, Takes, Creating, Destroying
<1>15. ASSUME NEW t \in Threads, Reject(t) PROVE Alone'
  BY <1>0, <1>15, RejectDoes DEF Recorded, Alone, Takes, Creating, Destroying
<1>16. ASSUME NEW t \in Threads, FinishClaim(t) PROVE Alone'
  BY <1>0, <1>16, FinishClaimDoes, GuestSwapAssumption DEF Recorded, Alone, Takes, Creating, Destroying,
      Calls, Called, Claiming
<1>17. ASSUME NEW t \in Threads, SurfaceDestroyed(t) PROVE Alone'
  BY <1>0, <1>17, SurfaceDestroyedDoes, GuestSwapAssumption DEF Recorded, Alone, Takes, Destroying,
      Calls, Called, Creating, Claiming
<1>18. ASSUME NEW t \in Threads, Untell(t) PROVE Alone'
  BY <1>0, <1>18, UntellDoes, GuestSwapAssumption DEF Recorded, Alone, Takes, Creating, Destroying,
      Calls, Called, Claiming
<1>19. ASSUME NEW t \in Threads, HostDestroy(t) PROVE Alone'
  BY <1>0, <1>19, HostDestroyDoes, GuestSwapAssumption DEF Recorded, Alone, Takes, Creating, Destroying,
      Calls, Called, Claiming
<1>20. ASSUME NEW t \in Threads, NEW s \in Surfaces, Swap(t, s) PROVE Alone'
  BY <1>0, <1>20, SwapDoes, Known DEF Recorded, LiveRecords, Alone, Takes, Creating, Destroying, shim,
      Calls, Called, Claiming
<1>21. ASSUME NEW t \in Threads, NEW s \in Surfaces, Destroy(t, s) PROVE Alone'
  BY <1>0, <1>21, DestroyDoes DEF Recorded, Alone, Takes, Claiming, Creating, Destroying
<1>22. ASSUME UNCHANGED vars PROVE Alone'
  BY <1>0, <1>22 DEF Recorded, Alone, vars
<1> QED
  BY <1>1, <1>2, <1>3, <1>4, <1>5, <1>6, <1>7, <1>8, <1>9, <1>10, <1>11, <1>12, <1>13, <1>14,
     <1>15, <1>16, <1>17, <1>18, <1>19, <1>20, <1>21, <1>22 DEF Next, Step

(* The claims stay one for each generation.                                *)
LEMMA OneClaimKept ==
  ASSUME GuestInv, [Next]_vars
  PROVE  OneClaim'
<1>0. /\ RouterType /\ EglType /\ ShimType /\ job \in [Threads -> Jobs] /\ Reserved /\ Calls
      /\ Windows /\ Routes /\ Newest /\ Recorded /\ Claims /\ Answered /\ Created /\ Backed
  BY DEF GuestInv, Types, GuestTypeOK
<1>1. ASSUME Start PROVE OneClaim'
  BY <1>0, <1>1, StartDoes, Known DEF Claims, OneClaim, router, egl, shim
<1>2. ASSUME Stop PROVE OneClaim'
  BY <1>0, <1>2, StopDoes, Known DEF Claims, OneClaim, router, egl, shim
<1>3. ASSUME Joined PROVE OneClaim'
  BY <1>0, <1>3, JoinedDoes DEF Claims, OneClaim, egl, shim
<1>4. ASSUME Sentinel PROVE OneClaim'
  BY <1>0, <1>4, SentinelDoes DEF Claims, OneClaim, egl, shim
<1>5. ASSUME NEW t \in Threads, Create(t) PROVE OneClaim'
  BY <1>0, <1>5, CreateDoes DEF Claims, OneClaim, Takes, Claiming, shim
<1>6. ASSUME NEW t \in Threads, Discard(t) PROVE OneClaim'
  BY <1>0, <1>6, DiscardDoes DEF Claims, OneClaim, Takes, Claiming, shim
<1>7. ASSUME NEW t \in Threads, SurfaceCreated(t) PROVE OneClaim'
  BY <1>0, <1>7, SurfaceCreatedDoes DEF Claims, OneClaim, Takes, Claiming, shim
<1>8. ASSUME NEW t \in Threads, Tell(t) PROVE OneClaim'
  BY <1>0, <1>8, TellDoes DEF Claims, OneClaim, Takes, Claiming, egl, shim
<1>9. ASSUME NEW t \in Threads, Confirm(t) PROVE OneClaim'
  BY <1>0, <1>9, ConfirmDoes DEF Claims, OneClaim, Takes, Claiming, shim
<1>10. ASSUME NEW t \in Threads, Withdraw(t) PROVE OneClaim'
  BY <1>0, <1>10, WithdrawDoes DEF Claims, OneClaim, Takes, Claiming, shim
<1>11. ASSUME NEW t \in Threads, Store(t) PROVE OneClaim'
  BY <1>0, <1>11, StoreDoes, Known DEF Claims, OneClaim, Takes, Told, Unshared, Generations,
     shim, Owning, Claiming
<1>12. ASSUME NEW t \in Threads, GuestSwap(t) PROVE OneClaim'
  BY <1>0, <1>12, GuestSwapDoes DEF Claims, OneClaim, Takes, Claiming, shim
<1>13. ASSUME NEW t \in Threads, Signal(t) PROVE OneClaim'
  BY <1>0, <1>13, SignalDoes DEF Claims, OneClaim, Takes, Claiming, egl, shim
<1>14. ASSUME NEW t \in Threads, Accept(t) PROVE OneClaim'
  BY <1>0, <1>14, AcceptDoes DEF Claims, OneClaim, Takes, Claiming, shim
<1>15. ASSUME NEW t \in Threads, Reject(t) PROVE OneClaim'
  BY <1>0, <1>15, RejectDoes DEF Claims, OneClaim, Takes, Claiming, shim
<1>16. ASSUME NEW t \in Threads, FinishClaim(t) PROVE OneClaim'
  BY <1>0, <1>16, FinishClaimDoes DEF Claims, OneClaim, Takes, Claiming, shim
<1>17. ASSUME NEW t \in Threads, SurfaceDestroyed(t) PROVE OneClaim'
  BY <1>0, <1>17, SurfaceDestroyedDoes DEF Claims, OneClaim, Takes, Claiming, shim
<1>18. ASSUME NEW t \in Threads, Untell(t) PROVE OneClaim'
  BY <1>0, <1>18, UntellDoes DEF Claims, OneClaim, Takes, Claiming, egl, shim
<1>19. ASSUME NEW t \in Threads, HostDestroy(t) PROVE OneClaim'
  BY <1>0, <1>19, HostDestroyDoes DEF Claims, OneClaim, Takes, Claiming, shim
<1>20. ASSUME NEW t \in Threads, NEW s \in Surfaces, Swap(t, s) PROVE OneClaim'
  BY <1>0, <1>20, SwapDoes DEF Claims, OneClaim, Takes, shim
<1>21. ASSUME NEW t \in Threads, NEW s \in Surfaces, Destroy(t, s) PROVE OneClaim'
  BY <1>0, <1>21, DestroyDoes DEF Claims, OneClaim, Takes, Claiming, shim
<1>22. ASSUME UNCHANGED vars PROVE OneClaim'
  BY <1>0, <1>22 DEF Claims, OneClaim, shim, vars
<1> QED
  BY <1>1, <1>2, <1>3, <1>4, <1>5, <1>6, <1>7, <1>8, <1>9, <1>10, <1>11, <1>12, <1>13, <1>14,
     <1>15, <1>16, <1>17, <1>18, <1>19, <1>20, <1>21, <1>22 DEF Next, Step


LEMMA UnsharedFrom ==
  ASSUME GuestInv, NEW t \in Threads, NEW step, NEW s, NEW g, Takes(t, step, s, g),
         \A q \in records' : \E r \in records : r.gen = q.gen,
         step \in Told => job[t].at \in Told /\ g = job[t].gen,
         step \in Owning \ Told => \/ job[t].at \in Owning /\ g = job[t].gen
                                   \/ \E r \in records : r.gen = g
  PROVE  Unshared'
<1>1. Unshared /\ Told \subseteq Owning
  BY DEF GuestInv, Claims, Owning
<1> SUFFICES ASSUME NEW v \in Threads, job'[v].at \in Told
             PROVE  /\ \A q \in records' : q.gen # job'[v].gen
                    /\ \A u \in Threads : job'[u].at \in Owning /\ job'[u].gen = job'[v].gen => u = v
  BY DEF Unshared
<1>2. job[v].at \in Told /\ job'[v].gen = job[v].gen
  BY DEF Takes
<1>3. \A r \in records : r.gen # job[v].gen
  BY <1>1, <1>2 DEF Unshared
<1>4. ASSUME NEW u \in Threads, job'[u].at \in Owning, job'[u].gen = job[v].gen PROVE u = v
  <2>1. CASE u = t
    BY <1>1, <1>2, <1>3, <1>4, <2>1 DEF Takes, Unshared
  <2>2. CASE u # t
    BY <1>1, <1>2, <1>4, <2>2 DEF Takes, Unshared
  <2> QED
    BY <2>1, <2>2
<1> QED
  BY <1>2, <1>3, <1>4

LEMMA UnsharedKept ==
  ASSUME GuestInv, [Next]_vars
  PROVE  Unshared'
<1>0. Unshared
  BY DEF GuestInv, Claims
<1>1. ASSUME Start PROVE Unshared'
  BY <1>0, <1>1, StartDoes DEF Unshared, shim
<1>2. ASSUME Stop PROVE Unshared'
  BY <1>0, <1>2, StopDoes DEF Unshared, shim
<1>3. ASSUME Joined PROVE Unshared'
  BY <1>0, <1>3, JoinedDoes DEF Unshared, shim
<1>4. ASSUME Sentinel PROVE Unshared'
  BY <1>0, <1>4, SentinelDoes DEF Unshared, shim
<1>5. ASSUME NEW t \in Threads, Create(t) PROVE Unshared'
  <2>1. CASE job' = job
    BY <1>0, <1>5, <2>1, CreateDoes DEF Unshared, shim
  <2>2. CASE job' # job
    BY <1>5, <2>2, CreateDoes, UnsharedFrom DEF Owning, Claiming, Told, shim
  <2> QED
    BY <2>1, <2>2
<1>6. ASSUME NEW t \in Threads, Discard(t) PROVE Unshared'
  BY <1>6, DiscardDoes, UnsharedFrom DEF Owning, Claiming, Told, egl, shim
<1>7. ASSUME NEW t \in Threads, SurfaceCreated(t) PROVE Unshared'
  <2>1. CASE window = 0
    BY <1>7, <2>1, SurfaceCreatedDoes, UnsharedFrom DEF Owning, Claiming, Told, shim
  <2>2. CASE window # 0
    <3>1. /\ nextGeneration' = nextGeneration + 1 /\ records' = records
          /\ job'[t].gen = nextGeneration' /\ \A v \in Threads \ {t} : job'[v] = job[v]
      BY <1>7, <2>2, SurfaceCreatedDoes DEF Takes, shim
    <3>2. \A r \in records : r.gen # nextGeneration'
      BY <3>1, Known DEF GuestInv, Recorded, LiveRecords, Generations
    <3>3. \A v \in Threads \ {t} : job[v].at \in Owning => job[v].gen # nextGeneration'
      BY <3>1, Known DEF Generations
    <3> QED
      BY <1>0, <3>1, <3>2, <3>3 DEF Unshared, Owning
  <2> QED
    BY <2>1, <2>2
<1>8. ASSUME NEW t \in Threads, Tell(t) PROVE Unshared'
  BY <1>8, TellDoes, UnsharedFrom DEF Owning, Claiming, Told, egl, shim
<1>9. ASSUME NEW t \in Threads, Confirm(t) PROVE Unshared'
  BY <1>9, ConfirmDoes, UnsharedFrom DEF Owning, Claiming, Told, egl, shim
<1>10. ASSUME NEW t \in Threads, Withdraw(t) PROVE Unshared'
  BY <1>10, WithdrawDoes, UnsharedFrom DEF Owning, Claiming, Told, egl, shim
<1>11. ASSUME NEW t \in Threads, Store(t) PROVE Unshared'
  <2>1. PICK q : records' = {q} /\ q.gen = job[t].gen
    BY <1>11, StoreDoes
  <2>2. /\ job[t].at \in Told /\ job'[t].at \notin Owning
        /\ \A v \in Threads \ {t} : job'[v] = job[v]
    BY <1>11, StoreDoes DEF Takes, Told, Owning, Claiming
  <2> QED
    BY <1>0, <2>1, <2>2 DEF Unshared, Owning
<1>12. ASSUME NEW t \in Threads, GuestSwap(t) PROVE Unshared'
  BY <1>12, GuestSwapDoes, UnsharedFrom DEF Owning, Claiming, Told, egl, shim
<1>13. ASSUME NEW t \in Threads, Signal(t) PROVE Unshared'
  BY <1>13, SignalDoes, UnsharedFrom DEF Owning, Claiming, Told, egl, shim
<1>14. ASSUME NEW t \in Threads, Accept(t) PROVE Unshared'
  BY <1>14, AcceptDoes, UnsharedFrom DEF Owning, Claiming, Told, egl, shim
<1>15. ASSUME NEW t \in Threads, Reject(t) PROVE Unshared'
  BY <1>15, RejectDoes, UnsharedFrom DEF Owning, Claiming, Told, egl, shim
<1>16. ASSUME NEW t \in Threads, FinishClaim(t) PROVE Unshared'
  BY <1>16, FinishClaimDoes, UnsharedFrom DEF Owning, Claiming, Told, shim
<1>17. ASSUME NEW t \in Threads, SurfaceDestroyed(t) PROVE Unshared'
  BY <1>17, SurfaceDestroyedDoes, UnsharedFrom DEF Owning, Claiming, Told, egl, shim
<1>18. ASSUME NEW t \in Threads, Untell(t) PROVE Unshared'
  BY <1>18, UntellDoes, UnsharedFrom DEF Owning, Claiming, Told, egl, shim
<1>19. ASSUME NEW t \in Threads, HostDestroy(t) PROVE Unshared'
  BY <1>19, HostDestroyDoes, UnsharedFrom DEF Owning, Claiming, Told, egl, shim
<1>20. ASSUME NEW t \in Threads, NEW s \in Surfaces, Swap(t, s) PROVE Unshared'
  BY <1>20, SwapDoes, UnsharedFrom DEF Owning, Claiming, Told, shim
<1>21. ASSUME NEW t \in Threads, NEW s \in Surfaces, Destroy(t, s) PROVE Unshared'
  BY <1>21, DestroyDoes, UnsharedFrom DEF Owning, Claiming, Told, shim
<1>22. ASSUME UNCHANGED vars PROVE Unshared'
  BY <1>0, <1>22 DEF Unshared, shim, vars
<1> QED
  BY <1>1, <1>2, <1>3, <1>4, <1>5, <1>6, <1>7, <1>8, <1>9, <1>10, <1>11, <1>12, <1>13, <1>14,
     <1>15, <1>16, <1>17, <1>18, <1>19, <1>20, <1>21, <1>22 DEF Next, Step

(* Who has been answered belongs to a sentinel that has retired.           *)
LEMMA AnsweredEntriesKept ==
  ASSUME GuestInv, [Next]_vars
  PROVE  AnsweredEntries'
<1>0. /\ RouterType /\ EglType /\ ShimType /\ job \in [Threads -> Jobs] /\ Reserved /\ Calls
      /\ Windows /\ Routes /\ Newest /\ Recorded /\ Claims /\ Answered /\ Created /\ Backed
  BY DEF GuestInv, Types, GuestTypeOK
<1>1. ASSUME Start PROVE AnsweredEntries'
  BY <1>0, <1>1, StartDoes, RegKept DEF Answered, AnsweredEntries, RouterType
<1>2. ASSUME Stop PROVE AnsweredEntries'
  BY <1>0, <1>2, StopDoes DEF Answered, AnsweredEntries
<1>3. ASSUME Joined PROVE AnsweredEntries'
  BY <1>0, <1>3, JoinedDoes DEF AnsweredEntries, RouterType, router
<1>4. ASSUME Sentinel PROVE AnsweredEntries'
  BY <1>0, <1>4, SentinelDoes DEF Answered, AnsweredEntries, router
<1>5. ASSUME NEW t \in Threads, Create(t) PROVE AnsweredEntries'
  BY <1>0, <1>5, CreateDoes DEF Answered, AnsweredEntries, router, egl
<1>6. ASSUME NEW t \in Threads, Discard(t) PROVE AnsweredEntries'
  BY <1>0, <1>6, DiscardDoes DEF Answered, AnsweredEntries, router, egl, shim
<1>7. ASSUME NEW t \in Threads, SurfaceCreated(t) PROVE AnsweredEntries'
  <2>1. CASE window = 0
    BY <1>0, <1>7, <2>1, SurfaceCreatedDoes DEF Answered, AnsweredEntries, router, egl
  <2>2. CASE window # 0
    <3>1. ASSUME NEW g \in 1 .. nextGeneration', swap # 0, entry'[g].reg = swap
          PROVE  entry'[g].pending \/ sentinel.retired
      <4>1. CASE g = nextGeneration'
        BY <1>0, <1>7, <2>2, <3>1, <4>1, SurfaceCreatedDoes DEF Answered, AnsweredEntries
      <4>2. CASE g # nextGeneration'
        <5>1. g \in 1 .. nextGeneration /\ g \in Generations
          BY <1>7, <2>2, <4>2, SurfaceCreatedDoes, Known
        <5> QED
          BY <1>0, <1>7, <2>2, <3>1, <4>2, <5>1, SurfaceCreatedDoes DEF Answered, AnsweredEntries
      <4> QED
        BY <4>1, <4>2
    <3> QED
      BY <1>0, <1>7, <2>2, <3>1, SurfaceCreatedDoes DEF Answered, AnsweredEntries, egl
  <2> QED
    BY <2>1, <2>2
<1>8. ASSUME NEW t \in Threads, Tell(t) PROVE AnsweredEntries'
  BY <1>0, <1>8, TellDoes DEF Answered, AnsweredEntries, router
<1>9. ASSUME NEW t \in Threads, Confirm(t) PROVE AnsweredEntries'
  BY <1>0, <1>9, ConfirmDoes DEF Answered, AnsweredEntries, router, egl
<1>10. ASSUME NEW t \in Threads, Withdraw(t) PROVE AnsweredEntries'
  BY <1>0, <1>10, WithdrawDoes DEF Answered, AnsweredEntries, egl
<1>11. ASSUME NEW t \in Threads, Store(t) PROVE AnsweredEntries'
  BY <1>0, <1>11, StoreDoes DEF Answered, AnsweredEntries, router, egl, shim
<1>12. ASSUME NEW t \in Threads, GuestSwap(t) PROVE AnsweredEntries'
  BY <1>0, <1>12, GuestSwapDoes, RegKept DEF Answered, AnsweredEntries, egl
<1>13. ASSUME NEW t \in Threads, Signal(t) PROVE AnsweredEntries'
  BY <1>0, <1>13, SignalDoes DEF Answered, AnsweredEntries, router
<1>14. ASSUME NEW t \in Threads, Accept(t) PROVE AnsweredEntries'
  <2>1. /\ entry[job[t].gen].reg # 0
        /\ swap = entry[job[t].gen].reg => sentinel.retired
    BY <1>0, <1>14, AcceptDoes, Known DEF Answered, AnsweredRecords, Claiming, Owning, Told
  <2>2. swap' \in accepted' => sentinel'.retired
    BY <1>0, <1>14, <2>1, AcceptDoes DEF Answered, AnsweredEntries, egl
  <2>3. ASSUME NEW g \in 1 .. nextGeneration', swap # 0, entry'[g].reg = swap
        PROVE  entry'[g].pending \/ sentinel.retired
    BY <1>0, <1>14, <2>1, <2>3, AcceptDoes, Known DEF Answered, AnsweredEntries
  <2> QED
    BY <1>14, <2>2, <2>3, AcceptDoes DEF AnsweredEntries, egl
<1>15. ASSUME NEW t \in Threads, Reject(t) PROVE AnsweredEntries'
  BY <1>0, <1>15, RejectDoes, RegKept DEF Answered, AnsweredEntries, egl
<1>16. ASSUME NEW t \in Threads, FinishClaim(t) PROVE AnsweredEntries'
  BY <1>0, <1>16, FinishClaimDoes DEF Answered, AnsweredEntries, router, egl
<1>17. ASSUME NEW t \in Threads, SurfaceDestroyed(t) PROVE AnsweredEntries'
  BY <1>0, <1>17, SurfaceDestroyedDoes DEF Answered, AnsweredEntries, egl
<1>18. ASSUME NEW t \in Threads, Untell(t) PROVE AnsweredEntries'
  BY <1>0, <1>18, UntellDoes DEF Answered, AnsweredEntries, router
<1>19. ASSUME NEW t \in Threads, HostDestroy(t) PROVE AnsweredEntries'
  BY <1>0, <1>19, HostDestroyDoes DEF Answered, AnsweredEntries, router, egl
<1>20. ASSUME NEW t \in Threads, NEW s \in Surfaces, Swap(t, s) PROVE AnsweredEntries'
  BY <1>0, <1>20, SwapDoes DEF Answered, AnsweredEntries, router, egl, shim
<1>21. ASSUME NEW t \in Threads, NEW s \in Surfaces, Destroy(t, s) PROVE AnsweredEntries'
  BY <1>0, <1>21, DestroyDoes DEF Answered, AnsweredEntries, router, egl
<1>22. ASSUME UNCHANGED vars PROVE AnsweredEntries'
  BY <1>0, <1>22 DEF Answered, AnsweredEntries, router, egl, vars
<1> QED
  BY <1>1, <1>2, <1>3, <1>4, <1>5, <1>6, <1>7, <1>8, <1>9, <1>10, <1>11, <1>12, <1>13, <1>14,
     <1>15, <1>16, <1>17, <1>18, <1>19, <1>20, <1>21, <1>22 DEF Next, Step


LEMMA AnsweredRecordsKept ==
  ASSUME GuestInv, [Next]_vars
  PROVE  AnsweredRecords'
<1>0. /\ RouterType /\ EglType /\ ShimType /\ job \in [Threads -> Jobs] /\ Reserved /\ Calls
      /\ Windows /\ Routes /\ Newest /\ Recorded /\ Claims /\ Answered /\ Created /\ Backed
  BY DEF GuestInv, Types, GuestTypeOK
<1>1. ASSUME Start PROVE AnsweredRecords'
  BY <1>0, <1>1, StartDoes, Known DEF AnsweredRecords, RouterType, Claiming, router, egl, shim,
      Owning, Told
<1>2. ASSUME Stop PROVE AnsweredRecords'
  BY <1>0, <1>2, StopDoes DEF Answered, AnsweredRecords, router, egl, shim
<1>3. ASSUME Joined PROVE AnsweredRecords'
  BY <1>3, JoinedDoes DEF AnsweredRecords
<1>4. ASSUME Sentinel PROVE AnsweredRecords'
  BY <1>0, <1>4, SentinelDoes DEF Answered, AnsweredRecords, router, egl, shim
<1>5. ASSUME NEW t \in Threads, Create(t) PROVE AnsweredRecords'
  BY <1>0, <1>5, CreateDoes DEF Answered, AnsweredRecords, Takes, router, egl, shim
<1>6. ASSUME NEW t \in Threads, Discard(t) PROVE AnsweredRecords'
  BY <1>0, <1>6, DiscardDoes DEF Answered, AnsweredRecords, Takes, router, egl, shim
<1>7. ASSUME NEW t \in Threads, SurfaceCreated(t) PROVE AnsweredRecords'
  <2>1. records' = records /\ swap' = swap /\ sentinel' = sentinel
    BY <1>7, SurfaceCreatedDoes DEF shim, egl
  <2>3. ASSUME NEW r \in records, r.state = "complete", swap # 0, entry'[r.gen].reg = swap
        PROVE  sentinel.retired
    <3>1. r.gen \in 1 .. nextGeneration /\ entry[r.gen].reg # 0
      BY <1>0, Known DEF Recorded, LiveRecords, Generations
    <3> QED
      BY <1>0, <2>3, <3>1, RegKept DEF Answered, AnsweredRecords
  <2>2. ASSUME NEW u \in Threads, job'[u].at \in {"accept", "complete"},
               swap # 0, entry'[job'[u].gen].reg = swap
        PROVE  sentinel.retired
    <3>1. u # t /\ job'[u] = job[u]
      BY <1>7, <2>2, SurfaceCreatedDoes DEF Takes
    <3>2. job[u].gen \in 1 .. nextGeneration /\ entry[job[u].gen].reg # 0
      BY <2>2, <3>1, Known DEF Owning, Claiming, Generations
    <3> QED
      BY <1>0, <2>2, <3>1, <3>2, RegKept DEF Answered, AnsweredRecords
  <2> QED
    BY <2>1, <2>2, <2>3 DEF AnsweredRecords
<1>8. ASSUME NEW t \in Threads, Tell(t) PROVE AnsweredRecords'
  BY <1>0, <1>8, TellDoes DEF Answered, AnsweredRecords, Takes, router, egl, shim
<1>9. ASSUME NEW t \in Threads, Confirm(t) PROVE AnsweredRecords'
  BY <1>0, <1>9, ConfirmDoes DEF Answered, AnsweredRecords, Takes, router, egl, shim
<1>10. ASSUME NEW t \in Threads, Withdraw(t) PROVE AnsweredRecords'
  BY <1>0, <1>10, WithdrawDoes DEF Answered, AnsweredRecords, Takes, router, egl, shim
<1>11. ASSUME NEW t \in Threads, Store(t) PROVE AnsweredRecords'
  BY <1>0, <1>11, StoreDoes DEF Answered, AnsweredRecords, Takes, router, egl, shim
<1>12. ASSUME NEW t \in Threads, GuestSwap(t) PROVE AnsweredRecords'
  <2>1. /\ UNCHANGED <<nextGeneration, swap, sentinel, records>>
        /\ \A h \in Generations : entry'[h].reg = entry[h].reg
        /\ \A u \in Threads \ {t} : job'[u] = job[u]
        /\ job'[t].gen = job[t].gen /\ job[t].gen \in 1 .. nextGeneration
    BY <1>12, GuestSwapDoes DEF Takes, egl, shim, Generations
  <2>2. job'[t].at \in {"accept", "complete"} =>
           /\ window = entry[job[t].gen].reg
           /\ window \in accepted \/ ~entry[job[t].gen].pending
    BY <1>12, GuestSwapDoes DEF Takes
  <2>3. ASSUME job'[t].at \in {"accept", "complete"}, swap # 0, entry[job[t].gen].reg = swap
        PROVE  sentinel.retired
    BY <1>0, <2>1, <2>2, <2>3 DEF Answered, AnsweredEntries
  <2>4. ASSUME NEW u \in Threads, job'[u].at \in {"accept", "complete"},
               swap # 0, entry'[job'[u].gen].reg = swap
        PROVE  sentinel.retired
    <3>1. CASE u = t
      BY <2>1, <2>3, <2>4, <3>1, Known
    <3>2. CASE u # t
      <4>1. job[u].gen \in Generations
        BY <2>1, <2>4, Known DEF Claiming, Owning
      <4> QED
        BY <1>0, <2>1, <2>4, <3>2, <4>1 DEF Answered, AnsweredRecords
    <3> QED
      BY <3>1, <3>2
  <2>5. ASSUME NEW r \in records, r.state = "complete", swap # 0, entry'[r.gen].reg = swap
        PROVE  sentinel.retired
    BY <1>0, <2>1, <2>5, Known DEF Answered, AnsweredRecords
  <2> QED
    BY <2>1, <2>4, <2>5 DEF AnsweredRecords
<1>13. ASSUME NEW t \in Threads, Signal(t) PROVE AnsweredRecords'
  BY <1>0, <1>13, SignalDoes DEF Answered, AnsweredRecords, Takes, router, egl, shim
<1>14. ASSUME NEW t \in Threads, Accept(t) PROVE AnsweredRecords'
  BY <1>0, <1>14, AcceptDoes, Known DEF Answered, AnsweredRecords, Takes, Claiming, router, egl,
     shim, Owning, Told
<1>15. ASSUME NEW t \in Threads, Reject(t) PROVE AnsweredRecords'
  BY <1>0, <1>15, RejectDoes, Known DEF Answered, AnsweredRecords, Takes, Claiming, router, egl,
     shim, Owning, Told
<1>16. ASSUME NEW t \in Threads, FinishClaim(t) PROVE AnsweredRecords'
  BY <1>0, <1>16, FinishClaimDoes DEF Answered, AnsweredRecords, Takes, router, egl, shim
<1>17. ASSUME NEW t \in Threads, SurfaceDestroyed(t) PROVE AnsweredRecords'
  BY <1>0, <1>17, SurfaceDestroyedDoes DEF Answered, AnsweredRecords, Takes, router, egl, shim
<1>18. ASSUME NEW t \in Threads, Untell(t) PROVE AnsweredRecords'
  BY <1>0, <1>18, UntellDoes DEF Answered, AnsweredRecords, Takes, router, egl, shim
<1>19. ASSUME NEW t \in Threads, HostDestroy(t) PROVE AnsweredRecords'
  BY <1>0, <1>19, HostDestroyDoes DEF Answered, AnsweredRecords, Takes, router, egl, shim
<1>20. ASSUME NEW t \in Threads, NEW s \in Surfaces, Swap(t, s) PROVE AnsweredRecords'
  BY <1>0, <1>20, SwapDoes DEF Answered, AnsweredRecords, Takes, router, egl, shim
<1>21. ASSUME NEW t \in Threads, NEW s \in Surfaces, Destroy(t, s) PROVE AnsweredRecords'
  BY <1>0, <1>21, DestroyDoes DEF Answered, AnsweredRecords, Takes, router, egl, shim
<1>22. ASSUME UNCHANGED vars PROVE AnsweredRecords'
  BY <1>0, <1>22 DEF Answered, AnsweredRecords, router, egl, shim, vars
<1> QED
  BY <1>1, <1>2, <1>3, <1>4, <1>5, <1>6, <1>7, <1>8, <1>9, <1>10, <1>11, <1>12, <1>13, <1>14,
     <1>15, <1>16, <1>17, <1>18, <1>19, <1>20, <1>21, <1>22 DEF Next, Step

(* A surface under creation is not presented, and not known before told.   *)
LEMMA CreatedKept ==
  ASSUME GuestInv, [Next]_vars
  PROVE  Created'
<1>0. Created /\ Unshared
  BY DEF GuestInv, Claims
<1>1. ASSUME Start PROVE Created'
  BY <1>0, <1>1, StartDoes DEF Created, Takes, Told, router, egl, shim
<1>2. ASSUME Stop PROVE Created'
  <2>1. \A u \in Threads : job[u].at \in Told => job[u].gen # 0
    BY Known DEF Owning, Generations
  <2> QED
    BY <1>0, <1>2, <2>1, StopDoes DEF Created, Takes, Told, router
<1>3. ASSUME Joined PROVE Created'
  BY <1>0, <1>3, JoinedDoes DEF Created, Takes, Told, router, egl, shim
<1>4. ASSUME Sentinel PROVE Created'
  BY <1>0, <1>4, SentinelDoes DEF Created, Takes, Told, router, egl, shim
<1>5. ASSUME NEW t \in Threads, Create(t) PROVE Created'
  BY <1>0, <1>5, CreateDoes DEF Created, Takes, Told, router, egl, shim
<1>6. ASSUME NEW t \in Threads, Discard(t) PROVE Created'
  BY <1>0, <1>6, DiscardDoes DEF Created, Takes, Told, router, egl, shim
<1>7. ASSUME NEW t \in Threads, SurfaceCreated(t) PROVE Created'
  <2>1. CASE window = 0
    BY <1>0, <1>7, <2>1, SurfaceCreatedDoes DEF Created, Takes, Told, router, egl
  <2>2. CASE window # 0
    <3>1. /\ guest' = guest /\ job'[t].gen = nextGeneration'
          /\ \A u \in Threads \ {t} : job'[u] = job[u]
          /\ ~entry'[nextGeneration'].inFlight /\ nextGeneration' = nextGeneration + 1
          /\ \A g \in Generations \ {nextGeneration'} : entry'[g] = entry[g]
      BY <1>7, <2>2, SurfaceCreatedDoes DEF Takes, egl
    <3>2. \A u \in Threads : job[u].at \in Told => job[u].gen \in Generations \ {nextGeneration'}
      BY <3>1, Known DEF Owning
    <3>3. guest # nextGeneration'
      BY <3>1, Known
    <3> QED
      BY <1>0, <3>1, <3>2, <3>3 DEF Created, Told
  <2> QED
    BY <2>1, <2>2
<1>8. ASSUME NEW t \in Threads, Tell(t) PROVE Created'
  <2>1. \A u \in Threads \ {t} : job[u].at \in Told => job[u].gen # job[t].gen
    BY <1>0, <1>8, TellDoes DEF Unshared, Owning, Told
  <2> QED
    BY <1>0, <1>8, <2>1, TellDoes DEF Created, Takes, Told, router
<1>9. ASSUME NEW t \in Threads, Confirm(t) PROVE Created'
  BY <1>0, <1>9, ConfirmDoes DEF Created, Takes, Told, router, egl, shim
<1>10. ASSUME NEW t \in Threads, Withdraw(t) PROVE Created'
  BY <1>0, <1>10, WithdrawDoes DEF Created, Takes, Told, router, egl, shim
<1>11. ASSUME NEW t \in Threads, Store(t) PROVE Created'
  BY <1>0, <1>11, StoreDoes DEF Created, Takes, Told, router, egl, shim
<1>12. ASSUME NEW t \in Threads, GuestSwap(t) PROVE Created'
  <2>1. \A u \in Threads \ {t} : job[u].at \in Told =>
           job[u].gen \in Generations /\ job[u].gen # job[t].gen
    BY <1>0, <1>12, GuestSwapDoes, Known DEF Unshared, Owning, Claiming
  <2> QED
    BY <1>0, <1>12, <2>1, GuestSwapDoes DEF Created, Takes, Told, egl
<1>13. ASSUME NEW t \in Threads, Signal(t) PROVE Created'
  BY <1>0, <1>13, SignalDoes DEF Created, Takes, Told, router, egl, shim
<1>14. ASSUME NEW t \in Threads, Accept(t) PROVE Created'
  <2>1. \A u \in Threads \ {t} : job[u].at \in Told =>
           job[u].gen \in Generations /\ job[u].gen # job[t].gen
    BY <1>0, <1>14, AcceptDoes, Known DEF Unshared, Owning, Claiming
  <2> QED
    BY <1>0, <1>14, <2>1, AcceptDoes DEF Created, Takes, Told, egl
<1>15. ASSUME NEW t \in Threads, Reject(t) PROVE Created'
  <2>1. \A u \in Threads : job[u].at \in Told => job[u].gen \in Generations
    BY Known DEF Owning
  <2> QED
    BY <1>0, <1>15, <2>1, RejectDoes DEF Created, Takes, Told, egl
<1>16. ASSUME NEW t \in Threads, FinishClaim(t) PROVE Created'
  BY <1>0, <1>16, FinishClaimDoes DEF Created, Takes, Told, router, egl, shim
<1>17. ASSUME NEW t \in Threads, SurfaceDestroyed(t) PROVE Created'
  BY <1>0, <1>17, SurfaceDestroyedDoes DEF Created, Takes, Told, router, egl, shim
<1>18. ASSUME NEW t \in Threads, Untell(t) PROVE Created'
  <2>1. \A u \in Threads : job[u].at \in Told => job[u].gen # 0
    BY Known DEF Owning, Generations
  <2> QED
    BY <1>0, <1>18, <2>1, UntellDoes DEF Created, Takes, Told, router
<1>19. ASSUME NEW t \in Threads, HostDestroy(t) PROVE Created'
  BY <1>0, <1>19, HostDestroyDoes DEF Created, Takes, Told, router, egl, shim
<1>20. ASSUME NEW t \in Threads, NEW s \in Surfaces, Swap(t, s) PROVE Created'
  BY <1>0, <1>20, SwapDoes DEF Created, Takes, Told, router, egl, shim
<1>21. ASSUME NEW t \in Threads, NEW s \in Surfaces, Destroy(t, s) PROVE Created'
  BY <1>0, <1>21, DestroyDoes DEF Created, Takes, Told, router, egl, shim
<1>22. ASSUME UNCHANGED vars PROVE Created'
  BY <1>0, <1>22 DEF Created, router, egl, vars
<1> QED
  BY <1>1, <1>2, <1>3, <1>4, <1>5, <1>6, <1>7, <1>8, <1>9, <1>10, <1>11, <1>12, <1>13, <1>14,
     <1>15, <1>16, <1>17, <1>18, <1>19, <1>20, <1>21, <1>22 DEF Next, Step

(* What it means that the sentinel waits.                                  *)
LEMMA AwaitsMeans ==
  ASSUME GuestInv, Awaits
  PROVE  /\ guest \in Generations /\ guest \in 1 .. nextGeneration
         /\ swap # 0 /\ window = swap /\ ~stopping /\ entry[guest].reg = swap
         /\ swap \notin accepted /\ entry[guest].pending
         /\ ~sentinel.retired
<1>1. guest # 0 /\ entry[guest].reg = swap /\ swap # 0 /\ ~sentinel.retired
  BY DEF GuestInv, Routes, Awaits
<1>2. ~stopping /\ window = swap
  BY <1>1 DEF GuestInv, Windows
<1>3. guest \in Generations /\ guest \in 1 .. nextGeneration
  BY <1>1, Known
<1> QED
  BY <1>1, <1>2, <1>3 DEF GuestInv, Answered, AnsweredEntries

(* A step that takes away neither offers nor leavers keeps it.             *)
LEMMA BackedFrom ==
  ASSUME GuestInv, Awaits, guest \notin crossed,
         \A r \in records : Offers(r) => Backs',
         \A u \in Threads : Leaves(u) \/ Brings(u) => Backs'
  PROVE  Backs'
BY DEF GuestInv, Backed, Backs

(* A thread goes on leaving or bringing while others step.                 *)
LEMMA OthersStay ==
  ASSUME NEW u \in Threads, job'[u] = job[u], guest' = guest,
         route'[job[u].surf] = route[job[u].surf], Leaves(u) \/ Brings(u)
  PROVE  Backs'
BY DEF Leaves, Brings, Backs

(* A surface that the sentinel waits for stays backed.                      *)
LEMMA BackedKept ==
  ASSUME GuestInv, [Next]_vars
  PROVE  Backed'
<1>0. /\ RouterType /\ EglType /\ ShimType /\ job \in [Threads -> Jobs] /\ Reserved /\ Calls
      /\ Windows /\ Routes /\ Newest /\ Recorded /\ Claims /\ Answered /\ Created /\ Backed
  BY DEF GuestInv, Types, GuestTypeOK
<1>1. ASSUME Start PROVE Backed'
  BY <1>1, StartDoes DEF Backed, Awaits
<1>2. ASSUME Stop PROVE Backed'
  BY <1>2, StopDoes DEF Backed, Awaits, Active
<1>3. ASSUME Joined PROVE Backed'
  BY <1>3, JoinedDoes DEF Backed, Awaits
<1>4. ASSUME Sentinel PROVE Backed'
  <2> SUFFICES ASSUME Awaits', guest' \notin crossed' PROVE Backs'
    BY DEF Backed
  <2>1. Awaits /\ guest \notin crossed
    BY <1>4, SentinelDoes DEF Awaits, Active
  <2> QED
    BY <1>0, <1>4, <2>1, SentinelDoes DEF Backed, Backs, Offers, Leaves, Brings, CanSignal,
       router, shim
<1>5. ASSUME NEW t \in Threads, Create(t) PROVE Backed'
  <2> SUFFICES ASSUME Awaits', guest' \notin crossed' PROVE Backs'
    BY DEF Backed
  <2>1. Awaits /\ guest \notin crossed
    BY <1>5, CreateDoes DEF Awaits, Active, router, egl
  <2>2. /\ UNCHANGED <<route, entry, records, guest>> /\ \A u \in Threads \ {t} : job'[u] = job[u]
        /\ job[t].at = "idle"
    BY <1>5, CreateDoes DEF Takes, router, egl, shim
  <2>8. ASSUME NEW r \in records, Offers(r) PROVE Backs'
    <3>1. ASSUME NEW u \in Threads, CanSignal(u, r) PROVE CanSignal(u, r)'
      BY <2>2, <3>1 DEF CanSignal
    <3> QED
      BY <2>2, <2>8, <3>1 DEF Offers, Backs
  <2>9. ASSUME NEW u \in Threads, Leaves(u) \/ Brings(u) PROVE Backs'
    <3>1. u # t
      BY <2>2, <2>9 DEF Leaves, Brings, Claiming
    <3> QED
      BY <2>2, <2>9, <3>1, OthersStay
  <2> QED
    BY <2>1, <2>8, <2>9, BackedFrom
<1>6. ASSUME NEW t \in Threads, Discard(t) PROVE Backed'
  <2>1. Brings(t)'
    BY <1>6, DiscardDoes DEF Brings, Takes
  <2> QED
    BY <2>1 DEF Backed, Backs
<1>7. ASSUME NEW t \in Threads, SurfaceCreated(t) PROVE Backed'
  <2>1. CASE window = 0
    BY <1>7, <2>1, SurfaceCreatedDoes, AwaitsMeans DEF Backed, Awaits, Active, egl
  <2>2. CASE window # 0
    <3>1. /\ Takes(t, "tell", job[t].surf, nextGeneration')
          /\ route'[job[t].surf] = nextGeneration' /\ nextGeneration' = nextGeneration + 1
          /\ guest' = guest
      BY <1>7, <2>2, SurfaceCreatedDoes DEF egl
    <3>2. guest' <= nextGeneration'
      BY <3>1, Known
    <3>3. Brings(t)'
      BY <3>1, <3>2 DEF Brings, Takes
    <3> QED
      BY <3>3 DEF Backed, Backs
  <2> QED
    BY <2>1, <2>2
<1>8. ASSUME NEW t \in Threads, Tell(t) PROVE Backed'
  <2> SUFFICES ASSUME Awaits', guest' \notin crossed' PROVE Backs'
    BY DEF Backed
  <2>1. CASE Takes(t, "confirm", job[t].surf, job[t].gen) /\ guest' = job[t].gen
    <3>1. Brings(t)'
      BY <2>1 DEF Brings, Takes
    <3> QED
      BY <3>1 DEF Backs
  <2>2. CASE ~(Takes(t, "confirm", job[t].surf, job[t].gen) /\ guest' = job[t].gen)
    <3>1. /\ ~(swap # 0 /\ swap = entry[job[t].gen].reg /\ guest <= job[t].gen /\ Active)
          /\ guest' = guest /\ sentinel' = sentinel /\ job[t].at = "tell"
          /\ UNCHANGED <<route, entry, records, swap, crossed>>
          /\ \A u \in Threads \ {t} : job'[u] = job[u]
      BY <1>8, <2>2, TellDoes DEF Takes, router, shim
    <3>2. Awaits /\ guest \notin crossed
      BY <3>1 DEF Awaits, Active
    <3>3. ~Brings(t) /\ ~Leaves(t)
      <4>1. ASSUME route[job[t].surf] = job[t].gen, guest <= job[t].gen PROVE FALSE
        <5>1. job[t].surf \in Surfaces /\ job[t].gen # 0
          BY <1>0, <3>1, Known DEF Calls, Called, Owning, Told, Generations
        <5>2. entry[job[t].gen].reg = swap
          BY <1>0, <3>2, <4>1, <5>1, AwaitsMeans DEF Routes
        <5> QED
          BY <3>1, <3>2, <4>1, <5>2 DEF Awaits
      <4> QED
        BY <3>1, <4>1 DEF Brings, Leaves
    <3>8. ASSUME NEW r \in records, Offers(r) PROVE Backs'
      <4>1. ASSUME NEW u \in Threads, CanSignal(u, r) PROVE CanSignal(u, r)'
        BY <3>1, <4>1 DEF CanSignal
      <4> QED
        BY <3>1, <3>8, <4>1 DEF Offers, Backs
    <3>9. ASSUME NEW u \in Threads, Leaves(u) \/ Brings(u) PROVE Backs'
      BY <3>1, <3>3, <3>9, OthersStay
    <3> QED
      BY <3>2, <3>8, <3>9, BackedFrom
  <2> QED
    BY <2>1, <2>2
<1>9. ASSUME NEW t \in Threads, Confirm(t) PROVE Backed'
  <2> SUFFICES ASSUME Awaits', guest' \notin crossed' PROVE Backs'
    BY DEF Backed
  <2>1. Awaits /\ guest \notin crossed
    BY <1>9, ConfirmDoes DEF Awaits, Active, egl
  <2>2. /\ UNCHANGED <<route, entry, records, guest>> /\ \A u \in Threads \ {t} : job'[u] = job[u]
        /\ job[t].at = "confirm" /\ job'[t].surf = job[t].surf /\ job'[t].gen = job[t].gen
        /\ \/ job'[t].at = "store" /\ route[job[t].surf] = job[t].gen
           \/ job'[t].at = "rollback"
    BY <1>9, ConfirmDoes DEF Takes, router, egl, shim
  <2>8. ASSUME NEW r \in records, Offers(r) PROVE Backs'
    <3>1. ASSUME NEW u \in Threads, CanSignal(u, r) PROVE CanSignal(u, r)'
      BY <2>2, <3>1 DEF CanSignal
    <3> QED
      BY <2>2, <2>8, <3>1 DEF Offers, Backs
  <2>9. ASSUME NEW u \in Threads, Leaves(u) \/ Brings(u) PROVE Backs'
    <3>1. CASE u = t
      <4>1. job[t].gen = guest
        BY <2>2, <2>9, <3>1 DEF Leaves, Brings
      <4>2. Brings(t)'
        BY <2>2, <4>1 DEF Brings
      <4> QED
        BY <4>2 DEF Backs
    <3>2. CASE u # t
      BY <2>2, <2>9, <3>2, OthersStay
    <3> QED
      BY <3>1, <3>2
  <2> QED
    BY <2>1, <2>8, <2>9, BackedFrom
<1>10. ASSUME NEW t \in Threads, Withdraw(t) PROVE Backed'
  <2> SUFFICES ASSUME Awaits', guest' \notin crossed' PROVE Backs'
    BY DEF Backed
  <2>1. Awaits /\ guest \notin crossed
    BY <1>10, WithdrawDoes DEF Awaits, Active, egl
  <2>2. /\ UNCHANGED <<entry, records, guest>> /\ \A u \in Threads \ {t} : job'[u] = job[u]
        /\ job[t].at = "withdraw" /\ guest # job[t].gen
        /\ \A s \in Surfaces : route[s] = guest \/ s # job[t].surf => route'[s] = route[s]
    BY <1>0, <1>10, WithdrawDoes DEF Takes, Created, egl, shim
  <2>8. ASSUME NEW r \in records, Offers(r) PROVE Backs'
    <3>1. ASSUME NEW u \in Threads, CanSignal(u, r) PROVE CanSignal(u, r)'
      BY <2>2, <3>1 DEF CanSignal
    <3>2. r.surf \in Surfaces /\ route[r.surf] = guest
      BY <2>8, Known DEF Offers
    <3> QED
      BY <2>2, <2>8, <3>1, <3>2 DEF Offers, Backs
  <2>9. ASSUME NEW u \in Threads, Leaves(u) \/ Brings(u) PROVE Backs'
    <3>1. u # t /\ job[u].at \in Creating \cup Destroying
      BY <2>2, <2>9 DEF Leaves, Brings, Creating, Destroying
    <3>2. job[u].surf # job[t].surf /\ job[u].surf \in Surfaces
      BY <1>0, <2>2, <3>1 DEF Recorded, Alone, Creating, Destroying, Calls, Called
    <3> QED
      BY <2>2, <2>9, <3>1, <3>2, OthersStay
  <2> QED
    BY <2>1, <2>8, <2>9, BackedFrom
<1>11. ASSUME NEW t \in Threads, Store(t) PROVE Backed'
  <2> SUFFICES ASSUME Awaits', guest' \notin crossed' PROVE Backs'
    BY DEF Backed
  <2>1. Awaits /\ guest \notin crossed
    BY <1>11, StoreDoes DEF Awaits, Active, egl
  <2>2. /\ UNCHANGED <<route, entry, guest>> /\ \A u \in Threads \ {t} : job'[u] = job[u]
        /\ job[t].at = "store"
    BY <1>11, StoreDoes DEF Takes, router, egl
  <2>8. ASSUME NEW r \in records, Offers(r) PROVE Backs'
    <3>1. /\ r.surf \in Surfaces /\ route[r.surf] = guest /\ r.gen = guest
          /\ guest \in Generations
      BY <2>1, <2>8, Known, AwaitsMeans DEF Offers
    <3>2. job[t].gen \in Generations /\ job[t].gen <= nextGeneration /\ entry[job[t].gen].reg # 0
      BY <2>2, Known DEF Owning, Told
    <3>3. job[t].gen <= guest
      BY <1>0, <3>1, <3>2 DEF Newest, Generations
    <3>4. job[t].gen # guest
      BY <1>0, <2>2, <3>1 DEF Claims, Unshared, Told
    <3>5. guest > job[t].gen
      BY <3>1, <3>2, <3>3, <3>4 DEF Generations
    <3>6. guest \in crossed'
      BY <1>11, <3>1, <3>5, StoreDoes
    <3> QED
      BY <2>2, <3>6
  <2>9. ASSUME NEW u \in Threads, Leaves(u) \/ Brings(u) PROVE Backs'
    <3>1. CASE u = t
      <4>1. job[t].gen = guest /\ route[job[t].surf] = guest
        BY <2>2, <2>9, <3>1 DEF Leaves, Brings
      <4>2. ~entry[guest].inFlight
        BY <1>0, <2>2, <4>1 DEF Created, Told
      <4> QED
        BY <1>11, <2>2, <4>1, <4>2, StoreDoes DEF Offers, Backs
    <3>2. CASE u # t
      BY <2>2, <2>9, <3>2, OthersStay
    <3> QED
      BY <3>1, <3>2
  <2> QED
    BY <2>1, <2>8, <2>9, BackedFrom
<1>12. ASSUME NEW t \in Threads, GuestSwap(t) PROVE Backed'
  <2> SUFFICES ASSUME Awaits', guest' \notin crossed' PROVE Backs'
    BY DEF Backed
  <2>1. Awaits /\ guest \notin crossed
    BY <1>12, GuestSwapDoes DEF Awaits, Active, router, egl
  <2>2. /\ UNCHANGED <<route, records, guest, swap>>
        /\ \A u \in Threads \ {t} : job'[u] = job[u]
        /\ job[t].at \in Claiming
    BY <1>12, GuestSwapDoes DEF Takes, Claiming, router, egl, shim
  <2>8. ASSUME NEW r \in records, Offers(r)
        PROVE  Backs'
    <3>1. CASE job[t].gen # guest
      <4>1. entry'[guest] = entry[guest]
        BY <1>12, <2>1, <3>1, GuestSwapDoes, AwaitsMeans DEF router
      <4> QED
        BY <2>2, <2>8, <3>1, <4>1 DEF Offers, CanSignal, Backs
    <3>2. CASE job[t].gen = guest
      <4>1. r.state = "inflight" /\ CanSignal(t, r)
        BY <1>0, <2>2, <2>8, <3>2 DEF Offers, CanSignal, Claims, OneClaim, Claiming
      <4>2. /\ job[t].at = "guestSwap" /\ ~entry[guest].inFlight
            /\ job[t].surf = r.surf /\ route[r.surf] = guest /\ r.gen = guest
        BY <1>12, <2>8, <4>1, GuestSwapDoes DEF CanSignal, Offers
      <4>3. Takes(t, "signal", job[t].surf, job[t].gen)
        BY <1>12, <2>1, <3>2, <4>2, GuestSwapDoes, AwaitsMeans
      <4>4. CanSignal(t, r)'
        BY <3>2, <4>2, <4>3 DEF Takes, CanSignal
      <4> QED
        BY <2>2, <4>1, <4>2, <4>4 DEF Offers, Backs
    <3> QED
      BY <3>1, <3>2
  <2>9. ASSUME NEW u \in Threads, Leaves(u) \/ Brings(u) PROVE Backs'
    <3>1. u # t
      BY <2>2, <2>9 DEF Leaves, Brings, Claiming
    <3> QED
      BY <2>2, <2>9, <3>1, OthersStay
  <2> QED
    BY <2>1, <2>8, <2>9, BackedFrom
<1>13. ASSUME NEW t \in Threads, Signal(t) PROVE Backed'
  <2> SUFFICES ASSUME Awaits', guest' \notin crossed' PROVE Backs'
    BY DEF Backed
  <2>1. Awaits /\ guest \notin crossed
    <3>1. /\ UNCHANGED <<swap, guest, crossed>> /\ sentinel'.run = sentinel.run
          /\ sentinel'.finished = sentinel.finished /\ sentinel'.avail = sentinel.avail
          /\ sentinel.retired => sentinel'.retired
      BY <1>13, SignalDoes
    <3> QED
      BY <3>1 DEF Awaits, Active
  <2>2. /\ UNCHANGED <<route, records, guest, swap>>
        /\ \A u \in Threads \ {t} : job'[u] = job[u]
        /\ job[t].at \in Claiming
    BY <1>13, SignalDoes DEF Takes, Claiming, router, egl, shim
  <2>8. ASSUME NEW r \in records, Offers(r)
        PROVE  Backs'
    <3>1. CASE job[t].gen # guest
      <4>1. entry'[guest] = entry[guest]
        BY <1>13, SignalDoes DEF router
      <4> QED
        BY <2>2, <2>8, <3>1, <4>1 DEF Offers, CanSignal, Backs
    <3>2. CASE job[t].gen = guest
      <4>1. r.state = "inflight" /\ CanSignal(t, r)
        BY <1>0, <2>2, <2>8, <3>2 DEF Offers, CanSignal, Claims, OneClaim, Claiming
      <4> QED
        BY <1>13, <2>1, <3>2, SignalDoes, AwaitsMeans DEF Ours, Awaits
    <3> QED
      BY <3>1, <3>2
  <2>9. ASSUME NEW u \in Threads, Leaves(u) \/ Brings(u) PROVE Backs'
    <3>1. u # t
      BY <2>2, <2>9 DEF Leaves, Brings, Claiming
    <3> QED
      BY <2>2, <2>9, <3>1, OthersStay
  <2> QED
    BY <2>1, <2>8, <2>9, BackedFrom
<1>14. ASSUME NEW t \in Threads, Accept(t) PROVE Backed'
  <2> SUFFICES ASSUME Awaits', guest' \notin crossed' PROVE Backs'
    BY DEF Backed
  <2>1. Awaits /\ guest \notin crossed
    BY <1>14, AcceptDoes DEF Awaits, Active, router, egl
  <2>2. /\ UNCHANGED <<route, records, guest, swap>>
        /\ \A u \in Threads \ {t} : job'[u] = job[u]
        /\ job[t].at \in Claiming
    BY <1>14, AcceptDoes DEF Takes, Claiming, router, egl, shim
  <2>8. ASSUME NEW r \in records, Offers(r)
        PROVE  Backs'
    <3>1. CASE job[t].gen # guest
      <4>1. entry'[guest] = entry[guest]
        BY <1>14, <2>1, <3>1, AcceptDoes, AwaitsMeans DEF router
      <4> QED
        BY <2>2, <2>8, <3>1, <4>1 DEF Offers, CanSignal, Backs
    <3>2. CASE job[t].gen = guest
      <4>1. r.state = "inflight" /\ CanSignal(t, r)
        BY <1>0, <2>2, <2>8, <3>2 DEF Offers, CanSignal, Claims, OneClaim, Claiming
      <4> QED
        BY <1>14, <4>1, AcceptDoes DEF CanSignal
    <3> QED
      BY <3>1, <3>2
  <2>9. ASSUME NEW u \in Threads, Leaves(u) \/ Brings(u) PROVE Backs'
    <3>1. u # t
      BY <2>2, <2>9 DEF Leaves, Brings, Claiming
    <3> QED
      BY <2>2, <2>9, <3>1, OthersStay
  <2> QED
    BY <2>1, <2>8, <2>9, BackedFrom
<1>15. ASSUME NEW t \in Threads, Reject(t) PROVE Backed'
  <2> SUFFICES ASSUME Awaits', guest' \notin crossed' PROVE Backs'
    BY DEF Backed
  <2>1. Awaits /\ guest \notin crossed
    BY <1>15, RejectDoes DEF Awaits, Active, router, egl
  <2>2. /\ UNCHANGED <<route, records, guest, swap>>
        /\ \A u \in Threads \ {t} : job'[u] = job[u]
        /\ job[t].at \in Claiming
    BY <1>15, RejectDoes DEF Takes, Claiming, router, egl, shim
  <2>8. ASSUME NEW r \in records, Offers(r)
        PROVE  Backs'
    <3>1. CASE job[t].gen # guest
      <4>1. entry'[guest] = entry[guest]
        BY <1>15, <2>1, <3>1, RejectDoes, AwaitsMeans DEF router
      <4> QED
        BY <2>2, <2>8, <3>1, <4>1 DEF Offers, CanSignal, Backs
    <3>2. CASE job[t].gen = guest
      <4>1. r.state = "inflight" /\ CanSignal(t, r)
        BY <1>0, <2>2, <2>8, <3>2 DEF Offers, CanSignal, Claims, OneClaim, Claiming
      <4> QED
        BY <1>15, <4>1, RejectDoes DEF CanSignal
    <3> QED
      BY <3>1, <3>2
  <2>9. ASSUME NEW u \in Threads, Leaves(u) \/ Brings(u) PROVE Backs'
    <3>1. u # t
      BY <2>2, <2>9 DEF Leaves, Brings, Claiming
    <3> QED
      BY <2>2, <2>9, <3>1, OthersStay
  <2> QED
    BY <2>1, <2>8, <2>9, BackedFrom
<1>16. ASSUME NEW t \in Threads, FinishClaim(t) PROVE Backed'
  <2> SUFFICES ASSUME Awaits', guest' \notin crossed' PROVE Backs'
    BY DEF Backed
  <2>1. Awaits /\ guest \notin crossed
    BY <1>16, FinishClaimDoes DEF Awaits, Active, router, egl
  <2>2. /\ UNCHANGED <<route, entry, guest>> /\ \A u \in Threads \ {t} : job'[u] = job[u]
        /\ job[t].at \in {"complete", "rearm"}
    BY <1>16, FinishClaimDoes DEF Takes, router, egl
  <2>8. ASSUME NEW r \in records, Offers(r)
        PROVE  Backs'
    <3>1. CASE r.state = "inflight" /\ \E u \in Threads : CanSignal(u, r)
      <4>1. PICK u \in Threads : CanSignal(u, r)
        BY <3>1
      <4>2. u # t /\ job[t].gen # r.gen
        BY <1>0, <2>2, <4>1 DEF CanSignal, Claims, OneClaim, Claiming
      <4>3. r \in records'
        BY <1>16, <4>2, FinishClaimDoes DEF shim
      <4>4. CanSignal(u, r)'
        BY <2>2, <4>1 DEF CanSignal
      <4> QED
        BY <2>2, <2>8, <4>3, <4>4 DEF Offers, Backs
    <3>2. CASE r.state = "pending"
      <4>1. r \in records'
        BY <1>16, <3>2, FinishClaimDoes DEF shim
      <4> QED
        BY <2>2, <2>8, <3>2, <4>1 DEF Offers, Backs
    <3> QED
      BY <2>8, <3>1, <3>2 DEF Offers, Backs
  <2>9. ASSUME NEW u \in Threads, Leaves(u) \/ Brings(u) PROVE Backs'
    <3>1. u # t
      BY <2>2, <2>9 DEF Leaves, Brings, Claiming
    <3> QED
      BY <2>2, <2>9, <3>1, OthersStay
  <2> QED
    BY <2>1, <2>8, <2>9, BackedFrom
<1>17. ASSUME NEW t \in Threads, SurfaceDestroyed(t) PROVE Backed'
  <2> SUFFICES ASSUME Awaits', guest' \notin crossed' PROVE Backs'
    BY DEF Backed
  <2>1. Awaits /\ guest \notin crossed
    BY <1>17, SurfaceDestroyedDoes DEF Awaits, Active, router, egl
  <2>2. /\ UNCHANGED <<records, entry, guest>> /\ \A u \in Threads \ {t} : job'[u] = job[u]
        /\ job[t].at = "destroyed" /\ job'[t].gen = job[t].gen
        /\ route[job[t].surf] = job[t].gen => job'[t].at = "untell"
        /\ \A s \in Surfaces : s # job[t].surf => route'[s] = route[s]
    BY <1>17, SurfaceDestroyedDoes DEF Takes, router, egl, shim
  <2>8. ASSUME NEW r \in records, Offers(r)
        PROVE  Backs'
    <3>1. r.surf # job[t].surf /\ r.surf \in Surfaces
      BY <1>0, <2>2, Known DEF Recorded, LiveRecords, Claiming
    <3>2. ASSUME NEW u \in Threads, CanSignal(u, r) PROVE CanSignal(u, r)'
      BY <2>2, <3>2 DEF CanSignal
    <3> QED
      BY <2>2, <2>8, <3>1, <3>2 DEF Offers, Backs
  <2>9. ASSUME NEW u \in Threads, Leaves(u) \/ Brings(u) PROVE Backs'
    <3>1. CASE u = t
      <4>1. Leaves(t)'
        BY <2>2, <2>9, <3>1 DEF Leaves, Brings
      <4> QED
        BY <4>1 DEF Backs
    <3>2. CASE u # t
      <4>1. job[u].at \in Creating \cup Destroying
        BY <2>9 DEF Leaves, Brings, Creating, Destroying
      <4>2. job[u].surf # job[t].surf /\ job[u].surf \in Surfaces
        BY <1>0, <2>2, <3>2, <4>1 DEF Recorded, Alone, Creating, Destroying, Calls, Called
      <4> QED
        BY <2>2, <2>9, <3>2, <4>2, OthersStay
    <3> QED
      BY <3>1, <3>2
  <2> QED
    BY <2>1, <2>8, <2>9, BackedFrom
<1>18. ASSUME NEW t \in Threads, Untell(t) PROVE Backed'
  <2> SUFFICES ASSUME Awaits', guest' \notin crossed' PROVE Backs'
    BY DEF Backed
  <2>1. Awaits /\ ~Ours(t) /\ guest' = guest /\ guest \notin crossed
    <3>1. /\ UNCHANGED <<swap, crossed>> /\ sentinel'.run = sentinel.run
          /\ sentinel'.finished = sentinel.finished /\ sentinel'.retired = sentinel.retired
          /\ \/ Ours(t) /\ guest' = 0 /\ (Active => ~sentinel'.avail)
             \/ ~Ours(t) /\ guest' = guest /\ sentinel' = sentinel
      BY <1>18, UntellDoes
    <3> QED
      BY <3>1 DEF Awaits, Active
  <2>2. /\ UNCHANGED <<records, entry, route>> /\ \A u \in Threads \ {t} : job'[u] = job[u]
        /\ job[t].at \in {"untell", "rollback"} /\ job[t].gen # guest
    BY <1>18, <2>1, UntellDoes, AwaitsMeans DEF Takes, Ours, router, shim
  <2>8. ASSUME NEW r \in records, Offers(r)
        PROVE  Backs'
    <3>1. ASSUME NEW u \in Threads, CanSignal(u, r) PROVE CanSignal(u, r)'
      BY <2>2, <3>1 DEF CanSignal
    <3> QED
      BY <2>1, <2>2, <2>8, <3>1 DEF Offers, Backs
  <2>9. ASSUME NEW u \in Threads, Leaves(u) \/ Brings(u) PROVE Backs'
    <3>1. u # t
      BY <2>2, <2>9 DEF Leaves, Brings, Claiming
    <3> QED
      BY <2>1, <2>2, <2>9, <3>1, OthersStay
  <2> QED
    BY <2>1, <2>8, <2>9, BackedFrom
<1>19. ASSUME NEW t \in Threads, HostDestroy(t) PROVE Backed'
  <2> SUFFICES ASSUME Awaits', guest' \notin crossed' PROVE Backs'
    BY DEF Backed
  <2>1. Awaits /\ guest \notin crossed
    BY <1>19, HostDestroyDoes DEF Awaits, Active, router, egl
  <2>2. /\ UNCHANGED <<records, entry, route, guest>> /\ \A u \in Threads \ {t} : job'[u] = job[u]
        /\ job[t].at = "hostDestroy"
    BY <1>19, HostDestroyDoes DEF Takes, router, egl, shim
  <2>8. ASSUME NEW r \in records, Offers(r)
        PROVE  Backs'
    <3>1. ASSUME NEW u \in Threads, CanSignal(u, r) PROVE CanSignal(u, r)'
      BY <2>2, <3>1 DEF CanSignal
    <3> QED
      BY <2>2, <2>8, <3>1 DEF Offers, Backs
  <2>9. ASSUME NEW u \in Threads, Leaves(u) \/ Brings(u) PROVE Backs'
    <3>1. u # t
      BY <2>2, <2>9 DEF Leaves, Brings, Claiming
    <3> QED
      BY <2>2, <2>9, <3>1, OthersStay
  <2> QED
    BY <2>1, <2>8, <2>9, BackedFrom
<1>20. ASSUME NEW t \in Threads, NEW s \in Surfaces, Swap(t, s) PROVE Backed'
  <2> SUFFICES ASSUME Awaits', guest' \notin crossed' PROVE Backs'
    BY DEF Backed
  <2>1. Awaits /\ guest \notin crossed
    BY <1>20, SwapDoes DEF Awaits, Active, router, egl
  <2>2. /\ UNCHANGED <<entry, route, guest>> /\ \A u \in Threads \ {t} : job'[u] = job[u]
        /\ job[t].at = "idle"
    BY <1>20, SwapDoes DEF Takes, router, egl
  <2>8. ASSUME NEW r \in records, Offers(r)
        PROVE  Backs'
    <3>1. PICK q \in Records :
             /\ r.surf = s /\ r.state = "pending"
             /\ records' = {q} /\ q.surf = s /\ q.state = "inflight" /\ q.gen = r.gen
             /\ Takes(t, "guestSwap", s, r.gen)
      BY <1>20, SwapDoes
    <3>2. CanSignal(t, q)'
      BY <2>2, <2>8, <3>1 DEF Takes, CanSignal, Offers
    <3> QED
      BY <2>2, <2>8, <3>1, <3>2 DEF Offers, Backs
  <2>9. ASSUME NEW u \in Threads, Leaves(u) \/ Brings(u) PROVE Backs'
    <3>1. u # t
      BY <2>2, <2>9 DEF Leaves, Brings, Claiming
    <3> QED
      BY <2>2, <2>9, <3>1, OthersStay
  <2> QED
    BY <2>1, <2>8, <2>9, BackedFrom
<1>21. ASSUME NEW t \in Threads, NEW s \in Surfaces, Destroy(t, s) PROVE Backed'
  <2> SUFFICES ASSUME Awaits', guest' \notin crossed' PROVE Backs'
    BY DEF Backed
  <2>1. Awaits /\ guest \notin crossed
    BY <1>21, DestroyDoes DEF Awaits, Active, router, egl
  <2>2. /\ UNCHANGED <<entry, route, guest>> /\ \A u \in Threads \ {t} : job'[u] = job[u]
        /\ job[t].at = "idle"
    BY <1>21, DestroyDoes DEF Takes, router, egl
  <2>8. ASSUME NEW r \in records, Offers(r)
        PROVE  Backs'
    <3>1. CASE r.surf = s
      <4>1. Takes(t, "destroyed", s, r.gen)
        BY <1>21, <3>1, DestroyDoes
      <4>2. Leaves(t)'
        BY <2>2, <2>8, <3>1, <4>1 DEF Takes, Leaves, Offers
      <4> QED
        BY <4>2 DEF Backs
    <3>2. CASE r.surf # s
      <4>1. r \in records'
        BY <1>21, <3>2, DestroyDoes DEF shim
      <4>2. ASSUME NEW u \in Threads, CanSignal(u, r) PROVE CanSignal(u, r)'
        BY <2>2, <4>2 DEF CanSignal
      <4> QED
        BY <2>2, <2>8, <4>1, <4>2 DEF Offers, Backs
    <3> QED
      BY <3>1, <3>2
  <2>9. ASSUME NEW u \in Threads, Leaves(u) \/ Brings(u) PROVE Backs'
    <3>1. u # t
      BY <2>2, <2>9 DEF Leaves, Brings, Claiming
    <3> QED
      BY <2>2, <2>9, <3>1, OthersStay
  <2> QED
    BY <2>1, <2>8, <2>9, BackedFrom
<1>22. ASSUME UNCHANGED vars PROVE Backed'
  BY <1>0, <1>22 DEF Backed, Backs, Awaits, Active, Offers, Leaves, Brings, CanSignal, router,
     egl, shim, vars
<1> QED
  BY <1>1, <1>2, <1>3, <1>4, <1>5, <1>6, <1>7, <1>8, <1>9, <1>10, <1>11, <1>12, <1>13, <1>14,
     <1>15, <1>16, <1>17, <1>18, <1>19, <1>20, <1>21, <1>22 DEF Next, Step

(* It holds at first, and every step keeps it.                             *)
LEMMA InitInv == Init => GuestInv
<1> SUFFICES ASSUME Init PROVE GuestInv
  OBVIOUS
<1>1. GuestTypeOK
  <2>1. RouterType
    BY GuestSwapAssumption DEF Init, RouterType, Entries
  <2>2. EglType
    <3>1. Gone \in SentinelStates /\ Gone.at # "timed"
      BY GuestSwapAssumption DEF Gone, SentinelStates
    <3>2. /\ nextGeneration = 0 /\ swap = 0 /\ guest = 0 /\ starts = 0 /\ stopping = FALSE
          /\ sentinel = Gone
      BY DEF Init
    <3>3. 0 \in 0 .. MaxStarts /\ 0 \in 0 .. 0
      BY GuestSwapAssumption
    <3> QED
      BY <3>1, <3>2, <3>3 DEF EglType
  <2>3. ShimType
    BY DEF Init, ShimType
  <2>4. job \in [Threads -> Jobs]
    BY GuestSwapAssumption DEF Init, Idle, Jobs
  <2> QED
    BY <2>1, <2>2, <2>3, <2>4 DEF Init, GuestTypeOK
<1>2. \A t \in Threads : job[t].at = "idle" /\ job[t].surf = 0 /\ job[t].gen = 0
  BY DEF Init, Idle
<1>3. Reserved /\ Calls
  <2>1. Underway = {}
    BY <1>2 DEF Underway
  <2>2. Reserved
    BY <2>1, FS_EmptySet, GuestSwapAssumption DEF Init, Reserved
  <2>3. Calls
    BY <1>2 DEF Calls, Called, Creating, Destroying, Owning, Claiming, Told
  <2> QED
    BY <2>2, <2>3
<1>4. Windows /\ Routes /\ Newest /\ Answered /\ Claims /\ Created
  BY <1>2, GuestSwapAssumption DEF Init, Gone, Windows, Routes, Answered, AnsweredEntries,
     AnsweredRecords, Claims, OneClaim, Unshared, Newest, Created, Awaits, Owning,
     Claiming, Told
<1>5. Recorded
  BY <1>2, PendingOnes DEF Init, Recorded, OneRecord, LiveRecords, Alone, Destroying, Creating
<1>6. Backed
  BY DEF Init, Backed, Awaits
<1> QED
  BY <1>1, <1>3, <1>4, <1>5, <1>6 DEF GuestInv, Types

LEMMA StepInv == ASSUME GuestInv, [Next]_vars PROVE GuestInv'
<1>1. Types'
  BY RouterTyped, EglTyped, ShimTyped, JobsTyped, CrossedTyped, ReservedKept, CallsKept
  DEF Types, GuestTypeOK
<1>2. Recorded' /\ Claims' /\ Answered'
  BY OneRecordKept, LiveRecordsKept, AloneKept, OneClaimKept, UnsharedKept,
     AnsweredEntriesKept, AnsweredRecordsKept DEF Recorded, Claims, Answered
<1> QED
  BY <1>1, <1>2, WindowsKept, RoutesKept, NewestKept, CreatedKept, BackedKept DEF GuestInv

-----------------------------------------------------------------------------
(* The invariant holds in every state.                                     *)
THEOREM GuestInvariant == Spec => []GuestInv
<1>1. GuestInv /\ [Next]_vars => GuestInv'
  BY StepInv
<1> QED
  BY InitInv, <1>1, PTL DEF Spec

(* The state has its type, whatever the surfaces, threads and bounds.      *)
THEOREM GuestTypes == Spec => []GuestTypeOK
<1>1. GuestInv => GuestTypeOK
  BY DEF GuestInv, Types
<1> QED
  BY GuestInvariant, <1>1, PTL

(* The shim counts its pending records, which are of surfaces that exist;  *)
(* it has let a surface go that the router routes, and the router has      *)
(* accepted a registration, only if the sentinel has retired.              *)
THEOREM Agreement == Spec => []LayersAgree
<1>1. ASSUME GuestInv PROVE LayersAgree
  <2>1. pendingHandoffs = Cardinality(Pending(records))
    BY <1>1, OneCounts DEF GuestInv, Recorded, OneRecord
  <2>2. \A r \in records : r.surf \in live
    BY <1>1 DEF GuestInv, Recorded, LiveRecords
  <2>3. ASSUME NEW r \in records, r.state = "complete", route[r.surf] = r.gen
        PROVE  sentinel.retired
    <3>1. r.gen \in Generations /\ r.surf \in Surfaces /\ r.gen # 0
      BY <1>1, Known DEF Generations
    <3>2. window # 0 /\ entry[r.gen].reg = window
      BY <1>1, <2>3, <3>1 DEF GuestInv, Routes
    <3>3. swap = window
      BY <1>1, <3>2 DEF GuestInv, Windows
    <3> QED
      BY <1>1, <2>3, <3>2, <3>3 DEF GuestInv, Answered, AnsweredRecords
  <2>4. swap \in accepted => sentinel.retired
    BY <1>1 DEF GuestInv, Answered, AnsweredEntries
  <2> QED
    BY <2>1, <2>2, <2>3, <2>4 DEF LayersAgree
<1> QED
  BY GuestInvariant, <1>1, PTL

(* A sentinel that waits without a deadline has a surface whose next swap  *)
(* gets through to it, or a thread that is about to signal, replace or     *)
(* withdraw it.                                                            *)
THEOREM Backing == Spec => []AwaitedIsBacked
<1>1. ASSUME GuestInv, Awaits, guest \notin crossed PROVE AwaitedIsBacked
  <2>1. ASSUME NEW t \in Threads, Brings(t) PROVE AwaitedIsBacked
    BY <2>1 DEF AwaitedIsBacked, Brings, Creating
  <2>2. ASSUME NEW r \in records, Offers(r) PROVE AwaitedIsBacked
    <3>1. CASE r.state = "pending" /\ ~entry[guest].inFlight
      <4>1. r.surf \in live
        BY <1>1 DEF GuestInv, Recorded, LiveRecords
      <4>2. entry[guest] \in Entries
        BY <1>1, AwaitsMeans DEF GuestInv, Types, GuestTypeOK, RouterType
      <4>3. entry[guest] = [reg |-> swap, pending |-> TRUE, inFlight |-> FALSE]
        BY <1>1, <3>1, <4>2, AwaitsMeans DEF Entries
      <4>4. window = swap
        BY <1>1, AwaitsMeans
      <4> QED
        BY <2>2, <3>1, <4>1, <4>3, <4>4 DEF Offers, AwaitedIsBacked
    <3>2. ASSUME NEW t \in Threads, CanSignal(t, r) PROVE AwaitedIsBacked
      BY <2>2, <3>2 DEF CanSignal, Offers, AwaitedIsBacked, Claiming
    <3> QED
      BY <2>2, <3>1, <3>2 DEF Offers
  <2>3. ASSUME NEW t \in Threads, Leaves(t) PROVE AwaitedIsBacked
    BY <2>3 DEF Leaves, AwaitedIsBacked
  <2> QED
    BY <1>1, <2>1, <2>2, <2>3 DEF GuestInv, Backed, Backs
<1>2. GuestInv => AwaitedIsBacked
  BY <1>1 DEF Awaits, AwaitedIsBacked
<1> QED
  BY GuestInvariant, <1>2, PTL
=============================================================================
