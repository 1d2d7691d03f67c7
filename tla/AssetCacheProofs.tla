-------------------------- MODULE AssetCacheProofs --------------------------
(***************************************************************************)
(* Proofs about AssetCache: a load has one leader, a retired cache keeps   *)
(* its archive until its last load has ended and nothing after that, and   *)
(* what an AAsset has pinned stays mapped.                                 *)
(***************************************************************************)
EXTENDS AssetCache, FiniteSetTheorems, TLAPS

(* A record with the fields of an assetCache.                              *)
IsCache(c) ==
    c = [names |-> c.names, sources |-> c.sources, blobs |-> c.blobs,
         flights |-> c.flights, handles |-> c.handles, lru |-> c.lru,
         loads |-> c.loads, archive |-> c.archive, retired |-> c.retired]

(* d is what an operation on the blobs of c leaves: its loads, its archive *)
(* and its place among the sources are those of c.                         *)
SameLoads(c, d) ==
    IsCache(d) /\ d.loads = c.loads /\ d.archive = c.archive /\ d.retired = c.retired

(* So it is, and no blob is added.                                         *)
NoNewBlob(c, d) == SameLoads(c, d) /\ d.blobs \subseteq c.blobs

(* What a retired cache without loads has let go.                          *)
LetGo(c) == c.retired /\ c.loads = {} => c.blobs = {} /\ c.archive # "open"

LEMMA SameLoadsComposes ==
  ASSUME NEW c, NEW d, NEW f, SameLoads(c, d), SameLoads(d, f) PROVE SameLoads(c, f)
  BY DEF SameLoads

LEMMA NoNewBlobComposes ==
  ASSUME NEW c, NEW d, NEW f, NoNewBlob(c, d), NoNewBlob(d, f) PROVE NoNewBlob(c, f)
  BY DEF NoNewBlob, SameLoads

LEMMA KeptIsCache ==
  ASSUME NEW c, NEW d, SameLoads(c, d) \/ NoNewBlob(c, d) PROVE IsCache(d)
  BY DEF NoNewBlob, SameLoads

(* One field is set.                                                       *)
LEMMA FieldKeeps ==
  ASSUME NEW c, IsCache(c), NEW x
  PROVE  /\ NoNewBlob(c, [c EXCEPT !.names = x]) /\ NoNewBlob(c, [c EXCEPT !.sources = x])
         /\ NoNewBlob(c, [c EXCEPT !.lru = x])
         /\ NoNewBlob(c, [c EXCEPT !.flights = x]) /\ NoNewBlob(c, [c EXCEPT !.handles = x])
         /\ SameLoads(c, [c EXCEPT !.blobs = x]) /\ [c EXCEPT !.blobs = x].blobs = x
<1> DEFINE F == {"names", "sources", "blobs", "flights", "handles", "lru", "loads",
                 "archive", "retired"}
<1> SUFFICES ASSUME NEW f \in {"names", "sources", "blobs", "flights", "handles", "lru"}
             PROVE  /\ SameLoads(c, [c EXCEPT ![f] = x])
                    /\ f # "blobs" => [c EXCEPT ![f] = x].blobs = c.blobs
                    /\ f = "blobs" => [c EXCEPT ![f] = x].blobs = x
  BY Zenon DEF NoNewBlob
<1>1. DOMAIN c = F /\ c = [g \in F |-> c[g]]
  BY DEF IsCache
<1> DEFINE d == [c EXCEPT ![f] = x]
<1>2. d = [g \in F |-> IF g = f THEN x ELSE c[g]]
  BY <1>1
<1>3. IsCache(d)
  BY <1>2 DEF IsCache
<1> QED
  BY <1>2, <1>3 DEF SameLoads

(* The operations under a cache's lock that never add a blob.              *)
LEMMA TouchKeeps == ASSUME NEW c, IsCache(c), NEW k PROVE NoNewBlob(c, Touch(c, k))
  BY DEF IsCache, NoNewBlob, SameLoads, Touch

LEMMA EvictableKeeps == ASSUME NEW c, IsCache(c), NEW k PROVE NoNewBlob(c, Evictable(c, k))
  BY DEF IsCache, NoNewBlob, SameLoads, Evictable

LEMMA DropKeeps ==
  ASSUME NEW c, IsCache(c), NEW ks, NEW rest PROVE NoNewBlob(c, Drop(c, ks, rest))
<1> DEFINE names == [n \in Names |-> IF c.names[n] \in ks THEN NoKey ELSE c.names[n]]
           sources == [f \in Files |-> IF c.sources[f] \in ks THEN NoKey ELSE c.sources[f]]
           flights == [k \in Keys |-> IF k \in ks THEN 0 ELSE c.flights[k]]
           handles == [k \in Keys |-> IF k \in ks THEN 0 ELSE c.handles[k]]
           d1 == [c EXCEPT !.names = names]
           d2 == [d1 EXCEPT !.sources = sources]
           d3 == [d2 EXCEPT !.blobs = c.blobs \ ks]
           d4 == [d3 EXCEPT !.lru = rest]
           d5 == [d4 EXCEPT !.flights = flights]
           d6 == [d5 EXCEPT !.handles = handles]
<1>1. Drop(c, ks, rest) = d6
  BY Zenon DEF Drop
<1> HIDE DEF names, sources, flights, handles, d1, d2, d3, d4, d5, d6
<1>2. NoNewBlob(c, d1) /\ IsCache(d1)
  BY FieldKeeps, KeptIsCache DEF d1
<1>3. NoNewBlob(c, d2) /\ IsCache(d2)
  BY <1>2, FieldKeeps, NoNewBlobComposes, KeptIsCache DEF d2
<1>4. SameLoads(d2, d3) /\ d3.blobs = c.blobs \ ks
  BY <1>3, FieldKeeps DEF d3
<1>5. NoNewBlob(c, d3) /\ IsCache(d3)
  BY <1>3, <1>4, SameLoadsComposes DEF NoNewBlob, SameLoads
<1>6. NoNewBlob(c, d4) /\ IsCache(d4)
  BY <1>5, FieldKeeps, NoNewBlobComposes, KeptIsCache DEF d4
<1>7. NoNewBlob(c, d5) /\ IsCache(d5)
  BY <1>6, FieldKeeps, NoNewBlobComposes, KeptIsCache DEF d5
<1>8. NoNewBlob(c, d6)
  BY <1>7, FieldKeeps, NoNewBlobComposes, KeptIsCache DEF d6
<1> QED
  BY <1>1, <1>8

LEMMA EnforceKeeps == ASSUME NEW c, IsCache(c) PROVE NoNewBlob(c, Enforce(c))
<1>1. NoNewBlob(c, c)
  BY DEF NoNewBlob, SameLoads
<1> QED
  BY <1>1, DropKeeps DEF Enforce

LEMMA ReleaseKeeps == ASSUME NEW c, IsCache(c), NEW k PROVE NoNewBlob(c, Release(c, k))
<1> DEFINE d == [c EXCEPT !.flights[k] = @ - 1]
<1>1. NoNewBlob(c, c)
  BY DEF NoNewBlob, SameLoads
<1>2. NoNewBlob(c, d) /\ IsCache(d)
  BY DEF IsCache, NoNewBlob, SameLoads
<1>3. NoNewBlob(c, Evictable(d, k))
  BY <1>2, EvictableKeeps, NoNewBlobComposes
<1> QED
  BY <1>1, <1>3 DEF Release

LEMMA EndedKeeps == ASSUME NEW c, IsCache(c), NEW k PROVE NoNewBlob(c, Ended(c, k))
<1> DEFINE d == [c EXCEPT !.handles[k] = @ - 1]
<1>1. NoNewBlob(c, c)
  BY DEF NoNewBlob, SameLoads
<1>2. NoNewBlob(c, d) /\ IsCache(d)
  BY DEF IsCache, NoNewBlob, SameLoads
<1> HIDE DEF d
<1>3. NoNewBlob(c, Evictable(d, k)) /\ IsCache(Evictable(d, k))
  BY <1>2, EvictableKeeps, NoNewBlobComposes DEF NoNewBlob, SameLoads
<1>4. NoNewBlob(c, Enforce(Evictable(d, k)))
  BY <1>3, EnforceKeeps, NoNewBlobComposes
<1> QED
  BY <1>1, <1>4 DEF Ended, d

LEMMA LendKeeps ==
  ASSUME NEW c, IsCache(c), NEW lru, NEW k
  PROVE  NoNewBlob(c, [c EXCEPT !.lru = lru, !.handles[k] = @ + 1])
<1> DEFINE d == [c EXCEPT !.lru = lru]
           handles == [c.handles EXCEPT ![k] = c.handles[k] + 1]
           e == [d EXCEPT !.handles = handles]
<1>1. NoNewBlob(c, d) /\ IsCache(d)
  BY FieldKeeps, KeptIsCache
<1>2. NoNewBlob(c, e)
  <2> HIDE DEF d, handles
  <2> QED
    BY <1>1, FieldKeeps, NoNewBlobComposes
<1>3. [c EXCEPT !.lru = lru, !.handles[k] = @ + 1] = e
  BY DEF IsCache
<1> QED
  BY <1>2, <1>3

(* Those that may.                                                         *)
LEMMA RecordKeeps == ASSUME NEW c, IsCache(c), NEW k PROVE SameLoads(c, Record(c, k))
<1>1. CASE k \in c.blobs
  BY <1>1, TouchKeeps DEF Record, NoNewBlob
<1> DEFINE lru == Append(c.lru, k)
           d == [c EXCEPT !.blobs = c.blobs \cup {k}]
           e == [d EXCEPT !.lru = lru]
<1>2. k \notin c.blobs => Record(c, k) = e
  BY Zenon DEF Record
<1> HIDE DEF lru, d
<1>3. SameLoads(c, d) /\ IsCache(d)
  BY FieldKeeps DEF d, SameLoads
<1>4. SameLoads(c, e)
  BY <1>3, FieldKeeps, SameLoadsComposes DEF NoNewBlob
<1> QED
  BY <1>1, <1>2, <1>4

LEMMA ProtectKeeps ==
  ASSUME NEW c, IsCache(c), NEW k, NEW held PROVE SameLoads(c, Protect(c, k, held))
<1> DEFINE d == Record(c, k)
<1>1. SameLoads(c, d) /\ IsCache(d)
  BY RecordKeeps DEF SameLoads
<1> DEFINE lru == Without(d.lru, k)
           flights == [d.flights EXCEPT ![k] = d.flights[k] + 1]
           e == [d EXCEPT !.lru = lru]
           f == [e EXCEPT !.flights = flights]
<1>2. held = NoKey => Protect(c, k, held) = [d EXCEPT !.lru = Without(@, k), !.flights[k] = @ + 1]
  BY Zenon DEF Protect
<1> HIDE DEF d, lru, flights
<1>3. SameLoads(c, e) /\ IsCache(e) /\ e.flights = d.flights
  <2>1. NoNewBlob(d, e) /\ SameLoads(d, e)
    BY <1>1, FieldKeeps DEF NoNewBlob
  <2>2. e.flights = d.flights
    BY <1>1 DEF IsCache
  <2> QED
    BY <1>1, <2>1, <2>2, SameLoadsComposes, KeptIsCache
<1>4. [e EXCEPT !.flights[k] = e.flights[k] + 1] = f
  BY <1>3 DEF flights, IsCache
<1>5. SameLoads(c, f)
  BY <1>3, FieldKeeps, SameLoadsComposes DEF NoNewBlob
<1>6. SameLoads(c, c)
  BY DEF SameLoads
<1> QED
  BY <1>2, <1>3, <1>4, <1>5, <1>6 DEF Protect, lru

LEMMA SetNameKeeps ==
  ASSUME NEW c, IsCache(c), NEW n, NEW k PROVE SameLoads(c, SetName(c, n, k))
<1> DEFINE named == [c EXCEPT !.names[n] = k]
<1>1. SameLoads(c, named) /\ IsCache(named)
  BY DEF IsCache, SameLoads
<1> DEFINE dropped == Drop(named, {c.names[n]}, Without(c.lru, c.names[n]))
<1> HIDE DEF named
<1>2. SameLoads(c, dropped) /\ IsCache(dropped)
  BY <1>1, DropKeeps, SameLoadsComposes DEF NoNewBlob, SameLoads
<1>3. SameLoads(c, Record(named, k))
  BY <1>1, RecordKeeps, SameLoadsComposes
<1>4. SameLoads(c, Record(dropped, k))
  BY <1>2, RecordKeeps, SameLoadsComposes
<1> QED
  BY <1>3, <1>4 DEF SetName, named

LEMMA RetiringKeeps ==
  ASSUME NEW c, IsCache(c), NEW x
  PROVE  LET d == [c EXCEPT !.retired = x]
         IN  IsCache(d) /\ d.loads = c.loads /\ d.archive = c.archive
  BY DEF IsCache

(* Dropping what a retired cache holds is all it takes to let go.          *)
LEMMA DropRetiredLetsGo ==
  ASSUME NEW c, IsCache(c)
  PROVE  LET d == DropRetired(c)
         IN  /\ IsCache(d) /\ d.loads = c.loads /\ d.retired = c.retired
             /\ LetGo(d) /\ d.blobs \subseteq c.blobs
             /\ c.loads # {} => d.archive = c.archive
             /\ d.archive \in {c.archive, "closed"}
  BY DEF IsCache, DropRetired, NewCache, LetGo
-----------------------------------------------------------------------------
(* The inductive invariant of the loads.                                   *)

LoadTypes ==
    /\ current \in Generations
    /\ cache = [g \in Generations |-> cache[g]]
    /\ \A g \in Generations : IsCache(cache[g])
    /\ at \in [Openers -> Steps] /\ name \in [Openers -> Names]
    /\ gen \in [Openers -> Generations]

(* A load is led by one thread, and who waits for it waits for that one.   *)
LoadsLed ==
    /\ \A p \in Openers : Leads(p) \/ at[p] = "wait" => name[p] \in cache[gen[p]].loads
    /\ \A p, q \in Openers :
          Leads(p) /\ Leads(q) /\ gen[p] = gen[q] /\ name[p] = name[q] => p = q
    /\ \A g \in Generations, n \in Names : n \in cache[g].loads =>
          \E p \in Openers : Leads(p) /\ gen[p] = g /\ name[p] = n

Reads == {"lookin", "entry", "slot", "inflate"}

(* An archive is opened by one thread, and open for those that read it.    *)
ArchiveLed ==
    /\ \A p \in Openers : at[p] = "opening" => cache[gen[p]].archive = "opening"
    /\ \A p \in Openers : at[p] \in Reads => cache[gen[p]].archive = "open"
    /\ \A p, q \in Openers :
          at[p] = "opening" /\ at[q] = "opening" /\ gen[p] = gen[q] => p = q
    /\ \A g \in Generations : cache[g].archive = "opening" =>
          \E p \in Openers : at[p] = "opening" /\ gen[p] = g
    /\ \A q \in Openers : at[q] = "waitopen" => cache[gen[q]].archive = "opening"

AllLetGo == \A g \in Generations : LetGo(cache[g])

LoadInv == LoadTypes /\ LoadsLed /\ ArchiveLed /\ AllLetGo

(* A step of one thread that neither begins nor ends a load, nor the       *)
(* opening of an archive.                                                  *)
QuietSteps == Steps \ {"wait", "waitopen", "opening"}

LEMMA QuietStep ==
  ASSUME LoadInv, NEW p \in Openers, NEW g \in Generations, NEW c, NEW step \in QuietSteps,
         SameLoads(cache[g], c),
         c.blobs \subseteq cache[g].blobs \/ (Leads(p) /\ g = gen[p]),
         cache' = [cache EXCEPT ![g] = c], current' = current,
         at' = [at EXCEPT ![p] = step], name' = name, gen' = gen,
         at[p] \notin {"opening", "waitopen"}, Leads(p)' <=> Leads(p),
         step \in Reads => cache[gen[p]].archive = "open"
  PROVE  LoadInv'
<1> USE DEF LoadInv
<1>1. LoadTypes'
  BY DEF LoadTypes, SameLoads, QuietSteps
<1>2. \A h \in Generations : /\ cache'[h].loads = cache[h].loads
                             /\ cache'[h].archive = cache[h].archive
                             /\ cache'[h].retired = cache[h].retired
  BY DEF LoadTypes, SameLoads
<1>3. \A q \in Openers : Leads(q)' <=> Leads(q)
  BY DEF LoadTypes, Leads
<1>4. \A q \in Openers : /\ gen'[q] = gen[q] /\ name'[q] = name[q]
                         /\ gen[q] \in Generations
                         /\ q # p => at'[q] = at[q]
  BY DEF LoadTypes
<1>5. at'[p] = step
  BY DEF LoadTypes
<1>6. LoadsLed'
  BY <1>2, <1>3, <1>4, <1>5 DEF LoadsLed, QuietSteps
<1>7. ArchiveLed'
  BY <1>2, <1>4, <1>5 DEF ArchiveLed, QuietSteps
<1>8. AllLetGo'
  <2> SUFFICES ASSUME NEW h \in Generations PROVE LetGo(cache'[h])
    BY DEF AllLetGo
  <2>1. CASE h # g
    BY <2>1 DEF LoadTypes, AllLetGo
  <2>2. CASE h = g /\ c.blobs \subseteq cache[g].blobs
    BY <2>2 DEF LoadTypes, AllLetGo, LetGo, SameLoads
  <2>3. CASE h = g /\ Leads(p) /\ g = gen[p]
    <3>1. c.loads # {}
      BY <2>3 DEF LoadsLed, SameLoads
    <3> QED
      BY <2>3, <3>1 DEF LoadTypes, LetGo
  <2> QED
    BY <2>1, <2>2, <2>3
<1> QED
  BY <1>1, <1>6, <1>7, <1>8

LEMMA QuietSame ==
  ASSUME LoadInv, NEW p \in Openers, NEW step \in QuietSteps,
         cache' = cache, current' = current,
         at' = [at EXCEPT ![p] = step], name' = name, gen' = gen,
         at[p] \notin {"opening", "waitopen"}, Leads(p)' <=> Leads(p),
         step \in Reads => cache[gen[p]].archive = "open"
  PROVE  LoadInv'
<1>1. gen[p] \in Generations /\ SameLoads(cache[gen[p]], cache[gen[p]])
  BY DEF LoadInv, LoadTypes, SameLoads
<1>2. cache' = [cache EXCEPT ![gen[p]] = cache[gen[p]]]
  BY DEF LoadInv, LoadTypes
<1> QED
  BY <1>1, <1>2, QuietStep

(* A thread at a step, to be compared with its next one.                   *)
LEMMA LeadsAt ==
  ASSUME LoadTypes, NEW p \in Openers, NEW step, at' = [at EXCEPT ![p] = step]
  PROVE  /\ at'[p] = step
         /\ Leads(p)' <=> step \in {"load", "map", "archive", "opening", "waitopen",
                "lookin", "entry", "protect", "slot", "inflate", "publish", "names", "finish"}
  BY DEF LoadTypes, Leads

(* A thread that loads looks, reads, publishes and names.                  *)
LEMMA LoadingSteps ==
  ASSUME LoadInv, NEW p \in Openers,
         \/ NotInDirectory(p) \/ CachedSource(p) \/ MapFile(p) \/ LookIn(p)
         \/ ProtectEntry(p) \/ EnterSlot(p) \/ Inflate(p) \/ ReadFails(p)
         \/ Publish(p) \/ CacheNames(p)
  PROVE  LoadInv'
<1> DEFINE c == cache[gen[p]]
<1>1. LoadTypes /\ gen[p] \in Generations /\ IsCache(c)
  BY DEF LoadInv, LoadTypes
<1>2. at[p] \in Reads => c.archive = "open"
  BY DEF LoadInv, ArchiveLed
<1> USE DEF Goto, store, memory, QuietSteps, Steps, Reads
<1>3. CASE NotInDirectory(p)
  <2>1. Leads(p)' <=> Leads(p)
    BY <1>1, <1>3, LeadsAt DEF NotInDirectory, Leads
  <2> QED
    BY <1>3, <2>1, QuietSame DEF NotInDirectory
<1>4. CASE CachedSource(p)
  <2> DEFINE dir == FileOf(name[p]) \in DirFiles
             k == c.sources[FileOf(name[p])]
             step == IF k # NoKey THEN IF dir THEN "names" ELSE "protect"
                     ELSE IF dir THEN "map" ELSE "slot"
  <2>1. /\ at' = [at EXCEPT ![p] = step] /\ name' = name /\ gen' = gen /\ current' = current
        /\ at[p] \in {"load", "entry"}
        /\ step = "slot" => at[p] = "entry"
    BY <1>4 DEF CachedSource, Locked
  <2>2. Leads(p)' <=> Leads(p)
    BY <1>1, <2>1, LeadsAt DEF Leads
  <2>3. step \in QuietSteps /\ (step \in Reads => c.archive = "open")
    BY <1>2, <2>1
  <2>4. CASE k # NoKey
    <3>1. cache' = [cache EXCEPT ![gen[p]] = Touch(c, k)]
      BY <1>4, <2>4 DEF CachedSource, Locked
    <3>2. NoNewBlob(c, Touch(c, k))
      BY <1>1, TouchKeeps
    <3> HIDE DEF step
    <3> QED
      BY <1>1, <2>1, <2>2, <2>3, <3>1, <3>2, QuietStep DEF NoNewBlob
  <2>5. CASE k = NoKey
    <3>1. cache' = cache
      BY <1>4, <2>5 DEF CachedSource
    <3> HIDE DEF step
    <3> QED
      BY <2>1, <2>2, <2>3, <3>1, QuietSame
  <2> QED
    BY <2>4, <2>5
<1>5. CASE MapFile(p)
  <2>1. Leads(p)' <=> Leads(p)
    BY <1>1, <1>5, LeadsAt DEF MapFile, Leads
  <2> QED
    BY <1>5, <2>1, QuietSame DEF MapFile
<1>6. CASE LookIn(p)
  <2> DEFINE step == IF FileOf(name[p]) \in ZipFiles THEN "entry" ELSE "finish"
  <2>1. /\ at' = [at EXCEPT ![p] = step] /\ name' = name /\ gen' = gen /\ current' = current
        /\ at[p] = "lookin" /\ cache' = cache
    BY <1>6 DEF LookIn
  <2>2. Leads(p)' <=> Leads(p)
    BY <1>1, <2>1, LeadsAt DEF Leads
  <2>3. step \in QuietSteps /\ c.archive = "open"
    BY <1>2, <2>1
  <2> HIDE DEF step
  <2> QED
    BY <2>1, <2>2, <2>3, QuietSame
<1>7. CASE ProtectEntry(p)
  <2>1. Leads(p)' <=> Leads(p)
    BY <1>1, <1>7, LeadsAt DEF ProtectEntry, Leads
  <2>2. cache' = [cache EXCEPT ![gen[p]] = Protect(c, data[p], lease[p])] /\ Leads(p)
    BY <1>7 DEF ProtectEntry, Locked, Leads
  <2>3. SameLoads(c, Protect(c, data[p], lease[p]))
    BY <1>1, ProtectKeeps
  <2> QED
    BY <1>1, <1>7, <2>1, <2>2, <2>3, QuietStep DEF ProtectEntry, Locked
<1>8. CASE EnterSlot(p)
  <2>1. Leads(p)' <=> Leads(p)
    BY <1>1, <1>8, LeadsAt DEF EnterSlot, Leads
  <2> QED
    BY <1>2, <1>8, <2>1, QuietSame DEF EnterSlot
<1>9. CASE Inflate(p)
  <2>1. Leads(p)' <=> Leads(p)
    BY <1>1, <1>9, LeadsAt DEF Inflate, Leads
  <2> QED
    BY <1>9, <2>1, QuietSame DEF Inflate
<1>10. CASE ReadFails(p)
  <2>1. Leads(p)' <=> Leads(p)
    BY <1>1, <1>10, LeadsAt DEF ReadFails, Leads
  <2> QED
    BY <1>10, <2>1, QuietSame DEF ReadFails
<1>11. CASE Publish(p)
  <2> DEFINE f == FileOf(name[p])
             k == c.sources[f]
             d == Protect(c, data[p], NoKey)
  <2>1. /\ at' = [at EXCEPT ![p] = "names"] /\ name' = name /\ gen' = gen
        /\ current' = current /\ at[p] = "publish" /\ Leads(p)
    BY <1>11 DEF Publish, Locked, Leads
  <2>2. Leads(p)' <=> Leads(p)
    BY <1>1, <2>1, LeadsAt
  <2>3. CASE cache' = cache
    BY <2>1, <2>2, <2>3, QuietSame
  <2>4. CASE cache' = [cache EXCEPT ![gen[p]] = Protect(c, k, NoKey)]
    <3>1. SameLoads(c, Protect(c, k, NoKey))
      BY <1>1, ProtectKeeps
    <3> QED
      BY <1>1, <2>1, <2>2, <2>4, <3>1, QuietStep
  <2>5. CASE cache' = [cache EXCEPT ![gen[p]] = [d EXCEPT !.sources[f] = data[p]]]
    <3>1. SameLoads(c, d) /\ IsCache(d)
      BY <1>1, ProtectKeeps DEF SameLoads
    <3> HIDE DEF d
    <3>2. SameLoads(c, [d EXCEPT !.sources[f] = data[p]])
      BY <3>1 DEF SameLoads, IsCache
    <3> QED
      BY <1>1, <2>1, <2>2, <2>5, <3>2, QuietStep
  <2> QED
    BY <1>11, <2>3, <2>4, <2>5 DEF Publish, Locked
<1>12. CASE CacheNames(p)
  <2> DEFINE k == data[p]
             f == FileOf(name[p])
             d == Protect(c, k, lease[p])
             one == SetName(d, name[p], k)
             e == IF one.names[f] = NoKey THEN SetName(one, f, k) ELSE one
  <2>1. /\ at' = [at EXCEPT ![p] = "finish"] /\ name' = name /\ gen' = gen
        /\ current' = current /\ at[p] = "names" /\ Leads(p)
        /\ cache' = cache \/ cache' = [cache EXCEPT ![gen[p]] = e]
    BY <1>12 DEF CacheNames, Locked, Leads
  <2>2. Leads(p)' <=> Leads(p)
    BY <1>1, <2>1, LeadsAt
  <2>3. SameLoads(c, d) /\ IsCache(d)
    BY <1>1, ProtectKeeps DEF SameLoads
  <2> HIDE DEF d
  <2>4. SameLoads(c, one) /\ IsCache(one)
    BY <2>3, SetNameKeeps, SameLoadsComposes DEF SameLoads
  <2> HIDE DEF one
  <2>5. SameLoads(c, e)
    BY <2>4, SetNameKeeps, SameLoadsComposes
  <2> HIDE DEF e
  <2> QED
    BY <1>1, <2>1, <2>2, <2>5, QuietStep, QuietSame
<1> QED
  BY <1>3, <1>4, <1>5, <1>6, <1>7, <1>8, <1>9, <1>10, <1>11, <1>12

(* A thread that finds what it looks for, or that holds an AAsset.         *)
LEMMA HitStep ==
  ASSUME LoadInv, NEW p \in Openers, NEW k, Hit(p, k), at[p] \in {"lookup", "begin"}
  PROVE  LoadInv'
<1> DEFINE c == cache[gen[p]]
<1>1. LoadTypes /\ gen[p] \in Generations /\ IsCache(c)
  BY DEF LoadInv, LoadTypes
<1>2. NoNewBlob(c, Touch(c, k))
  BY <1>1, TouchKeeps
<1>3. /\ at' = [at EXCEPT ![p] = Returns(k)] /\ name' = name /\ gen' = gen
      /\ current' = current /\ cache' = [cache EXCEPT ![gen[p]] = Touch(c, k)]
  BY DEF Hit, Goto, Locked
<1>4. Returns(k) \in {"got", "idle"}
  BY DEF Returns
<1>5. Leads(p)' <=> Leads(p)
  BY <1>1, <1>3, <1>4, LeadsAt DEF Leads
<1> QED
  BY <1>1, <1>2, <1>3, <1>4, <1>5, QuietStep DEF NoNewBlob, QuietSteps, Steps, Reads

LEMMA BorrowingSteps ==
  ASSUME LoadInv, NEW p \in Openers,
         \/ Borrow(p) \/ Claim(p) \/ RecordClaim(p) \/ Close(p)
         \/ EndBorrow(p) \/ Unpin(p)
  PROVE  LoadInv'
<1>1. LoadTypes /\ current \in Generations /\ \A g \in Generations : IsCache(cache[g])
  BY DEF LoadInv, LoadTypes
<1> USE DEF Goto, store, memory, QuietSteps, Steps, Reads
<1>2. CASE Borrow(p)
  <2> DEFINE step == IF borrows[data[p]].handles = 0 THEN "claim" ELSE "open"
  <2>1. /\ at' = [at EXCEPT ![p] = step] /\ name' = name /\ gen' = gen /\ current' = current
        /\ at[p] = "got" /\ cache' = cache
    BY <1>2 DEF Borrow
  <2>2. step \in {"claim", "open"}
    OBVIOUS
  <2> HIDE DEF step
  <2>3. Leads(p)' <=> Leads(p)
    BY <1>1, <2>1, <2>2, LeadsAt DEF Leads
  <2> QED
    BY <2>1, <2>2, <2>3, QuietSame
<1>3. CASE Claim(p)
  <2> DEFINE c == cache[current]
             k == data[p]
             lru == Without(c.lru, k)
  <2>1. CASE at' = [at EXCEPT ![p] = "open"] /\ UNCHANGED <<store, memory, tracked>>
    <3>1. Leads(p)' <=> Leads(p)
      BY <1>1, <1>3, <2>1, LeadsAt DEF Leads, Claim
    <3> QED
      BY <1>3, <2>1, <3>1, QuietSame DEF Claim
  <2>2. CASE /\ at' = [at EXCEPT ![p] = "record"]
             /\ Locked(current, [c EXCEPT !.lru = lru, !.handles[k] = @ + 1], {})
    <3>1. Leads(p)' <=> Leads(p)
      BY <1>1, <1>3, <2>2, LeadsAt DEF Leads, Claim
    <3>2. IsCache(c)
      BY <1>1
    <3>3. NoNewBlob(c, [c EXCEPT !.lru = lru, !.handles[k] = @ + 1])
      BY <3>2, LendKeeps
    <3> QED
      BY <1>1, <1>3, <2>2, <3>1, <3>3, QuietStep DEF Claim, Locked, NoNewBlob
  <2> QED
    BY <1>3, <2>1, <2>2 DEF Claim
<1>4. CASE RecordClaim(p)
  <2>1. Leads(p)' <=> Leads(p)
    BY <1>1, <1>4, LeadsAt DEF RecordClaim, Leads
  <2> QED
    BY <1>4, <2>1, QuietSame DEF RecordClaim
<1>5. CASE Close(p)
  <2> DEFINE step == IF borrows[data[p]].handles = 1 THEN "end" ELSE "idle"
  <2>1. /\ at' = [at EXCEPT ![p] = step] /\ name' = name /\ gen' = gen /\ current' = current
        /\ at[p] = "open" /\ cache' = cache
    BY <1>5 DEF Close
  <2>2. step \in {"end", "idle"}
    OBVIOUS
  <2> HIDE DEF step
  <2>3. Leads(p)' <=> Leads(p)
    BY <1>1, <2>1, <2>2, LeadsAt DEF Leads
  <2> QED
    BY <2>1, <2>2, <2>3, QuietSame
<1>6. CASE EndBorrow(p)
  <2> DEFINE g == tracked[p]
             c == Ended(cache[g], data[p])
  <2>1. /\ at' = [at EXCEPT ![p] = "unpin"] /\ name' = name /\ gen' = gen
        /\ current' = current /\ at[p] = "end"
        /\ cache' = cache \/ cache' = [cache EXCEPT ![g] = c]
    BY <1>6 DEF EndBorrow, Locked
  <2>2. Leads(p)' <=> Leads(p)
    BY <1>1, <2>1, LeadsAt DEF Leads
  <2>3. g \in Generations => NoNewBlob(cache[g], c)
    BY <1>1, EndedKeeps
  <2>4. g \notin Generations => cache' = cache
    BY <1>1, <2>1 DEF LoadTypes
  <2> HIDE DEF c
  <2> QED
    BY <2>1, <2>2, <2>3, <2>4, QuietStep, QuietSame DEF NoNewBlob
<1>7. CASE Unpin(p)
  <2>1. Leads(p)' <=> Leads(p)
    BY <1>1, <1>7, LeadsAt DEF Unpin, Leads
  <2> QED
    BY <1>7, <2>1, QuietSame DEF Unpin
<1> QED
  BY <1>2, <1>3, <1>4, <1>5, <1>6, <1>7

(* A thread turns to a name, or to newer sources.                          *)
LEMMA TurningSteps ==
  ASSUME LoadInv, NEW p \in Openers, Retry(p) \/ \E n \in Names : Open(p, n)
  PROVE  LoadInv'
<1>1. /\ cache' = cache /\ current' = current /\ at' = [at EXCEPT ![p] = "lookup"]
      /\ gen' = [gen EXCEPT ![p] = current]
      /\ at[p] \in {"idle", "begin"}
      /\ name' \in [Openers -> Names] /\ \A q \in Openers \ {p} : name'[q] = name[q]
  BY DEF LoadInv, LoadTypes, Retry, Open, Goto, store
<1>2. LoadTypes'
  BY <1>1 DEF LoadInv, LoadTypes, Steps
<1>3. ~Leads(p) /\ ~Leads(p)' /\ at'[p] = "lookup"
  BY <1>1 DEF LoadInv, LoadTypes, Leads
<1>4. \A q \in Openers \ {p} : /\ at'[q] = at[q] /\ gen'[q] = gen[q]
                               /\ name'[q] = name[q] /\ (Leads(q)' <=> Leads(q))
  BY <1>1 DEF LoadInv, LoadTypes, Leads
<1>5. LoadsLed'
  BY <1>1, <1>3, <1>4 DEF LoadInv, LoadsLed
<1>6. ArchiveLed'
  BY <1>1, <1>3, <1>4 DEF LoadInv, ArchiveLed, Reads
<1>7. AllLetGo'
  BY <1>1 DEF LoadInv, AllLetGo, LetGo
<1> QED
  BY <1>2, <1>5, <1>6, <1>7 DEF LoadInv

(* A thread misses: it waits for who loads the name, or leads its load.    *)
LEMMA BeginLoadStep ==
  ASSUME LoadInv, NEW p \in Openers, BeginLoad(p) PROVE LoadInv'
<1> DEFINE g == gen[p]
           c == cache[g]
           d == [c EXCEPT !.loads = c.loads \cup {name[p]}]
<1>1. LoadTypes /\ g \in Generations /\ IsCache(c) /\ at[p] = "begin" /\ ~c.retired
  BY DEF LoadInv, LoadTypes, BeginLoad
<1>2. CASE Hit(p, c.names[name[p]])
  BY <1>1, <1>2, HitStep
<1>3. CASE /\ at' = [at EXCEPT ![p] = "wait"] /\ UNCHANGED <<store, memory, name, gen>>
           /\ name[p] \in c.loads
  <2>1. LoadTypes' /\ cache' = cache
    BY <1>3 DEF LoadInv, LoadTypes, Steps, store
  <2>2. ~Leads(p) /\ ~Leads(p)' /\ at'[p] = "wait"
    BY <1>1, <1>3 DEF LoadTypes, Leads
  <2>3. \A q \in Openers \ {p} : at'[q] = at[q] /\ (Leads(q)' <=> Leads(q))
    BY <1>1, <1>3 DEF LoadTypes, Leads
  <2>4. LoadsLed'
    BY <1>3, <2>1, <2>2, <2>3 DEF LoadInv, LoadsLed
  <2>5. ArchiveLed'
    BY <1>1, <1>3, <2>1, <2>2, <2>3 DEF LoadInv, ArchiveLed, Reads
  <2>6. AllLetGo'
    BY <2>1 DEF LoadInv, AllLetGo, LetGo
  <2> QED
    BY <2>1, <2>4, <2>5, <2>6 DEF LoadInv
<1>4. CASE /\ at' = [at EXCEPT ![p] = "load"] /\ Locked(g, d, {}) /\ name' = name /\ gen' = gen
           /\ name[p] \notin c.loads
  <2>1. /\ IsCache(d) /\ d.loads = c.loads \cup {name[p]} /\ d.archive = c.archive
        /\ d.retired = c.retired
    BY <1>1 DEF IsCache
  <2>2. cache' = [cache EXCEPT ![g] = d] /\ current' = current
    BY <1>4 DEF Locked
  <2> HIDE DEF d
  <2>3. LoadTypes'
    BY <1>1, <1>4, <2>1, <2>2 DEF LoadTypes, Steps
  <2>4. cache'[g] = d /\ \A h \in Generations \ {g} : cache'[h] = cache[h]
    BY <1>1, <2>2 DEF LoadTypes
  <2>5. ~Leads(p) /\ Leads(p)' /\ at'[p] = "load"
    BY <1>1, <1>4 DEF LoadTypes, Leads
  <2>6. \A q \in Openers \ {p} : at'[q] = at[q] /\ (Leads(q)' <=> Leads(q))
    BY <1>1, <1>4 DEF LoadTypes, Leads
  <2>7. \A q \in Openers : gen[q] \in Generations /\ name[q] \in Names
    BY <1>1 DEF LoadTypes
  <2>8. LoadsLed'
    BY <1>4, <2>1, <2>4, <2>5, <2>6, <2>7 DEF LoadInv, LoadsLed
  <2>9. ArchiveLed'
    BY <1>1, <1>4, <2>1, <2>4, <2>5, <2>6, <2>7 DEF LoadInv, ArchiveLed, Reads
  <2>10. AllLetGo'
    BY <1>1, <2>1, <2>4 DEF LoadInv, AllLetGo, LetGo
  <2> QED
    BY <2>3, <2>8, <2>9, <2>10 DEF LoadInv
<1> QED
  BY <1>2, <1>3, <1>4 DEF BeginLoad, Goto

(* A thread needs the archive, and opens it unless it is.                  *)
LEMMA EnsureAPKStep ==
  ASSUME LoadInv, NEW p \in Openers, EnsureAPK(p) PROVE LoadInv'
<1> DEFINE g == gen[p]
           c == cache[g]
<1>1. LoadTypes /\ g \in Generations /\ IsCache(c) /\ at[p] = "archive" /\ Leads(p)
  BY DEF LoadInv, LoadTypes, EnsureAPK, Leads
<1>2. name' = name /\ gen' = gen /\ current' = current /\ c.loads # {}
  BY <1>1 DEF EnsureAPK, LoadInv, LoadsLed
<1>3. CASE c.archive = "open"
  <2>1. at' = [at EXCEPT ![p] = "lookin"] /\ cache' = cache
    BY <1>3 DEF EnsureAPK, Goto
  <2>2. Leads(p)'
    BY <1>1, <2>1, LeadsAt
  <2> QED
    BY <1>1, <1>2, <1>3, <2>1, <2>2, QuietSame DEF QuietSteps, Steps
<1>4. CASE c.archive # "open"
  <2> DEFINE d == [c EXCEPT !.archive = "opening"]
             step == IF c.archive = "opening" THEN "waitopen" ELSE "opening"
  <2>1. /\ IsCache(d) /\ d.loads = c.loads /\ d.archive = "opening" /\ d.retired = c.retired
    BY <1>1 DEF IsCache
  <2>2. cache' = [cache EXCEPT ![g] = d] /\ at' = [at EXCEPT ![p] = step]
    BY <1>4 DEF EnsureAPK, Goto
  <2>3. step \in {"waitopen", "opening"} /\ (step = "opening" <=> c.archive # "opening")
    OBVIOUS
  <2> HIDE DEF d, step
  <2>4. LoadTypes'
    BY <1>1, <1>2, <2>1, <2>2, <2>3 DEF LoadTypes, Steps
  <2>5. cache'[g] = d /\ \A h \in Generations \ {g} : cache'[h] = cache[h]
    BY <1>1, <2>2 DEF LoadTypes
  <2>6. Leads(p)' /\ at'[p] = step
    BY <1>1, <2>2, <2>3, LeadsAt
  <2>7. \A q \in Openers \ {p} : at'[q] = at[q] /\ (Leads(q)' <=> Leads(q))
    BY <1>1, <2>2 DEF LoadTypes, Leads
  <2>8. \A q \in Openers : gen[q] \in Generations /\ name[q] \in Names
    BY <1>1 DEF LoadTypes
  <2>9. LoadsLed'
    <3>1. \A h \in Generations : cache'[h].loads = cache[h].loads
      BY <2>1, <2>5
    <3>2. \A q \in Openers : (Leads(q)' <=> Leads(q)) /\ (at'[q] = "wait" => at[q] = "wait")
      BY <1>1, <2>3, <2>6, <2>7
    <3> QED
      BY <1>2, <2>8, <3>1, <3>2 DEF LoadInv, LoadsLed
  <2>10. ArchiveLed'
    BY <1>1, <1>2, <1>4, <2>1, <2>3, <2>5, <2>6, <2>7, <2>8 DEF LoadInv, ArchiveLed, Reads
  <2>11. AllLetGo'
    BY <1>1, <1>2, <2>1, <2>5 DEF LoadInv, AllLetGo, LetGo
  <2> QED
    BY <2>4, <2>9, <2>10, <2>11 DEF LoadInv
<1> QED
  BY <1>3, <1>4

(* The opener tells who waits for the archive.                             *)
LEMMA OpenArchiveStep ==
  ASSUME LoadInv, NEW p \in Openers, NEW ok \in BOOLEAN, OpenArchive(p, ok) PROVE LoadInv'
<1> DEFINE g == gen[p]
           c == cache[g]
           a == IF ok THEN "open" ELSE "unopened"
           d == [c EXCEPT !.archive = a]
           step == IF ok THEN "lookin" ELSE "finish"
           served == {q \in Openers : q = p \/ (at[q] = "waitopen" /\ gen[q] = g)}
<1>1. LoadTypes /\ g \in Generations /\ IsCache(c) /\ at[p] = "opening" /\ Leads(p)
  BY DEF LoadInv, LoadTypes, OpenArchive, Leads
<1>2. /\ name' = name /\ gen' = gen /\ current' = current /\ c.loads # {}
      /\ cache' = [cache EXCEPT ![g] = d]
      /\ at' = [q \in Openers |-> IF q \in served THEN step ELSE at[q]]
  BY <1>1 DEF OpenArchive, LoadInv, LoadsLed
<1>3. IsCache(d) /\ d.loads = c.loads /\ d.archive = a /\ d.retired = c.retired
  BY <1>1 DEF IsCache
<1>4. step \in {"lookin", "finish"} /\ (step = "lookin" => a = "open") /\ a # "opening"
  OBVIOUS
<1> HIDE DEF d, step, a
<1>5. LoadTypes'
  BY <1>1, <1>2, <1>3, <1>4 DEF LoadTypes, Steps
<1>6. cache'[g] = d /\ \A h \in Generations \ {g} : cache'[h] = cache[h]
  BY <1>1, <1>2 DEF LoadTypes
<1>7. \A q \in Openers : gen[q] \in Generations /\ name[q] \in Names
  BY <1>1 DEF LoadTypes
<1>8. \A q \in Openers : at'[q] = IF q \in served THEN step ELSE at[q]
  BY <1>2
<1>9. \A q \in Openers : (Leads(q)' <=> Leads(q)) /\ (at'[q] = "wait" => at[q] = "wait")
  BY <1>1, <1>4, <1>8 DEF Leads
<1>10. LoadsLed'
  <2>1. \A h \in Generations : cache'[h].loads = cache[h].loads
    BY <1>3, <1>6
  <2> QED
    BY <1>2, <1>7, <1>9, <2>1 DEF LoadInv, LoadsLed
<1>11. ArchiveLed'
  <2>1. \A q \in Openers : at'[q] = "opening" => at[q] = "opening" /\ gen[q] # g
    BY <1>1, <1>4, <1>8 DEF LoadInv, ArchiveLed
  <2>2. \A q \in Openers : at'[q] = "waitopen" => at[q] = "waitopen" /\ gen[q] # g
    BY <1>4, <1>8
  <2>3. \A q \in Openers : at'[q] \in Reads =>
            \/ gen[q] = g /\ a = "open"
            \/ at[q] \in Reads /\ gen[q] # g
    <3>1. \A q \in Openers : at[q] \in Reads => gen[q] # g
      BY <1>1 DEF LoadInv, ArchiveLed
    <3> QED
      BY <1>4, <1>8, <3>1 DEF Reads
  <2>4. \A h \in Generations \ {g} : \A q \in Openers :
            at[q] = "opening" /\ gen[q] = h => at'[q] = "opening"
    BY <1>8
  <2> QED
    BY <1>2, <1>3, <1>4, <1>6, <1>7, <2>1, <2>2, <2>3, <2>4 DEF LoadInv, ArchiveLed
<1>12. AllLetGo'
  BY <1>1, <1>2, <1>3, <1>6 DEF LoadInv, AllLetGo, LetGo
<1> QED
  BY <1>5, <1>10, <1>11, <1>12 DEF LoadInv

(* What the end of a load leaves of its cache.                             *)
LEMMA FinishedKeeps ==
  ASSUME NEW c, IsCache(c), NEW n, NEW k, NEW held
  PROVE  LET d == Finished(c, n, k, held)
         IN  /\ IsCache(d) /\ d.loads = c.loads \ {n} /\ d.retired = c.retired /\ LetGo(d)
             /\ d.loads # {} => d.archive = c.archive
             /\ d.archive \in {c.archive, "closed"}
<1> DEFINE c1 == Protect(c, k, held)
           cached == IF c.retired \/ c.names[n] # NoKey \/ k = Failed THEN c
                     ELSE IF k = NotExist THEN [c EXCEPT !.names[n] = NotExist]
                     ELSE SetName(c1, n, k)
           blob == IF held = NoKey /\ ~c.retired /\ c.names[n] = NoKey /\ k \in Keys
                   THEN k ELSE held
<1>1. SameLoads(c, cached)
  <2>1. SameLoads(c, c) /\ SameLoads(c, [c EXCEPT !.names[n] = NotExist])
    BY DEF SameLoads, IsCache
  <2>2. SameLoads(c, c1) /\ IsCache(c1)
    BY ProtectKeeps DEF SameLoads
  <2> HIDE DEF c1
  <2>3. SameLoads(c, SetName(c1, n, k))
    BY <2>2, SetNameKeeps, SameLoadsComposes
  <2> QED
    BY <2>1, <2>3
<1> DEFINE ended == [cached EXCEPT !.loads = cached.loads \ {n}]
<1>2. Finished(c, n, k, held) = DropRetired(Enforce(Release(ended, blob)))
  BY DEF Finished
<1> HIDE DEF c1, cached, blob
<1>3. /\ IsCache(ended) /\ ended.loads = c.loads \ {n} /\ ended.retired = c.retired
      /\ ended.archive = c.archive
  BY <1>1 DEF SameLoads, IsCache
<1> HIDE DEF ended
<1>4. NoNewBlob(ended, Release(ended, blob)) /\ IsCache(Release(ended, blob))
  BY <1>3, ReleaseKeeps, KeptIsCache
<1>5. NoNewBlob(ended, Enforce(Release(ended, blob)))
  BY <1>4, EnforceKeeps, NoNewBlobComposes
<1> DEFINE e == Enforce(Release(ended, blob))
<1>6. IsCache(e) /\ e.loads = ended.loads /\ e.retired = ended.retired /\ e.archive = ended.archive
  BY <1>5 DEF NoNewBlob, SameLoads
<1> HIDE DEF e
<1> QED
  BY <1>2, <1>3, <1>6, DropRetiredLetsGo DEF e

(* The leader of a load ends it, and with it goes who waits.               *)
LEMMA FinishLoadStep ==
  ASSUME LoadInv, NEW p \in Openers, FinishLoad(p) PROVE LoadInv'
<1> DEFINE g == gen[p]
           n == name[p]
           c == cache[g]
           d == Finished(c, n, data[p], lease[p])
           step == Returns(data[p])
           served == {q \in Openers :
                        q = p \/ (at[q] = "wait" /\ gen[q] = g /\ name[q] = n)}
<1>1. LoadTypes /\ g \in Generations /\ IsCache(c) /\ at[p] = "finish" /\ Leads(p)
  BY DEF LoadInv, LoadTypes, FinishLoad, Leads
<1>2. /\ name' = name /\ gen' = gen /\ current' = current
      /\ cache' = [cache EXCEPT ![g] = d]
      /\ at' = [q \in Openers |-> IF q \in served THEN step ELSE at[q]]
  BY DEF FinishLoad, Locked
<1>3. /\ IsCache(d) /\ d.loads = c.loads \ {n} /\ d.retired = c.retired /\ LetGo(d)
      /\ d.loads # {} => d.archive = c.archive
      /\ d.archive \in {c.archive, "closed"}
  BY <1>1, FinishedKeeps
<1>4. step \in {"got", "idle"}
  BY DEF Returns
<1> HIDE DEF d, step
<1>5. LoadTypes'
  BY <1>1, <1>2, <1>3, <1>4 DEF LoadTypes, Steps
<1>6. cache'[g] = d /\ \A h \in Generations \ {g} : cache'[h] = cache[h]
  BY <1>1, <1>2 DEF LoadTypes
<1>7. \A q \in Openers : gen[q] \in Generations /\ name[q] \in Names
  BY <1>1 DEF LoadTypes
<1>8. \A q \in Openers : at'[q] = IF q \in served THEN step ELSE at[q]
  BY <1>2
<1>9. \A q \in Openers : Leads(q)' <=> Leads(q) /\ q # p
  BY <1>1, <1>4, <1>8 DEF Leads
<1>10. \A q \in Openers : Leads(q) /\ q # p => ~(gen[q] = g /\ name[q] = n)
  BY <1>1 DEF LoadInv, LoadsLed
<1>11. LoadsLed'
  <2>1. \A q \in Openers : at'[q] = "wait" => at[q] = "wait" /\ ~(gen[q] = g /\ name[q] = n)
    BY <1>4, <1>8
  <2>2. \A q \in Openers : Leads(q)' \/ at'[q] = "wait" => name[q] \in cache'[gen[q]].loads
    BY <1>3, <1>6, <1>7, <1>9, <1>10, <2>1 DEF LoadInv, LoadsLed
  <2>3. \A q, r \in Openers :
            Leads(q)' /\ Leads(r)' /\ gen[q] = gen[r] /\ name[q] = name[r] => q = r
    BY <1>9 DEF LoadInv, LoadsLed
  <2>4. \A h \in Generations, m \in Names : m \in cache'[h].loads =>
            \E q \in Openers : Leads(q)' /\ gen[q] = h /\ name[q] = m
    <3> SUFFICES ASSUME NEW h \in Generations, NEW m \in Names, m \in cache'[h].loads
                 PROVE  \E q \in Openers : Leads(q)' /\ gen[q] = h /\ name[q] = m
      OBVIOUS
    <3>1. m \in cache[h].loads /\ ~(h = g /\ m = n)
      BY <1>3, <1>6
    <3>2. PICK q \in Openers : Leads(q) /\ gen[q] = h /\ name[q] = m
      BY <3>1 DEF LoadInv, LoadsLed
    <3> QED
      BY <1>9, <3>1, <3>2
  <2> QED
    BY <1>2, <2>2, <2>3, <2>4 DEF LoadsLed
<1>12. ArchiveLed'
  <2>1. \A q \in Openers : q # p /\ gen[q] = g /\ Leads(q) => d.archive = c.archive
    BY <1>3, <1>7, <1>10 DEF LoadInv, LoadsLed
  <2>2. \A q \in Openers : at'[q] \in Reads \cup {"opening", "waitopen"} =>
            q # p /\ at'[q] = at[q] /\ Leads(q)
    BY <1>4, <1>8 DEF Reads, Leads
  <2>3. \A q \in Openers : at[q] = "opening" => at'[q] = "opening"
    BY <1>1, <1>8
  <2>4. \A q \in Openers : at'[q] \in Reads \cup {"opening", "waitopen"} =>
            at'[q] = at[q] /\ cache'[gen[q]].archive = cache[gen[q]].archive
    BY <1>6, <1>7, <2>1, <2>2
  <2>5. \A h \in Generations : cache'[h].archive = "opening" => cache[h].archive = "opening"
    <3>1. d.archive = "opening" => c.archive = "opening"
      BY <1>3
    <3> QED
      BY <1>6, <3>1
  <2> QED
    BY <1>2, <2>2, <2>3, <2>4, <2>5 DEF LoadInv, ArchiveLed
<1>13. AllLetGo'
  BY <1>3, <1>6 DEF LoadInv, AllLetGo
<1> QED
  BY <1>5, <1>11, <1>12, <1>13 DEF LoadInv

(* No thread takes a step.                                                 *)
LEMMA RestingStep ==
  ASSUME LoadInv, cache' = cache, at' = at, name' = name, gen' = gen,
         current' \in Generations
  PROVE  LoadInv'
<1>1. LoadTypes'
  BY DEF LoadInv, LoadTypes
<1>2. \A q \in Openers : Leads(q)' <=> Leads(q)
  BY DEF Leads
<1>3. LoadsLed'
  BY <1>2 DEF LoadInv, LoadsLed
<1>4. ArchiveLed'
  BY DEF LoadInv, ArchiveLed
<1>5. AllLetGo'
  BY DEF LoadInv, AllLetGo, LetGo
<1> QED
  BY <1>1, <1>3, <1>4, <1>5 DEF LoadInv

(* New sources are published, and the old retired.                         *)
LEMMA SourcesChange ==
  ASSUME LoadInv, SetAssets \/ Retire PROVE LoadInv'
<1>1. CASE SetAssets
  <2>1. /\ cache' = cache /\ at' = at /\ name' = name /\ gen' = gen
        /\ current' = current + 1 /\ current < MaxGeneration /\ current \in Generations
    BY <1>1 DEF SetAssets, opener, LoadInv, LoadTypes
  <2>2. current' \in Generations
    BY <2>1, AssetAssumption DEF Generations
  <2> QED
    BY <2>1, <2>2, RestingStep
<1>2. CASE Retire
  <2> DEFINE g == retiring
             c == cache[g]
             e == [c EXCEPT !.retired = TRUE]
             d == DropRetired(e)
  <2>1. /\ cache' = [cache EXCEPT ![g] = d] /\ at' = at /\ name' = name /\ gen' = gen
        /\ current' = current
    BY <1>2 DEF Retire, opener
  <2>2. CASE g \notin Generations
    <3>1. cache' = cache
      BY <2>1, <2>2 DEF LoadInv, LoadTypes
    <3> QED
      BY <2>1, <3>1, RestingStep DEF LoadInv, LoadTypes
  <2>3. CASE g \in Generations
    <3>1. IsCache(e) /\ e.loads = c.loads /\ e.archive = c.archive
      <4>1. IsCache(c)
        BY <2>3 DEF LoadInv, LoadTypes
      <4>2. \A x : LET b == [c EXCEPT !.retired = x]
                   IN  IsCache(b) /\ b.loads = c.loads /\ b.archive = c.archive
        BY <4>1, RetiringKeeps
      <4> QED
        BY Zenon, <4>2
    <3> HIDE DEF e
    <3>2. /\ IsCache(d) /\ d.loads = c.loads /\ LetGo(d)
          /\ c.loads # {} => d.archive = c.archive
          /\ d.archive \in {c.archive, "closed"}
      BY <3>1, DropRetiredLetsGo
    <3> HIDE DEF d
    <3>3. LoadTypes'
      BY <2>1, <2>3, <3>2 DEF LoadInv, LoadTypes
    <3>4. cache'[g] = d /\ \A h \in Generations \ {g} : cache'[h] = cache[h]
      BY <2>1, <2>3 DEF LoadInv, LoadTypes
    <3>5. \A q \in Openers : gen[q] \in Generations /\ name[q] \in Names
      BY DEF LoadInv, LoadTypes
    <3>6. \A h \in Generations : cache'[h].loads = cache[h].loads
      BY <3>2, <3>4
    <3>7. LoadsLed'
      BY <2>1, <3>5, <3>6 DEF LoadInv, LoadsLed, Leads
    <3>8. \A q \in Openers : at[q] \in Reads \cup {"opening", "waitopen"} =>
              cache'[gen[q]].archive = cache[gen[q]].archive
      <4> SUFFICES ASSUME NEW q \in Openers, at[q] \in Reads \cup {"opening", "waitopen"}
                   PROVE  cache'[gen[q]].archive = cache[gen[q]].archive
        OBVIOUS
      <4>1. Leads(q)
        BY DEF Leads, Reads
      <4>2. cache[gen[q]].loads # {}
        BY <4>1 DEF LoadInv, LoadsLed
      <4> QED
        BY <3>2, <3>4, <3>5, <4>2
    <3>9. \A h \in Generations : cache'[h].archive = "opening" => cache[h].archive = "opening"
      BY <3>2, <3>4
    <3>10. ArchiveLed'
      BY <2>1, <3>5, <3>8, <3>9 DEF LoadInv, ArchiveLed
    <3>11. AllLetGo'
      BY <3>2, <3>4 DEF LoadInv, AllLetGo
    <3> QED
      BY <3>3, <3>7, <3>10, <3>11 DEF LoadInv
  <2> QED
    BY <2>2, <2>3
<1> QED
  BY <1>1, <1>2

LEMMA LoadInvariant == Spec => []LoadInv
<1>1. Init => LoadInv
  <2> SUFFICES ASSUME Init PROVE LoadInv
    OBVIOUS
  <2>1. \A g \in Generations : cache[g] = NewCache
    BY DEF Init
  <2>2. IsCache(NewCache) /\ NewCache.loads = {} /\ NewCache.archive = "unopened"
        /\ ~NewCache.retired
    BY DEF IsCache, NewCache
  <2>3. \A p \in Openers : at[p] = "idle" /\ gen[p] \in Generations
    BY AssetAssumption DEF Init, Generations
  <2>4. LoadTypes
    BY <2>1, <2>2, AssetAssumption DEF Init, LoadTypes, Steps, Names, Generations
  <2>5. LoadsLed /\ ArchiveLed
    BY <2>1, <2>2, <2>3 DEF LoadsLed, ArchiveLed, Leads, Reads
  <2>6. AllLetGo
    BY <2>1, <2>2 DEF AllLetGo, LetGo
  <2> QED
    BY <2>4, <2>5, <2>6 DEF LoadInv
<1>2. LoadInv /\ [Next]_vars => LoadInv'
  <2> SUFFICES ASSUME LoadInv, [Next]_vars PROVE LoadInv'
    OBVIOUS
  <2>1. CASE UNCHANGED vars
    BY <2>1, RestingStep DEF vars, store, opener, LoadInv, LoadTypes
  <2>2. ASSUME NEW p \in Openers, Step(p) PROVE LoadInv'
    <3>1. CASE CachedName(p)
      <4>1. CASE Hit(p, cache[gen[p]].names[name[p]])
        BY <3>1, <4>1, HitStep DEF CachedName
      <4>2. CASE Goto(p, "begin") /\ UNCHANGED <<store, memory, name, gen, data, lease, tracked>>
        <5>1. Leads(p)' <=> Leads(p)
          BY <3>1, <4>2, LeadsAt DEF CachedName, Goto, Leads, LoadInv
        <5> QED
          BY <3>1, <4>2, <5>1, QuietSame DEF CachedName, Goto, store, QuietSteps, Steps, Reads
      <4> QED
        BY <3>1, <4>1, <4>2 DEF CachedName
    <3>2. CASE \E ok \in BOOLEAN : OpenArchive(p, ok)
      BY <3>2, OpenArchiveStep
    <3> QED
      BY <2>2, <3>1, <3>2, TurningSteps, BeginLoadStep, LoadingSteps, EnsureAPKStep,
         FinishLoadStep, BorrowingSteps DEF Step
  <2> QED
    BY <2>1, <2>2, SourcesChange, TurningSteps, BorrowingSteps DEF Next
<1> QED
  BY <1>1, <1>2, PTL DEF Spec

(* A load has one leader, who opens the file and wakes who waits for it;   *)
(* nobody waits for a load, or for an archive, that nobody works on        *)
(* (beginLoad, ensureAPK, finishLoad).                                     *)
THEOREM OneLeaderPerLoad == Spec => []SingleFlight
<1>1. LoadInv => SingleFlight
  <2> SUFFICES ASSUME LoadInv PROVE SingleFlight
    OBVIOUS
  <2>1. ASSUME NEW g \in Generations, NEW n \in Names
        PROVE  Cardinality({p \in Openers : gen[p] = g /\ name[p] = n /\ Leads(p)})
                   = IF n \in cache[g].loads THEN 1 ELSE 0
    <3> DEFINE L == {p \in Openers : gen[p] = g /\ name[p] = n /\ Leads(p)}
    <3>1. CASE n \in cache[g].loads
      <4>1. PICK p \in Openers : Leads(p) /\ gen[p] = g /\ name[p] = n
        BY <3>1 DEF LoadInv, LoadsLed
      <4>2. L = {p}
        BY <4>1 DEF LoadInv, LoadsLed
      <4> QED
        BY <3>1, <4>2, FS_Singleton
    <3>2. CASE n \notin cache[g].loads
      <4>1. L = {}
        BY <3>2 DEF LoadInv, LoadsLed
      <4> QED
        BY <3>2, <4>1, FS_EmptySet
    <3> QED
      BY <3>1, <3>2
  <2>2. ASSUME NEW q \in Openers, at[q] = "waitopen"
        PROVE  \E p \in Openers : gen[p] = gen[q] /\ at[p] = "opening"
    BY <2>2 DEF LoadInv, LoadTypes, ArchiveLed
  <2> QED
    BY <2>1, <2>2 DEF SingleFlight, LoadInv, LoadsLed
<1> QED
  BY <1>1, LoadInvariant, PTL

(* The archive of retired sources stays open for who reads it, and when    *)
(* their last load has ended nothing of them is left                       *)
(* (dropRetiredCachesLocked).                                              *)
THEOREM RetiredSourcesLetGo == Spec => []RetiredLetsGo
<1>1. LoadInv => RetiredLetsGo
  BY DEF LoadInv, ArchiveLed, Reads, AllLetGo, LetGo, RetiredLetsGo
<1> QED
  BY <1>1, LoadInvariant, PTL
-----------------------------------------------------------------------------
(* The inductive invariant of the pins.                                    *)

Ending(p) == at[p] \in {"end", "unpin"}
Holders(k) == {p \in Openers : Holds(p) /\ data[p] = k}
Enders(k) == {p \in Openers : Ending(p) /\ data[p] = k}

BorrowRecords ==
    borrows = [k \in Keys |-> [handles |-> borrows[k].handles, tracks |-> borrows[k].tracks]]

PinTypes ==
    /\ mapped \subseteq Maps /\ pins \in [Maps -> Nat]
    /\ BorrowRecords
    /\ at \in [Openers -> Steps] /\ data = [p \in Openers |-> data[p]]
    /\ \A p \in Openers : at[p] = "got" \/ Holds(p) \/ Ending(p) => data[p] \in Keys

(* The borrows of a blob count who holds it; a mapping that is there has   *)
(* one pin for all of them and one for each that is giving its own back.   *)
PinCounts ==
    /\ \A k \in Keys : borrows[k].handles = Cardinality(Holders(k))
    /\ \A k \in Maps \ mapped : pins[k] = 0
    /\ \A k \in mapped :
          pins[k] = Cardinality(Enders(k)) + (IF Holders(k) = {} THEN 0 ELSE 1)

PinInv == PinTypes /\ PinCounts

LEMMA CountsAreFinite ==
  ASSUME NEW k
  PROVE  /\ IsFiniteSet(Holders(k)) /\ IsFiniteSet(Enders(k))
         /\ Cardinality(Holders(k)) \in Nat /\ Cardinality(Enders(k)) \in Nat
         /\ Cardinality(Holders(k)) = 0 <=> Holders(k) = {}
         /\ Cardinality(Enders(k)) = 0 <=> Enders(k) = {}
<1>1. Holders(k) \subseteq Openers /\ Enders(k) \subseteq Openers /\ IsFiniteSet(Openers)
  BY AssetAssumption DEF Holders, Enders
<1>2. IsFiniteSet(Holders(k)) /\ IsFiniteSet(Enders(k))
  BY <1>1, FS_Subset
<1> QED
  BY <1>2, FS_CardinalityType, FS_EmptySet

(* The mapping of a thread that holds it is pinned.                        *)
LEMMA HeldIsPinned ==
  ASSUME PinInv, NEW p \in Openers, Holds(p), data[p] \in mapped
  PROVE  pins[data[p]] = Cardinality(Enders(data[p])) + 1 /\ pins[data[p]] # 0
<1>1. Holders(data[p]) # {} /\ Cardinality(Enders(data[p])) \in Nat
  BY CountsAreFinite DEF Holders
<1> QED
  BY <1>1 DEF PinInv, PinCounts

(* A step that gives nobody a hold of anything nor takes one away, and     *)
(* that unmaps nothing that is pinned.                                     *)
LEMMA UnpinnedStep ==
  ASSUME PinInv, at' \in [Openers -> Steps], data' = [p \in Openers |-> data'[p]],
         pins' = pins, BorrowRecords',
         \A k \in Keys : borrows'[k].handles = borrows[k].handles,
         mapped' \subseteq mapped, \A k \in mapped \ mapped' : pins[k] = 0,
         \A p \in Openers :
             /\ (Holds(p)' <=> Holds(p)) /\ (Ending(p)' <=> Ending(p))
             /\ Holds(p) \/ Ending(p) => data'[p] = data[p]
             /\ at'[p] = "got" => data'[p] \in Keys
  PROVE  /\ PinInv'
         /\ \A p \in Openers : Holds(p) /\ data[p] \in mapped => data[p] \in mapped'
<1>1. PinTypes'
  BY DEF PinInv, PinTypes
<1>2. \A k : Holders(k)' = Holders(k) /\ Enders(k)' = Enders(k)
  BY DEF Holders, Enders
<1>3. PinCounts'
  <2>1. \A k \in Keys : borrows'[k].handles = Cardinality(Holders(k)')
    BY <1>2 DEF PinInv, PinCounts
  <2>2. \A k \in Maps \ mapped' : pins'[k] = 0
    BY DEF PinInv, PinCounts
  <2>3. \A k \in mapped' :
          pins'[k] = Cardinality(Enders(k)') + (IF Holders(k)' = {} THEN 0 ELSE 1)
    BY <1>2 DEF PinInv, PinCounts
  <2> QED
    BY <2>1, <2>2, <2>3 DEF PinCounts
<1> QED
  BY <1>1, <1>3, HeldIsPinned DEF PinInv

KeepsHeld == \A p \in Openers : Holds(p) /\ data[p] \in mapped => data[p] \in mapped'

(* The pins stay, and what is unmapped is not pinned.                      *)
Safely ==
    /\ pins' = pins /\ borrows' = borrows
    /\ mapped' \subseteq mapped /\ \A k \in mapped \ mapped' : pins[k] = 0

LEMMA LockedSafely ==
  ASSUME NEW g, NEW c, NEW discarded, Locked(g, c, discarded) PROVE Safely
  BY DEF Locked, Safely

LEMMA RestsSafely == ASSUME UNCHANGED memory PROVE Safely
  BY DEF memory, Safely

(* One thread moves, with x in its hands.                                  *)
LEMMA UnpinnedMove ==
  ASSUME PinInv, NEW p \in Openers, NEW step \in Steps, NEW x,
         at' = [at EXCEPT ![p] = step], data' = [data EXCEPT ![p] = x], Safely,
         at[p] \in {"claim", "record", "open"} <=> step \in {"claim", "record", "open"},
         at[p] \in {"end", "unpin"} <=> step \in {"end", "unpin"},
         Holds(p) \/ Ending(p) => x = data[p],
         step = "got" => x \in Keys
  PROVE  PinInv' /\ KeepsHeld
<1>1. at' \in [Openers -> Steps] /\ data' = [q \in Openers |-> data'[q]]
  BY DEF PinInv, PinTypes
<1>2. \A q \in Openers : at'[q] = (IF q = p THEN step ELSE at[q])
                       /\ data'[q] = (IF q = p THEN x ELSE data[q])
  BY DEF PinInv, PinTypes
<1>3. \A q \in Openers :
          /\ (Holds(q)' <=> Holds(q)) /\ (Ending(q)' <=> Ending(q))
          /\ Holds(q) \/ Ending(q) => data'[q] = data[q]
          /\ at'[q] = "got" => data'[q] \in Keys
  BY <1>2 DEF Holds, Ending, PinInv, PinTypes
<1>4. BorrowRecords'
  BY DEF Safely, PinInv, PinTypes, BorrowRecords
<1> QED
  BY <1>1, <1>3, <1>4, UnpinnedStep DEF Safely, KeepsHeld

(* So it does with nothing new in its hands.                               *)
LEMMA UnpinnedWalk ==
  ASSUME PinInv, NEW p \in Openers, NEW step \in Steps,
         at' = [at EXCEPT ![p] = step], data' = data, Safely,
         at[p] \in {"claim", "record", "open"} <=> step \in {"claim", "record", "open"},
         at[p] \in {"end", "unpin"} <=> step \in {"end", "unpin"},
         step # "got"
  PROVE  PinInv' /\ KeepsHeld
<1>1. data' = [data EXCEPT ![p] = data[p]]
  BY DEF PinInv, PinTypes
<1> QED
  BY <1>1, UnpinnedMove

LEMMA UnpinnedHit ==
  ASSUME PinInv, NEW p \in Openers, NEW k, Hit(p, k), at[p] \in {"lookup", "begin"}
  PROVE  PinInv' /\ KeepsHeld
<1>1. Returns(k) \in {"got", "idle"} /\ (Returns(k) = "got" => Result(k) \in Keys)
  BY DEF Returns, Result
<1>2. Safely
  BY LockedSafely DEF Hit
<1>3. Returns(k) \in Steps
  BY <1>1 DEF Steps
<1>4. at' = [at EXCEPT ![p] = Returns(k)] /\ data' = [data EXCEPT ![p] = Result(k)]
  BY DEF Hit, Goto, Has
<1>5. ~Holds(p) /\ ~Ending(p)
  BY DEF Holds, Ending
<1> QED
  BY <1>1, <1>2, <1>3, <1>4, <1>5, UnpinnedMove

LEMMA UnpinnedSteps ==
  ASSUME PinInv, NEW p \in Openers,
         \/ CachedName(p) \/ Retry(p) \/ BeginLoad(p) \/ NotInDirectory(p)
         \/ CachedSource(p) \/ EnsureAPK(p) \/ LookIn(p)
         \/ ProtectEntry(p) \/ EnterSlot(p) \/ Inflate(p) \/ ReadFails(p)
         \/ Publish(p) \/ CacheNames(p) \/ Claim(p) \/ EndBorrow(p)
         \/ \E n \in Names : Open(p, n)
  PROVE  PinInv' /\ KeepsHeld
<1> USE DEF Goto, Has
<1>1. CASE CachedName(p)
  <2>1. CASE Hit(p, cache[gen[p]].names[name[p]])
    BY <1>1, <2>1, UnpinnedHit DEF CachedName
  <2>2. CASE at' = [at EXCEPT ![p] = "begin"] /\ UNCHANGED <<memory, data>>
    BY <1>1, <2>2, RestsSafely, UnpinnedWalk DEF CachedName, Steps
  <2> QED
    BY <1>1, <2>1, <2>2 DEF CachedName
<1>2. CASE Retry(p)
  BY <1>2, RestsSafely, UnpinnedWalk DEF Retry, Steps
<1>3. CASE BeginLoad(p)
  <2>1. CASE Hit(p, cache[gen[p]].names[name[p]])
    BY <1>3, <2>1, UnpinnedHit DEF BeginLoad
  <2>2. CASE /\ \E step \in {"wait", "load"} : at' = [at EXCEPT ![p] = step]
             /\ data' = data /\ Safely
    BY <1>3, <2>2, UnpinnedWalk DEF BeginLoad, Steps
  <2> QED
    BY <1>3, <2>1, <2>2, RestsSafely, LockedSafely DEF BeginLoad
<1>4. CASE NotInDirectory(p)
  BY <1>4, RestsSafely, UnpinnedWalk DEF NotInDirectory, Steps
<1>5. CASE CachedSource(p)
  <2>1. at[p] \in {"load", "entry"} /\ ~Holds(p) /\ ~Ending(p)
    BY <1>5 DEF CachedSource, Holds, Ending
  <2>2. CASE /\ \E step \in {"names", "protect"} : at' = [at EXCEPT ![p] = step]
             /\ \E k : data' = [data EXCEPT ![p] = k]
             /\ Safely
    BY <2>1, <2>2, UnpinnedMove DEF Steps
  <2>3. CASE /\ \E step \in {"map", "slot"} : at' = [at EXCEPT ![p] = step]
             /\ data' = data /\ Safely
    BY <2>1, <2>3, UnpinnedWalk DEF Steps
  <2> QED
    BY <1>5, <2>2, <2>3, RestsSafely, LockedSafely DEF CachedSource
<1>6. CASE EnsureAPK(p)
  <2>1. \E step \in {"lookin", "waitopen", "opening"} : at' = [at EXCEPT ![p] = step]
    BY <1>6 DEF EnsureAPK
  <2> QED
    BY <1>6, <2>1, RestsSafely, UnpinnedWalk DEF EnsureAPK, Steps
<1>7. CASE LookIn(p)
  <2>1. at[p] = "lookin" /\ ~Holds(p) /\ ~Ending(p) /\ Safely
    BY <1>7, RestsSafely DEF LookIn, Holds, Ending
  <2>2. CASE at' = [at EXCEPT ![p] = "entry"] /\ data' = data
    BY <2>1, <2>2, UnpinnedWalk DEF Steps
  <2>3. CASE at' = [at EXCEPT ![p] = "finish"] /\ data' = [data EXCEPT ![p] = NotExist]
    BY <2>1, <2>3, UnpinnedMove DEF Steps
  <2> QED
    BY <1>7, <2>2, <2>3 DEF LookIn
<1>8. CASE ProtectEntry(p)
  BY <1>8, LockedSafely, UnpinnedWalk DEF ProtectEntry, Steps
<1>9. CASE EnterSlot(p)
  BY <1>9, RestsSafely, UnpinnedWalk DEF EnterSlot, Steps
<1>10. CASE Inflate(p)
  <2>1. at[p] = "inflate" /\ ~Holds(p) /\ ~Ending(p) /\ Safely
    BY <1>10, RestsSafely DEF Inflate, Holds, Ending
  <2> QED
    BY <1>10, <2>1, UnpinnedMove DEF Inflate, Steps
<1>11. CASE ReadFails(p)
  <2>1. at[p] \in {"map", "inflate"} /\ ~Holds(p) /\ ~Ending(p) /\ Safely
    BY <1>11, RestsSafely DEF ReadFails, Holds, Ending
  <2> QED
    BY <1>11, <2>1, UnpinnedMove DEF ReadFails, Steps
<1>12. CASE Publish(p)
  <2>1. /\ at[p] = "publish" /\ ~Holds(p) /\ ~Ending(p) /\ Safely
        /\ at' = [at EXCEPT ![p] = "names"]
    BY <1>12, RestsSafely, LockedSafely DEF Publish, Holds, Ending
  <2>2. CASE data' = data
    BY <2>1, <2>2, UnpinnedWalk DEF Steps
  <2>3. CASE data' = [data EXCEPT ![p] = cache[gen[p]].sources[FileOf(name[p])]]
    BY <2>1, <2>3, UnpinnedMove DEF Steps
  <2> QED
    BY <1>12, <2>2, <2>3 DEF Publish
<1>13. CASE CacheNames(p)
  <2>1. /\ at[p] = "names" /\ Safely /\ at' = [at EXCEPT ![p] = "finish"] /\ data' = data
    BY <1>13, RestsSafely, LockedSafely DEF CacheNames
  <2> QED
    BY <2>1, UnpinnedWalk DEF Steps
<1>14. CASE Claim(p)
  <2>1. /\ at[p] = "claim" /\ Safely /\ data' = data
        /\ \E step \in {"open", "record"} : at' = [at EXCEPT ![p] = step]
    BY <1>14, RestsSafely, LockedSafely DEF Claim
  <2> QED
    BY <2>1, UnpinnedWalk DEF Steps
<1>15. CASE EndBorrow(p)
  <2>1. /\ at[p] = "end" /\ Safely /\ data' = data /\ at' = [at EXCEPT ![p] = "unpin"]
    BY <1>15, RestsSafely, LockedSafely DEF EndBorrow
  <2> QED
    BY <2>1, UnpinnedWalk DEF Steps
<1>16. CASE \E n \in Names : Open(p, n)
  BY <1>16, RestsSafely, UnpinnedWalk DEF Open, Steps
<1> QED
  BY <1>1, <1>2, <1>3, <1>4, <1>5, <1>6, <1>7, <1>8, <1>9, <1>10, <1>11, <1>12, <1>13,
     <1>14, <1>15, <1>16

(* The claim is recorded beside the handles, which stay.                   *)
LEMMA UnpinnedRecord == ASSUME PinInv, NEW p \in Openers, RecordClaim(p) PROVE PinInv' /\ KeepsHeld
<1>1. at' = [at EXCEPT ![p] = "open"] /\ at[p] = "record" /\ data' = data
      /\ mapped' = mapped /\ pins' = pins
  BY DEF RecordClaim, Goto
<1>2. at' \in [Openers -> Steps] /\ data' = [q \in Openers |-> data'[q]]
  BY <1>1 DEF PinInv, PinTypes, Steps
<1>3. /\ BorrowRecords'
      /\ \A k \in Keys : borrows'[k].handles = borrows[k].handles
  <2>1. borrows' = [borrows EXCEPT ![data[p]].tracks = tracked[p]]
    BY DEF RecordClaim
  <2>2. data[p] \in Keys /\ BorrowRecords
    BY <1>1 DEF PinInv, PinTypes, Holds
  <2> QED
    BY <2>1, <2>2 DEF BorrowRecords
<1>4. \A q \in Openers :
          /\ (Holds(q)' <=> Holds(q)) /\ (Ending(q)' <=> Ending(q))
          /\ data'[q] = data[q] /\ (at'[q] = "got" => at[q] = "got")
  BY <1>1 DEF Holds, Ending, PinInv, PinTypes
<1> QED
  BY <1>1, <1>2, <1>3, <1>4, UnpinnedStep DEF KeepsHeld, PinInv, PinTypes

(* Threads that wait are told.                                             *)
LEMMA UnpinnedTold ==
  ASSUME PinInv, NEW p \in Openers, (\E ok \in BOOLEAN : OpenArchive(p, ok)) \/ FinishLoad(p)
  PROVE  PinInv' /\ KeepsHeld
<1>1. Safely
  BY RestsSafely, LockedSafely DEF OpenArchive, FinishLoad
<1>2. /\ at' \in [Openers -> Steps] /\ data' = [q \in Openers |-> data'[q]]
      /\ \A q \in Openers :
             \/ at'[q] = at[q] /\ data'[q] = data[q]
             \/ /\ at[q] \in {"opening", "waitopen", "finish", "wait"}
                /\ at'[q] \in {"lookin", "finish", "got", "idle"}
                /\ at'[q] = "got" => data'[q] \in Keys
  <2>1. CASE FinishLoad(p)
    BY <2>1 DEF FinishLoad, Returns, Result, PinInv, PinTypes, Steps
  <2>2. ASSUME NEW ok \in BOOLEAN, OpenArchive(p, ok)
        PROVE  /\ at' \in [Openers -> Steps] /\ data' = [q \in Openers |-> data'[q]]
               /\ \A q \in Openers :
                      \/ at'[q] = at[q] /\ data'[q] = data[q]
                      \/ /\ at[q] \in {"opening", "waitopen"}
                         /\ at'[q] \in {"lookin", "finish"}
    BY <2>2 DEF OpenArchive, PinInv, PinTypes, Steps
  <2> QED
    BY <2>1, <2>2
<1>3. \A q \in Openers :
          /\ (Holds(q)' <=> Holds(q)) /\ (Ending(q)' <=> Ending(q))
          /\ Holds(q) \/ Ending(q) => data'[q] = data[q]
          /\ at'[q] = "got" => data'[q] \in Keys
  BY <1>2 DEF Holds, Ending, PinInv, PinTypes
<1>4. BorrowRecords'
  BY <1>1 DEF Safely, PinInv, PinTypes, BorrowRecords
<1> QED
  BY <1>1, <1>2, <1>3, <1>4, UnpinnedStep DEF Safely, KeepsHeld

(* New sources, and what the retired ones let go.                          *)
LEMMA UnpinnedSources == ASSUME PinInv, SetAssets \/ Retire PROVE PinInv' /\ KeepsHeld
<1>1. Safely /\ at' = at /\ data' = data
  BY RestsSafely DEF SetAssets, Retire, Safely, opener
<1>2. \A q \in Openers :
          /\ (Holds(q)' <=> Holds(q)) /\ (Ending(q)' <=> Ending(q))
          /\ at'[q] = "got" => data'[q] \in Keys
  BY <1>1 DEF Holds, Ending, PinInv, PinTypes
<1> QED
  BY <1>1, <1>2, UnpinnedStep DEF Safely, KeepsHeld, PinInv, PinTypes, BorrowRecords

(* A new mapping is nobody's yet.                                          *)
LEMMA MapFilePins == ASSUME PinInv, NEW p \in Openers, MapFile(p) PROVE PinInv' /\ KeepsHeld
<1>1. PICK k \in Fresh(Maps) : data' = [data EXCEPT ![p] = k] /\ mapped' = mapped \cup {k}
  BY DEF MapFile, Has
<1>2. /\ k \in Maps \ mapped /\ \A q \in Openers : data[q] # k
      /\ pins' = pins /\ borrows' = borrows
      /\ at' = [at EXCEPT ![p] = "publish"] /\ at[p] = "map"
  BY <1>1 DEF MapFile, Goto, Fresh
<1>3. PinTypes'
  BY <1>1, <1>2 DEF PinInv, PinTypes, BorrowRecords, Holds, Ending, Steps
<1>4. \A l : Holders(l)' = Holders(l) /\ Enders(l)' = Enders(l)
  BY <1>1, <1>2 DEF Holders, Enders, Holds, Ending, PinInv, PinTypes
<1>5. Holders(k) = {} /\ Cardinality(Enders(k)) = 0
  BY <1>2, CountsAreFinite DEF Holders, Enders
<1>6. PinCounts'
  <2>1. \A l \in Keys : borrows'[l].handles = Cardinality(Holders(l)')
    BY <1>2, <1>4 DEF PinInv, PinCounts
  <2>2. \A l \in Maps \ mapped' : pins'[l] = 0
    BY <1>1, <1>2 DEF PinInv, PinCounts
  <2>3. \A l \in mapped' :
          pins'[l] = Cardinality(Enders(l)') + (IF Holders(l)' = {} THEN 0 ELSE 1)
    BY <1>1, <1>2, <1>4, <1>5 DEF PinInv, PinCounts
  <2> QED
    BY <2>1, <2>2, <2>3 DEF PinCounts
<1> QED
  BY <1>1, <1>3, <1>6 DEF PinInv, KeepsHeld

(* The first to hold a blob pins it.                                       *)
LEMMA BorrowPins == ASSUME PinInv, NEW p \in Openers, Borrow(p) PROVE PinInv' /\ KeepsHeld
<1> SUFFICES ASSUME NEW k, k = data[p] PROVE PinInv' /\ KeepsHeld
  OBVIOUS
<1> DEFINE first == borrows[k].handles = 0
<1>1. /\ at[p] = "got" /\ k \in Keys /\ data' = data /\ mapped' = mapped
      /\ \E step \in {"claim", "open"} : at' = [at EXCEPT ![p] = step]
      /\ borrows' = [borrows EXCEPT ![k].handles = borrows[k].handles + 1]
      /\ pins' = IF first /\ k \in mapped THEN [pins EXCEPT ![k] = @ + 1] ELSE pins
  BY DEF Borrow, Goto, PinInv, PinTypes
<1>2. /\ BorrowRecords' /\ borrows'[k].handles = borrows[k].handles + 1
      /\ \A l \in Keys \ {k} : borrows'[l].handles = borrows[l].handles
  BY <1>1 DEF PinInv, PinTypes, BorrowRecords
<1>3. PinTypes'
  BY <1>1, <1>2 DEF PinInv, PinTypes, Holds, Ending, Steps
<1>4. /\ p \notin Holders(k) /\ Holders(k)' = Holders(k) \cup {p}
      /\ \A l : l # k => Holders(l)' = Holders(l)
      /\ \A l : Enders(l)' = Enders(l)
  BY <1>1 DEF Holders, Enders, Holds, Ending, PinInv, PinTypes
<1>5. /\ Cardinality(Holders(k)') = Cardinality(Holders(k)) + 1
      /\ first <=> Holders(k) = {}
  <2>1. Cardinality(Holders(k)') = Cardinality(Holders(k)) + 1
    BY <1>4, CountsAreFinite, FS_AddElement
  <2>2. borrows[k].handles = Cardinality(Holders(k))
    BY <1>1 DEF PinInv, PinCounts
  <2> QED
    BY <2>1, <2>2, CountsAreFinite
<1>6. PinCounts'
  <2>1. \A l \in Keys : borrows'[l].handles = Cardinality(Holders(l)')
    <3>1. borrows'[k].handles = Cardinality(Holders(k)')
      BY <1>1, <1>2, <1>5 DEF PinInv, PinCounts
    <3>2. \A l \in Keys \ {k} : borrows'[l].handles = Cardinality(Holders(l)')
      BY <1>2, <1>4 DEF PinInv, PinCounts
    <3> QED
      BY <3>1, <3>2
  <2>2. \A l \in Maps \ mapped' : pins'[l] = 0
    BY <1>1 DEF PinInv, PinTypes, PinCounts
  <2>3. \A l \in mapped' :
          pins'[l] = Cardinality(Enders(l)') + (IF Holders(l)' = {} THEN 0 ELSE 1)
    BY <1>1, <1>4, <1>5, CountsAreFinite DEF PinInv, PinTypes, PinCounts
  <2> QED
    BY <2>1, <2>2, <2>3 DEF PinCounts
<1> QED
  BY <1>1, <1>3, <1>6 DEF PinInv, KeepsHeld

(* The last to let go of it has the pin to give back.                      *)
LEMMA ClosePins == ASSUME PinInv, NEW p \in Openers, Close(p) PROVE PinInv' /\ KeepsHeld
<1> SUFFICES ASSUME NEW k, k = data[p] PROVE PinInv' /\ KeepsHeld
  OBVIOUS
<1> DEFINE last == borrows[k].handles = 1
<1>1. /\ at[p] = "open" /\ k \in Keys /\ mapped' = mapped /\ pins' = pins
      /\ at' = [at EXCEPT ![p] = IF last THEN "end" ELSE "idle"]
      /\ data' = [data EXCEPT ![p] = IF last THEN k ELSE NoKey]
  BY DEF Close, Goto, PinInv, PinTypes, Holds
<1>2. /\ BorrowRecords' /\ borrows'[k].handles = borrows[k].handles - 1
      /\ \A l \in Keys \ {k} : borrows'[l].handles = borrows[l].handles
  BY <1>1 DEF Close, PinInv, PinTypes, BorrowRecords
<1>3. PinTypes'
  BY <1>1, <1>2 DEF PinInv, PinTypes, Holds, Ending, Steps
<1>4. /\ p \in Holders(k) /\ Holders(k)' = Holders(k) \ {p}
      /\ \A l \in Keys : l # k => Holders(l)' = Holders(l) /\ Enders(l)' = Enders(l)
      /\ p \notin Enders(k) /\ Enders(k)' = IF last THEN Enders(k) \cup {p} ELSE Enders(k)
  <2>1. \A q \in Openers : q # p => at'[q] = at[q] /\ data'[q] = data[q]
    BY <1>1 DEF PinInv, PinTypes
  <2>2. Holds(p) /\ ~Ending(p) /\ ~Holds(p)' /\ (Ending(p)' <=> last)
    BY <1>1 DEF Holds, Ending, PinInv, PinTypes
  <2>3. last => data'[p] = k
    BY <1>1 DEF PinInv, PinTypes
  <2> HIDE DEF last
  <2>4. \A q \in Openers : q # p => (Holds(q)' <=> Holds(q)) /\ (Ending(q)' <=> Ending(q))
    BY <2>1 DEF Holds, Ending
  <2> QED
    BY <2>1, <2>2, <2>3, <2>4 DEF Holders, Enders
<1>5. /\ Cardinality(Holders(k)') = Cardinality(Holders(k)) - 1
      /\ last <=> Holders(k)' = {}
      /\ Cardinality(Enders(k)') = Cardinality(Enders(k)) + (IF last THEN 1 ELSE 0)
  <2>1. Cardinality(Holders(k)') = Cardinality(Holders(k)) - 1
    BY <1>4, CountsAreFinite, FS_RemoveElement
  <2>2. Cardinality(Enders(k)') = Cardinality(Enders(k)) + (IF last THEN 1 ELSE 0)
    <3> HIDE DEF last
    <3>1. last => Cardinality(Enders(k)') = Cardinality(Enders(k)) + 1
      BY <1>4, CountsAreFinite, FS_AddElement
    <3> QED
      BY <1>4, <3>1, CountsAreFinite
  <2>3. IsFiniteSet(Holders(k)')
    BY <1>4, CountsAreFinite, FS_RemoveElement
  <2>4. Cardinality(Holders(k)') = 0 <=> Holders(k)' = {}
    BY <2>3, FS_EmptySet
  <2> QED
    BY <1>1, <2>1, <2>2, <2>4, CountsAreFinite DEF PinInv, PinCounts
<1>6. PinCounts'
  <2>1. \A l \in Keys : borrows'[l].handles = Cardinality(Holders(l)')
    <3>1. borrows'[k].handles = Cardinality(Holders(k)')
      BY <1>1, <1>2, <1>5 DEF PinInv, PinCounts
    <3>2. \A l \in Keys \ {k} : borrows'[l].handles = Cardinality(Holders(l)')
      BY <1>2, <1>4 DEF PinInv, PinCounts
    <3> QED
      BY <3>1, <3>2
  <2>2. \A l \in Maps \ mapped' : pins'[l] = 0
    BY <1>1 DEF PinInv, PinTypes, PinCounts
  <2>3. \A l \in mapped' :
          pins'[l] = Cardinality(Enders(l)') + (IF Holders(l)' = {} THEN 0 ELSE 1)
    <3>1. ASSUME k \in mapped
          PROVE  pins'[k] = Cardinality(Enders(k)') + (IF Holders(k)' = {} THEN 0 ELSE 1)
      <4>1. pins[k] = Cardinality(Enders(k)) + 1
        BY <1>4, <3>1 DEF PinInv, PinCounts
      <4> HIDE DEF last
      <4> QED
        BY <1>1, <1>5, <4>1, CountsAreFinite
    <3>2. \A l \in mapped \ {k} :
              pins'[l] = Cardinality(Enders(l)') + (IF Holders(l)' = {} THEN 0 ELSE 1)
      BY <1>1, <1>4 DEF PinInv, PinTypes, PinCounts, Keys
    <3> QED
      BY <1>1, <3>1, <3>2
  <2> QED
    BY <2>1, <2>2, <2>3 DEF PinCounts
<1> QED
  BY <1>1, <1>3, <1>6 DEF PinInv, KeepsHeld

(* It gives back its own pin, and unmaps what nobody holds.                *)
LEMMA UnpinPins == ASSUME PinInv, NEW p \in Openers, Unpin(p) PROVE PinInv' /\ KeepsHeld
<1> SUFFICES ASSUME NEW k, k = data[p] PROVE PinInv' /\ KeepsHeld
  OBVIOUS
<1>1. /\ at[p] = "unpin" /\ k \in Keys /\ borrows' = borrows
      /\ at' = [at EXCEPT ![p] = "idle"] /\ data' = [data EXCEPT ![p] = NoKey]
  BY DEF Unpin, Goto, Has, PinInv, PinTypes, Ending
<1>2. /\ p \in Enders(k) /\ Enders(k)' = Enders(k) \ {p}
      /\ \A l \in Keys : Holders(l)' = Holders(l) /\ (l # k => Enders(l)' = Enders(l))
  <2>1. \A q \in Openers : q # p => at'[q] = at[q] /\ data'[q] = data[q]
    BY <1>1 DEF PinInv, PinTypes
  <2>2. Ending(p) /\ ~Holds(p) /\ ~Holds(p)' /\ ~Ending(p)'
    BY <1>1 DEF Holds, Ending, PinInv, PinTypes
  <2>3. \A q \in Openers : q # p => (Holds(q)' <=> Holds(q)) /\ (Ending(q)' <=> Ending(q))
    BY <2>1 DEF Holds, Ending
  <2> QED
    BY <2>1, <2>2, <2>3 DEF Holders, Enders
<1>3. Cardinality(Enders(k)') = Cardinality(Enders(k)) - 1
  BY <1>2, CountsAreFinite, FS_RemoveElement
<1>4. Cardinality(Enders(k)) \in Nat \ {0}
  BY <1>2, CountsAreFinite
<1>5. /\ k \in mapped => pins' = [pins EXCEPT ![k] = pins[k] - 1]
      /\ k \notin mapped => pins' = pins
      /\ mapped' = mapped \/ (k \in mapped /\ pins[k] = 1 /\ mapped' = mapped \ {k})
  BY <1>4 DEF Unpin, PinInv, PinTypes, PinCounts
<1>6. PinTypes'
  <2>1. mapped' \subseteq Maps /\ pins' \in [Maps -> Nat]
    <3>1. k \in mapped => pins[k] \in Nat \ {0}
      BY <1>4 DEF PinInv, PinCounts
    <3> QED
      BY <1>5, <3>1 DEF PinInv, PinTypes
  <2>2. BorrowRecords' /\ at' \in [Openers -> Steps] /\ data' = [q \in Openers |-> data'[q]]
    BY <1>1 DEF PinInv, PinTypes, BorrowRecords, Steps
  <2>3. \A q \in Openers : at'[q] = "got" \/ Holds(q)' \/ Ending(q)' => data'[q] \in Keys
    BY <1>1 DEF PinInv, PinTypes, Holds, Ending
  <2> QED
    BY <2>1, <2>2, <2>3 DEF PinTypes
<1>7. PinCounts'
  <2>1. \A l \in Keys : borrows'[l].handles = Cardinality(Holders(l)')
    BY <1>1, <1>2 DEF PinInv, PinCounts
  <2>2. \A l \in Maps \ mapped' : pins'[l] = 0
    BY <1>5 DEF PinInv, PinTypes, PinCounts
  <2>3. \A l \in mapped' :
          pins'[l] = Cardinality(Enders(l)') + (IF Holders(l)' = {} THEN 0 ELSE 1)
    <3>1. ASSUME k \in mapped'
          PROVE  pins'[k] = Cardinality(Enders(k)') + (IF Holders(k)' = {} THEN 0 ELSE 1)
      <4>1. pins[k] = Cardinality(Enders(k)) + (IF Holders(k) = {} THEN 0 ELSE 1)
        BY <1>5, <3>1 DEF PinInv, PinCounts
      <4>2. pins'[k] = pins[k] - 1 /\ Holders(k)' = Holders(k)
        BY <1>1, <1>2, <1>5, <3>1 DEF PinInv, PinTypes
      <4> QED
        BY <1>3, <1>4, <4>1, <4>2
    <3>2. \A l \in mapped' \ {k} :
              pins'[l] = Cardinality(Enders(l)') + (IF Holders(l)' = {} THEN 0 ELSE 1)
      BY <1>2, <1>5 DEF PinInv, PinTypes, PinCounts, Keys
    <3> QED
      BY <3>1, <3>2
  <2> QED
    BY <2>1, <2>2, <2>3 DEF PinCounts
<1>8. KeepsHeld
  BY <1>4, <1>5, HeldIsPinned DEF KeepsHeld
<1> QED
  BY <1>6, <1>7, <1>8 DEF PinInv

LEMMA PinStep == PinInv /\ Next => PinInv' /\ KeepsHeld
  BY UnpinnedSteps, UnpinnedRecord, UnpinnedTold, UnpinnedSources, MapFilePins, BorrowPins,
     ClosePins, UnpinPins DEF Next, Step

LEMMA PinInvariant == Spec => []PinInv
<1>1. Init => PinInv
  <2> SUFFICES ASSUME Init PROVE PinInv
    OBVIOUS
  <2>1. \A k : Holders(k) = {} /\ Cardinality(Holders(k)) = 0
    BY CountsAreFinite DEF Init, Holders, Holds
  <2>2. PinTypes
    BY DEF Init, PinTypes, BorrowRecords, Holds, Ending, Steps
  <2>3. PinCounts
    BY <2>1 DEF Init, PinCounts
  <2> QED
    BY <2>2, <2>3 DEF PinInv
<1>2. PinInv /\ [Next]_vars => PinInv'
  <2>1. ASSUME PinInv, UNCHANGED vars PROVE PinInv'
    <3>1. Safely /\ at' = at /\ data' = data
      BY <2>1, RestsSafely DEF vars, opener
    <3>2. \A q \in Openers :
              /\ (Holds(q)' <=> Holds(q)) /\ (Ending(q)' <=> Ending(q))
              /\ at'[q] = "got" => data'[q] \in Keys
      BY <2>1, <3>1 DEF Holds, Ending, PinInv, PinTypes
    <3> QED
      BY <2>1, <3>1, <3>2, UnpinnedStep DEF Safely, PinInv, PinTypes, BorrowRecords
  <2> QED
    BY <2>1, PinStep
<1> QED
  BY <1>1, <1>2, PTL DEF Spec

(* What an AAsset has got hold of stays mapped until it is closed          *)
(* (acquireAssetBorrow, releaseAssetBorrow, and the evictions and          *)
(* retirements that would unmap it).                                       *)
THEOREM PinsProtect == Spec => PinHolds
<1>1. PinInv /\ [Next]_vars =>
          [\A p \in Openers :
               Holds(p) /\ data[p] \in mapped /\ Holds(p)' => data[p] \in mapped']_vars
  BY PinStep DEF KeepsHeld
<1> QED
  BY <1>1, PinInvariant, PTL DEF Spec, PinHolds
=============================================================================
