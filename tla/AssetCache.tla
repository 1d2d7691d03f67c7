----------------------------- MODULE AssetCache -----------------------------
(***************************************************************************)
(* The asset cache of src/internal/android/asset.go and asset_mmap.go: the *)
(* engine's threads open assets by name, the first one to miss loads it    *)
(* from a directory or an APK, the bytes are shared by all, and a native   *)
(* AAsset borrows them until it is closed; while the sources may change    *)
(* and blobs are evicted to keep a budget.  Files have one byte each.      *)
(***************************************************************************)
EXTENDS Integers, Sequences, FiniteSets

CONSTANTS
    Openers,        \* threads that open assets, one at a time each
    DirFiles,       \* files of the assets directory, mapped
    ZipFiles,       \* entries of the APK, inflated to the Go heap
    Missing,        \* names of no file
    Alias, Aliased, \* a second name, of the file Aliased
    Maps, Heaps,    \* addresses of mappings and of heap blobs
    NoKey,          \* no blob
    NotExist, Failed,   \* os.ErrNotExist, another error
    Budget,         \* assetCacheByteBudget
    Slots,          \* maxConcurrentAssetInflations
    MaxGeneration   \* how many sources there are

Files == DirFiles \cup ZipFiles
Names == Files \cup Missing \cup {Alias}
Keys == Maps \cup Heaps
Generations == 1 .. MaxGeneration

ASSUME AssetAssumption ==
    /\ DirFiles \cap ZipFiles = {} /\ Missing \cap Files = {}
    /\ Alias \notin Files \cup Missing /\ Aliased \in Files
    /\ Maps \cap Heaps = {} /\ {NoKey, NotExist, Failed} \cap Keys = {}
    /\ NoKey # NotExist /\ Failed \notin {NoKey, NotExist}
    /\ IsFiniteSet(Openers) /\ Budget \in Nat /\ Slots \in Nat \ {0} /\ MaxGeneration \in Nat \ {0}

(* The file of a name: the first candidate in the directory or the APK.    *)
FileOf(n) == IF n = Alias THEN Aliased ELSE n

VARIABLES
    current,    \* the generation that currentAssets points to
    retiring,   \* one that setAssetsLocked is about to retire, or 0
    cache,      \* the assetCache of every generation
    mapped, pins,   \* mappedDirAssets: the live mappings and their pins
    borrows,    \* assetPins: handles of a blob, the generation that tracks it
    at, name, gen,  \* the step of an opener, what it opens and in which cache
    data,       \* the bytes it has, or the error
    lease,      \* load.blobKey of the load it leads
    tracked     \* of its last handle: the generation to tell, or 0

store == <<current, retiring, cache>>
memory == <<mapped, pins, borrows>>
opener == <<at, name, gen, data, lease, tracked>>
vars == <<store, memory, opener>>

NewCache ==
    [names |-> [n \in Names |-> NoKey], sources |-> [f \in Files |-> NoKey],
     blobs |-> {}, flights |-> [k \in Keys |-> 0], handles |-> [k \in Keys |-> 0],
     lru |-> <<>>, loads |-> {}, archive |-> "unopened", retired |-> FALSE]

Init ==
    /\ current = 1 /\ retiring = 0
    /\ cache = [g \in Generations |-> NewCache]
    /\ mapped = {} /\ pins = [k \in Maps |-> 0]
    /\ borrows = [k \in Keys |-> [handles |-> 0, tracks |-> 0]]
    /\ at = [p \in Openers |-> "idle"] /\ gen = [p \in Openers |-> 1]
    /\ name = [p \in Openers |-> Alias]
    /\ data = [p \in Openers |-> NoKey] /\ lease = data
    /\ tracked = [p \in Openers |-> 0]

-----------------------------------------------------------------------------
(* What the methods do to a cache under its lock.                          *)
InLru(c, k) == \E i \in 1 .. Len(c.lru) : c.lru[i] = k

(* The list of inactive blobs without k, which is in it once at most.      *)
Without(s, k) ==
    IF \A i \in 1 .. Len(s) : s[i] # k THEN s
    ELSE LET i == CHOOSE i \in 1 .. Len(s) : s[i] = k
         IN  SubSeq(s, 1, i - 1) \o SubSeq(s, i + 1, Len(s))

(* touchBlobLocked *)
Touch(c, k) ==
    IF InLru(c, k) THEN [c EXCEPT !.lru = Append(Without(@, k), k)] ELSE c

(* recordBlobLocked; the aliases of a blob are the names and sources that  *)
(* refer to it.                                                            *)
Record(c, k) ==
    IF k \in c.blobs THEN Touch(c, k)
    ELSE [c EXCEPT !.blobs = @ \cup {k}, !.lru = Append(@, k)]

(* Mutant: an AAsset does not protect its blob from a load that ends.      *)
EvictableAnyway(c, k) ==
    IF k \in c.blobs /\ c.flights[k] = 0 /\ ~InLru(c, k)
    THEN [c EXCEPT !.lru = Append(@, k)] ELSE c

(* makeBlobEvictableLocked *)
Evictable(c, k) ==
    IF k \in c.blobs /\ c.flights[k] = 0 /\ c.handles[k] = 0 /\ ~InLru(c, k)
    THEN [c EXCEPT !.lru = Append(@, k)] ELSE c

(* protectLoadBlobLocked, of a load that holds no blob yet.                *)
Protect(c, k, held) ==
    IF held # NoKey THEN c
    ELSE [Record(c, k) EXCEPT !.lru = Without(@, k), !.flights[k] = @ + 1]

(* releaseLoadBlobLocked *)
Release(c, k) ==
    IF k \in c.blobs /\ c.flights[k] # 0
    THEN Evictable([c EXCEPT !.flights[k] = @ - 1], k) ELSE c

(* removeBlobAliasesLocked and removeBlobLocked, of the blobs ks; the      *)
(* inactive ones among the others are those of rest.                       *)
Drop(c, ks, rest) ==
    [c EXCEPT !.names = [n \in Names |-> IF @[n] \in ks THEN NoKey ELSE @[n]],
              !.sources = [f \in Files |-> IF @[f] \in ks THEN NoKey ELSE @[f]],
              !.blobs = @ \ ks, !.lru = rest,
              !.flights = [k \in Keys |-> IF k \in ks THEN 0 ELSE @[k]],
              !.handles = [k \in Keys |-> IF k \in ks THEN 0 ELSE @[k]]]

(* setNamePositiveLocked; the blob that loses its last alias is removed.   *)
SetName(c, n, k) ==
    LET old == c.names[n]
        named == [c EXCEPT !.names[n] = k]
        orphan == old \in c.blobs \ {k}
                  /\ \A m \in Names : named.names[m] # old
                  /\ \A f \in Files : named.sources[f] # old
    IN  Record(IF orphan THEN Drop(named, {old}, Without(c.lru, old)) ELSE named, k)

(* Mutant: a blob whose bytes the budget lacks is let in.                  *)
EnforceLate(c) ==
    LET over == IF Cardinality(c.blobs) > Budget + 1 THEN Cardinality(c.blobs) - Budget ELSE 0
        many == IF over < Len(c.lru) THEN over ELSE Len(c.lru)
    IN  IF c.retired THEN c
        ELSE Drop(c, {c.lru[i] : i \in 1 .. many}, SubSeq(c.lru, many + 1, Len(c.lru)))

(* enforceAssetCachePolicyLocked: least recently used blobs go first.      *)
Enforce(c) ==
    LET over == IF Cardinality(c.blobs) > Budget THEN Cardinality(c.blobs) - Budget ELSE 0
        many == IF over < Len(c.lru) THEN over ELSE Len(c.lru)
    IN  IF c.retired THEN c
        ELSE Drop(c, {c.lru[i] : i \in 1 .. many}, SubSeq(c.lru, many + 1, Len(c.lru)))

(* Mutant: retiring does not wait for loads in flight.                     *)
DropAtOnce(c) ==
    IF c.retired
    THEN [NewCache EXCEPT !.retired = TRUE, !.loads = c.loads,
                          !.archive = IF c.archive = "open" THEN "closed" ELSE c.archive]
    ELSE c

(* dropRetiredCachesLocked *)
DropRetired(c) ==
    IF c.retired /\ c.loads = {}
    THEN [NewCache EXCEPT !.retired = TRUE,
                          !.archive = IF c.archive = "open" THEN "closed" ELSE c.archive]
    ELSE c

(* Mutant: the cache unmaps what it removes, pinned or not.                *)
LockedUnmaps(g, c, discarded) ==
    /\ cache' = [cache EXCEPT ![g] = c]
    /\ mapped' = mapped \ ((cache[g].blobs \ c.blobs) \cup discarded)
    /\ UNCHANGED <<current, retiring, pins, borrows>>

(* A locked section leaves c as the cache of generation g.  The mappings   *)
(* whose blobs it removed go, unless an AAsset pins them                   *)
(* (releaseMappedDirAssetFromCache); as does discarded.                    *)
Locked(g, c, discarded) ==
    /\ cache' = [cache EXCEPT ![g] = c]
    /\ mapped' = mapped \ {k \in Maps : /\ k \in (cache[g].blobs \ c.blobs) \cup discarded
                                        /\ pins[k] = 0}
    /\ UNCHANGED <<current, retiring, pins, borrows>>

Cached(k) == \E g \in Generations : k \in cache[g].blobs

(* Addresses that nothing refers to.                                       *)
Fresh(ks) ==
    {k \in ks : /\ k \notin mapped /\ ~Cached(k) /\ borrows[k].handles = 0
               /\ \A p \in Openers : data[p] # k}

-----------------------------------------------------------------------------
Goto(p, step) == at' = [at EXCEPT ![p] = step]
Has(p, k) == data' = [data EXCEPT ![p] = k]

(* What openAssetBytes returns: an error, or bytes that are then borrowed. *)
Returns(k) == IF k \in Keys THEN "got" ELSE "idle"
Result(k) == IF k \in Keys THEN k ELSE NoKey

(* openAssetBytes looks at the current sources.                            *)
Open(p, n) ==
    /\ at[p] = "idle" /\ Goto(p, "lookup")
    /\ name' = [name EXCEPT ![p] = n] /\ gen' = [gen EXCEPT ![p] = current]
    /\ UNCHANGED <<store, memory, data, lease, tracked>>

(* cachedNameLocked; a negative entry expires or loses its place some time.*)
Hit(p, k) ==
    /\ Goto(p, Returns(k)) /\ Has(p, Result(k))
    /\ Locked(gen[p], Touch(cache[gen[p]], k), {})
    /\ UNCHANGED <<name, gen, lease, tracked>>

CachedName(p) ==
    LET k == cache[gen[p]].names[name[p]]
    IN  /\ at[p] = "lookup"
        /\ \/ k # NoKey /\ Hit(p, k)
           \/ k \notin Keys /\ Goto(p, "begin")
              /\ UNCHANGED <<store, memory, name, gen, data, lease, tracked>>

(* beginLoad: one thread leads the load of a name.                         *)
Retry(p) ==
    /\ at[p] = "begin" /\ cache[gen[p]].retired /\ Goto(p, "lookup")
    /\ gen' = [gen EXCEPT ![p] = current]
    /\ UNCHANGED <<store, memory, name, data, lease, tracked>>

BeginLoad(p) ==
    LET c == cache[gen[p]]  k == c.names[name[p]]
    IN  /\ at[p] = "begin" /\ ~c.retired
        /\ \/ k # NoKey /\ Hit(p, k)
           \/ /\ k \notin Keys /\ UNCHANGED <<name, gen, data, lease, tracked>>
              /\ IF name[p] \in c.loads
                 THEN Goto(p, "wait") /\ UNCHANGED <<store, memory>>
                 ELSE /\ Goto(p, "load")
                      /\ Locked(gen[p], [c EXCEPT !.loads = @ \cup {name[p]}], {})

(* loadAsset: the directory comes first, then the APK.                     *)
NotInDirectory(p) ==
    /\ at[p] = "load" /\ FileOf(name[p]) \notin DirFiles /\ Goto(p, "archive")
    /\ UNCHANGED <<store, memory, name, gen, data, lease, tracked>>

(* cachedSource, in readDirAsset and in inflateZip.                        *)
CachedSource(p) ==
    LET f == FileOf(name[p])  dir == f \in DirFiles
        k == cache[gen[p]].sources[f]
    IN  /\ at[p] = (IF dir THEN "load" ELSE "entry")
        /\ IF k # NoKey
           THEN /\ Goto(p, IF dir THEN "names" ELSE "protect") /\ Has(p, k)
                /\ Locked(gen[p], Touch(cache[gen[p]], k), {})
           ELSE /\ Goto(p, IF dir THEN "map" ELSE "slot")
                /\ UNCHANGED <<store, memory, data>>
        /\ UNCHANGED <<name, gen, lease, tracked>>

(* mapDirAssetFile                                                         *)
MapFile(p) ==
    /\ at[p] = "map" /\ Goto(p, "publish")
    /\ \E k \in Fresh(Maps) : Has(p, k) /\ mapped' = mapped \cup {k}
    /\ UNCHANGED <<store, pins, borrows, name, gen, lease, tracked>>

(* ensureAPK: one thread opens the archive, others wait for it.            *)
EnsureAPK(p) ==
    LET a == cache[gen[p]].archive
    IN  /\ at[p] = "archive"
        /\ Goto(p, CASE a = "open" -> "lookin" [] a = "opening" -> "waitopen"
                     [] OTHER -> "opening")
        /\ cache' = IF a = "open" THEN cache
                    ELSE [cache EXCEPT ![gen[p]].archive = "opening"]
        /\ UNCHANGED <<current, retiring, memory, name, gen, data, lease, tracked>>

OpenArchive(p, ok) ==
    LET served == {q \in Openers : q = p \/ (at[q] = "waitopen" /\ gen[q] = gen[p])}
    IN  /\ at[p] = "opening"
        /\ cache' = [cache EXCEPT ![gen[p]].archive = IF ok THEN "open" ELSE "unopened"]
        /\ at' = [q \in Openers |-> IF q \notin served THEN at[q]
                                    ELSE IF ok THEN "lookin" ELSE "finish"]
        /\ data' = [q \in Openers |-> IF q \in served /\ ~ok THEN Failed ELSE data[q]]
        /\ UNCHANGED <<current, retiring, memory, name, gen, lease, tracked>>

(* lookup                                                                  *)
LookIn(p) ==
    /\ at[p] = "lookin"
    /\ IF FileOf(name[p]) \in ZipFiles THEN Goto(p, "entry") /\ UNCHANGED data
       ELSE Goto(p, "finish") /\ Has(p, NotExist)
    /\ UNCHANGED <<store, memory, name, gen, lease, tracked>>

(* inflateZip: an entry that is cached is protected in a step of its own,  *)
ProtectEntry(p) ==
    /\ at[p] = "protect" /\ Goto(p, "names")
    /\ lease' = [lease EXCEPT ![p] = data[p]]
    /\ Locked(gen[p], Protect(cache[gen[p]], data[p], lease[p]), {})
    /\ UNCHANGED <<name, gen, data, tracked>>

(* another one waits for one of the slots,                                 *)
Inflating(g) ==
    {q \in Openers : /\ gen[q] = g /\ at[q] \in {"inflate", "publish"}
                     /\ at[q] = "inflate" \/ data[q] \in Heaps}

EnterSlot(p) ==
    /\ at[p] = "slot" /\ Cardinality(Inflating(gen[p])) < Slots /\ Goto(p, "inflate")
    /\ UNCHANGED <<store, memory, name, gen, data, lease, tracked>>

(* and is read.                                                            *)
Inflate(p) ==
    /\ at[p] = "inflate" /\ Goto(p, "publish")
    /\ \E k \in Fresh(Heaps) : Has(p, k)
    /\ UNCHANGED <<store, memory, name, gen, lease, tracked>>

(* Reading a file fails.                                                   *)
ReadFails(p) ==
    /\ at[p] \in {"map", "inflate"} /\ Goto(p, "finish") /\ Has(p, Failed)
    /\ UNCHANGED <<store, memory, name, gen, lease, tracked>>

(* publishPath and the end of inflateZip: another thread may have          *)
(* published the file meanwhile.                                           *)
Publish(p) ==
    LET c == cache[gen[p]]  f == FileOf(name[p])  k == c.sources[f]
    IN  /\ at[p] = "publish" /\ Goto(p, "names")
        /\ IF k # NoKey
           THEN /\ Has(p, k) /\ lease' = [lease EXCEPT ![p] = k]
                /\ Locked(gen[p], Protect(c, k, NoKey), {data[p]})
           ELSE IF c.retired THEN UNCHANGED <<store, memory, data, lease>>
           ELSE /\ lease' = [lease EXCEPT ![p] = data[p]] /\ UNCHANGED data
                /\ Locked(gen[p], [Protect(c, data[p], NoKey) EXCEPT !.sources[f] = data[p]], {})
        /\ UNCHANGED <<name, gen, tracked>>

(* cacheSuccessAliases: the requested name and the file's own.             *)
CacheNames(p) ==
    LET c == cache[gen[p]]  k == data[p]  f == FileOf(name[p])
        one == SetName(Protect(c, k, lease[p]), name[p], k)
    IN  /\ at[p] = "names" /\ Goto(p, "finish")
        /\ IF c.retired THEN UNCHANGED <<store, memory, lease>>
           ELSE /\ lease' = [lease EXCEPT ![p] = IF @ = NoKey THEN k ELSE @]
                /\ Locked(gen[p], IF one.names[f] = NoKey THEN SetName(one, f, k) ELSE one,
                          {})
        /\ UNCHANGED <<name, gen, data, tracked>>

(* Mutant: a load that failed is not taken off the list.                   *)
FinishedOnSuccess(c, n, k, held) ==
    IF k = Failed THEN DropRetired(Enforce(Release(c, held)))
    ELSE DropRetired(Enforce(Release([c EXCEPT !.loads = @ \ {n}], held)))

(* finishLoad: the result is cached, unless the sources have changed; who  *)
(* waits for it gets it; the blob is not protected any more.               *)
Finished(c, n, k, held) ==
    LET cached == IF c.retired \/ c.names[n] # NoKey \/ k = Failed THEN c
                  ELSE IF k = NotExist THEN [c EXCEPT !.names[n] = NotExist]
                  ELSE SetName(Protect(c, k, held), n, k)
        blob == IF held = NoKey /\ ~c.retired /\ c.names[n] = NoKey /\ k \in Keys
                THEN k ELSE held
    IN  DropRetired(Enforce(Release([cached EXCEPT !.loads = @ \ {n}], blob)))

FinishLoad(p) ==
    LET g == gen[p]  n == name[p]  k == data[p]
        served == {q \in Openers :
                     q = p \/ (at[q] = "wait" /\ gen[q] = g /\ name[q] = n)}
    IN  /\ at[p] = "finish"
        /\ Locked(g, Finished(cache[g], n, k, lease[p]), {})
        /\ at' = [q \in Openers |-> IF q \in served THEN Returns(k) ELSE at[q]]
        /\ data' = [q \in Openers |-> IF q \in served THEN Result(k) ELSE data[q]]
        /\ lease' = [lease EXCEPT ![p] = NoKey]
        /\ UNCHANGED <<name, gen, tracked>>

-----------------------------------------------------------------------------
(* acquireAssetBorrow: the first handle of a blob pins it; a mapping that  *)
(* is gone cannot be.                                                      *)
Borrow(p) ==
    LET k == data[p]  first == borrows[k].handles = 0
    IN  /\ at[p] = "got" /\ Goto(p, IF first THEN "claim" ELSE "open")
        /\ borrows' = [borrows EXCEPT ![k].handles = @ + 1]
        /\ pins' = IF first /\ k \in mapped THEN [pins EXCEPT ![k] = @ + 1] ELSE pins
        /\ UNCHANGED <<store, mapped, name, gen, data, lease, tracked>>

(* beginNativeBorrow, in the sources that are current by then.             *)
Claim(p) ==
    LET c == cache[current]  k == data[p]
    IN  /\ at[p] = "claim"
        /\ IF c.retired \/ k \notin c.blobs
           THEN Goto(p, "open") /\ UNCHANGED <<store, memory, tracked>>
           ELSE /\ Goto(p, "record") /\ tracked' = [tracked EXCEPT ![p] = current]
                /\ Locked(current, [c EXCEPT !.lru = Without(@, k),
                                             !.handles[k] = @ + 1], {})
        /\ UNCHANGED <<name, gen, data, lease>>

RecordClaim(p) ==
    /\ at[p] = "record" /\ Goto(p, "open")
    /\ borrows' = [borrows EXCEPT ![data[p]].tracks = tracked[p]]
    /\ tracked' = [tracked EXCEPT ![p] = 0]
    /\ UNCHANGED <<store, mapped, pins, name, gen, data, lease>>

(* AAsset_close, or a constructor that has no memory: releaseAssetBorrow   *)
(* runs the release once; the last handle lets the blob go.                *)
Close(p) ==
    LET b == borrows[data[p]]  last == b.handles = 1
    IN  /\ at[p] = "open" /\ Goto(p, IF last THEN "end" ELSE "idle")
        /\ borrows' = [borrows EXCEPT ![data[p]] =
                          [handles |-> b.handles - 1, tracks |-> IF last THEN 0 ELSE b.tracks]]
        /\ tracked' = [tracked EXCEPT ![p] = IF last THEN b.tracks ELSE 0]
        /\ data' = [data EXCEPT ![p] = IF last THEN @ ELSE NoKey]
        /\ UNCHANGED <<store, mapped, pins, name, gen, lease>>

(* endNativeBorrow                                                         *)
Ended(c, k) ==
    IF k \in c.blobs /\ c.handles[k] # 0
    THEN Enforce(Evictable([c EXCEPT !.handles[k] = @ - 1], k)) ELSE c

EndBorrow(p) ==
    /\ at[p] = "end" /\ Goto(p, "unpin")
    /\ IF tracked[p] = 0 THEN UNCHANGED <<store, memory>>
       ELSE Locked(tracked[p], Ended(cache[tracked[p]], data[p]), {})
    /\ tracked' = [tracked EXCEPT ![p] = 0]
    /\ UNCHANGED <<name, gen, data, lease>>

(* Mutant: a pin is given back whether there is one or not.                *)
UnpinAlways(p) ==
    LET k == data[p]
    IN  /\ at[p] = "unpin" /\ Goto(p, "idle") /\ Has(p, NoKey)
        /\ pins' = [pins EXCEPT ![k] = @ - 1]
        /\ mapped' = IF k \in Maps /\ pins[k] = 1 /\ ~Cached(k) THEN mapped \ {k} ELSE mapped
        /\ UNCHANGED <<store, borrows, name, gen, lease, tracked>>

(* releaseMappedDirAssetPin                                                *)
Unpin(p) ==
    LET k == data[p]
    IN  /\ at[p] = "unpin" /\ Goto(p, "idle") /\ Has(p, NoKey)
        /\ IF k \in mapped /\ pins[k] # 0
           THEN /\ pins' = [pins EXCEPT ![k] = @ - 1]
                /\ mapped' = IF pins[k] = 1 /\ ~Cached(k) THEN mapped \ {k} ELSE mapped
           ELSE UNCHANGED <<pins, mapped>>
        /\ UNCHANGED <<store, borrows, name, gen, lease, tracked>>

-----------------------------------------------------------------------------
(* setAssetsLocked: new sources are published before the old are retired.  *)
SetAssets ==
    /\ retiring = 0 /\ current < MaxGeneration
    /\ current' = current + 1 /\ retiring' = current
    /\ UNCHANGED <<cache, memory, opener>>

Retire ==
    /\ retiring # 0 /\ retiring' = 0
    /\ LET c == DropRetired([cache[retiring] EXCEPT !.retired = TRUE])
       IN  /\ cache' = [cache EXCEPT ![retiring] = c]
           /\ mapped' = mapped \ {k \in cache[retiring].blobs \ c.blobs :
                                     k \in Maps /\ pins[k] = 0}
    /\ UNCHANGED <<current, pins, borrows, opener>>

(* A step of the thread itself, as opposed to the engine's wish for more.  *)
Step(p) ==
    \/ CachedName(p) \/ Retry(p) \/ BeginLoad(p) \/ NotInDirectory(p)
    \/ CachedSource(p) \/ MapFile(p) \/ EnsureAPK(p) \/ LookIn(p)
    \/ \E ok \in BOOLEAN : OpenArchive(p, ok)
    \/ ProtectEntry(p) \/ EnterSlot(p) \/ Inflate(p) \/ ReadFails(p)
    \/ Publish(p) \/ CacheNames(p) \/ FinishLoad(p)
    \/ Borrow(p) \/ Claim(p) \/ RecordClaim(p) \/ EndBorrow(p) \/ Unpin(p)

Next ==
    \/ SetAssets \/ Retire
    \/ \E p \in Openers : Step(p) \/ Close(p) \/ \E n \in Names : Open(p, n)

Spec == Init /\ [][Next]_vars
-----------------------------------------------------------------------------
Steps == {"idle", "lookup", "begin", "wait", "load", "map", "archive", "opening",
          "waitopen", "lookin", "entry", "protect", "slot", "inflate", "publish",
          "names", "finish", "got", "claim", "record", "open", "end", "unpin"}

Leads(p) ==
    at[p] \in {"load", "map", "archive", "opening", "waitopen", "lookin", "entry",
              "protect", "slot", "inflate", "publish", "names", "finish"}

CacheOK(c) ==
    /\ \A n \in Names : c.names[n] \in Keys \cup {NoKey, NotExist}
    /\ \A f \in Files : c.sources[f] \in Keys \cup {NoKey}
    /\ c.blobs \subseteq Keys /\ c.loads \subseteq Names
    /\ \A k \in Keys : c.flights[k] \in Nat /\ c.handles[k] \in Nat
    /\ c.lru \in Seq(Keys) /\ c.retired \in BOOLEAN
    /\ c.archive \in {"unopened", "opening", "open", "closed"}

(* The type invariant.                                                     *)
AssetTypeOK ==
    /\ current \in Generations /\ retiring \in 0 .. MaxGeneration
    /\ \A g \in Generations : CacheOK(cache[g])
    /\ mapped \subseteq Maps /\ pins \in [Maps -> Nat]
    /\ borrows \in [Keys -> [handles : Nat, tracks : 0 .. MaxGeneration]]
    /\ at \in [Openers -> Steps] /\ name \in [Openers -> Names]
    /\ gen \in [Openers -> Generations]
    /\ data \in [Openers -> Keys \cup {NoKey, NotExist, Failed}]
    /\ lease \in [Openers -> Keys \cup {NoKey}]
    /\ tracked \in [Openers -> 0 .. MaxGeneration]

(* "assetCacheByteBudget bounds only inactive, unborrowed blobs": what the *)
(* cache holds beyond its budget is lent or being loaded, however loads,   *)
(* closes and evictions interleave.                                        *)
BudgetKept ==
    \A g \in Generations :
        LET c == cache[g]
        IN  Cardinality(c.blobs) > Budget =>
                \/ c.loads # {} \/ c.retired
                \/ \A k \in c.blobs : c.handles[k] # 0

(* Nothing is left behind: a handle, a pin or a load that protects a blob  *)
(* belongs to a thread that is still to give it back, what nobody protects *)
(* can be evicted, and a mapping is in a cache or in some thread's hands.  *)
NothingLeaks ==
    /\ \A g \in Generations, k \in Keys :
           LET c == cache[g]
           IN  /\ c.flights[k] # 0 => \E p \in Openers : lease[p] = k /\ gen[p] = g
               /\ c.handles[k] # 0 => \E p \in Openers : data[p] = k
               /\ InLru(c, k) <=> k \in c.blobs /\ c.flights[k] + c.handles[k] = 0
    /\ \A k \in Maps : pins[k] # 0 => \E p \in Openers : data[p] = k
    /\ \A k \in mapped : Cached(k) \/ \E p \in Openers : data[p] = k

(* "A retired source generation stays alive until its in-flight loads      *)
(* finish, so its APK reader is never closed beneath zip.File.Open", and   *)
(* then it is, with all it has cached.                                     *)
RetiredLetsGo ==
    /\ \A p \in Openers : at[p] \in {"lookin", "entry", "slot", "inflate"} =>
           cache[gen[p]].archive = "open"
    /\ \A g \in Generations : cache[g].retired /\ cache[g].loads = {} =>
           cache[g].blobs = {} /\ cache[g].archive # "open"

(* "A live AAsset holds mappedDirAsset.pins, so eviction cannot Munmap":   *)
(* the bytes of an AAsset stay mapped until it is closed.                  *)
OpenStaysMapped ==
    \A p \in Openers : at[p] = "open" /\ data[p] \in Maps => data[p] \in mapped

Holds(p) == at[p] \in {"claim", "record", "open"}

(* What an AAsset has got hold of stays mapped, whatever other threads     *)
(* open, close and evict and whichever sources are retired.                *)
PinHolds ==
    [][\A p \in Openers :
           Holds(p) /\ data[p] \in mapped /\ Holds(p)' => data[p] \in mapped']_vars

(* A load has one leader, who opens the file and wakes who waits for it:   *)
(* nobody waits for a load that has ended, failed or been retired.         *)
SingleFlight ==
    /\ \A g \in Generations, n \in Names :
           Cardinality({p \in Openers : gen[p] = g /\ name[p] = n /\ Leads(p)})
               = IF n \in cache[g].loads THEN 1 ELSE 0
    /\ \A q \in Openers :
           /\ at[q] = "wait" => name[q] \in cache[gen[q]].loads
           /\ at[q] = "waitopen" => \E p \in Openers : gen[p] = gen[q] /\ at[p] = "opening"
==============================================================================
