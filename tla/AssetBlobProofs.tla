--------------------------- MODULE AssetBlobProofs ---------------------------
(***************************************************************************)
(* Proofs about AssetCache, continued: the types of its state, that        *)
(* nothing is left protected, lent, pinned or mapped for nobody, and that  *)
(* an idle cache keeps its budget.                                         *)
(***************************************************************************)
EXTENDS AssetCacheProofs, SequenceTheorems

(* What a cache is made of.                                                *)
Caches ==
    [names : [Names -> Keys \cup {NoKey, NotExist}], sources : [Files -> Keys \cup {NoKey}],
     blobs : SUBSET Keys, flights : [Keys -> Nat], handles : [Keys -> Nat],
     lru : Seq(Keys), loads : SUBSET Names,
     archive : {"unopened", "opening", "open", "closed"}, retired : BOOLEAN]

Distinct(s) == \A i, j \in 1 .. Len(s) : s[i] = s[j] => i = j
Listed(s) == {s[i] : i \in 1 .. Len(s)}

Idle(c, k) == k \in c.blobs /\ c.flights[k] = 0 /\ c.handles[k] = 0

(* The list of inactive blobs has each of them once, and no other; what is *)
(* no blob is neither being loaded nor lent.                               *)
Orderly(c) ==
    /\ c \in Caches /\ IsFiniteSet(c.blobs) /\ Distinct(c.lru)
    /\ \A k \in Keys : k \in Listed(c.lru) <=> Idle(c, k)
    /\ \A k \in Keys \ c.blobs : c.flights[k] = 0 /\ c.handles[k] = 0

(* It keeps its budget, or has nothing left to evict.                      *)
WithinBudget(c) == Cardinality(c.blobs) <= Budget \/ c.lru = <<>>

BlobTypes ==
    /\ retiring \in 0 .. MaxGeneration
    /\ cache \in [Generations -> Caches]
    /\ borrows \in [Keys -> [handles : Nat, tracks : 0 .. MaxGeneration]]
    /\ data \in [Openers -> Keys \cup {NoKey, NotExist, Failed}]
    /\ lease \in [Openers -> Keys \cup {NoKey}]
    /\ tracked \in [Openers -> 0 .. MaxGeneration]

Blank == {"idle", "lookup", "begin", "wait", "load", "map", "archive", "opening", "waitopen",
          "lookin", "entry", "slot", "inflate"}
Claimed == {"claim", "record"}

(* What a thread has at its step: bytes, a protected blob, a claim to tell *)
(* of, the name of a file.                                                 *)
EquippedAs(step, k, held, g, n) ==
    /\ step \in Blank => k = NoKey
    /\ step \in {"protect", "publish", "names"} => k \in Keys
    /\ step = "finish" => k # NoKey
    /\ held # NoKey => step \in {"names", "finish"}
    /\ g # 0 => step \in {"record", "end"}
    /\ step = "record" => g # 0
    /\ step \in {"map", "entry", "protect", "slot", "inflate", "publish", "names"}
          => FileOf(n) \in Files

Equipped(p) == EquippedAs(at[p], data[p], lease[p], tracked[p], name[p])

Tracking ==
    /\ \A k \in Keys : borrows[k].tracks # 0 => borrows[k].handles # 0
    /\ \A p \in Openers : at[p] \in Claimed => borrows[data[p]].tracks = 0
    /\ \A p, q \in Openers :
          at[p] \in Claimed /\ at[q] \in Claimed /\ data[p] = data[q] => p = q

Leases(g, k) == {p \in Openers : gen[p] = g /\ lease[p] = k}
Trackers(g, k) == {p \in Openers : tracked[p] = g /\ data[p] = k}

Counted(g, k) ==
    /\ cache[g].flights[k] <= Cardinality(Leases(g, k))
    /\ cache[g].handles[k]
          <= Cardinality(Trackers(g, k)) + (IF borrows[k].tracks = g THEN 1 ELSE 0)

(* A mapping is cached, or somebody has it.                                *)
Kept(k) == Cached(k) \/ \E p \in Openers : data[p] = k

(* Who has nothing to load keeps the budget.                               *)
Thrifty(c) == c.loads = {} /\ ~c.retired => WithinBudget(c)

BlobInv ==
    /\ BlobTypes /\ Tracking
    /\ \A p \in Openers : Equipped(p)
    /\ \A g \in Generations : Orderly(cache[g]) /\ Thrifty(cache[g])
    /\ \A g \in Generations, k \in Keys : Counted(g, k)
    /\ \A k \in mapped : Kept(k)
-----------------------------------------------------------------------------
(* Lists without repetition.                                               *)
LEMMA NothingListed == Listed(<<>>) = {} /\ Distinct(<<>>)
  BY DEF Listed, Distinct

LEMMA EmptyLists == ASSUME NEW S, NEW s \in Seq(S), Listed(s) = {} PROVE s = <<>>
<1>1. Len(s) \in Nat
  BY LenProperties
<1>2. Len(s) = 0
  BY <1>1 DEF Listed
<1> QED
  BY <1>2, EmptySeq, <1>1

LEMMA ListedAre == ASSUME NEW S, NEW s \in Seq(S) PROVE Listed(s) \subseteq S
  BY ElementOfSeq DEF Listed

LEMMA AppendLists ==
  ASSUME NEW S, NEW s \in Seq(S), NEW k \in S, Distinct(s), k \notin Listed(s)
  PROVE  /\ Append(s, k) \in Seq(S) /\ Distinct(Append(s, k))
         /\ Listed(Append(s, k)) = Listed(s) \cup {k}
<1> DEFINE t == Append(s, k)
<1>1. /\ t \in Seq(S) /\ Len(t) = Len(s) + 1 /\ Len(s) \in Nat
      /\ \A i \in 1 .. Len(s) : t[i] = s[i]
      /\ t[Len(s) + 1] = k
  BY AppendProperties, LenProperties
<1> HIDE DEF t
<1>2. Distinct(t)
  <2> SUFFICES ASSUME NEW i \in 1 .. Len(t), NEW j \in 1 .. Len(t), t[i] = t[j] PROVE i = j
    BY DEF Distinct
  <2>1. CASE i \in 1 .. Len(s) /\ j \in 1 .. Len(s)
    BY <2>1, <1>1 DEF Distinct
  <2>2. CASE i = Len(s) + 1 /\ j \in 1 .. Len(s)
    BY <2>2, <1>1 DEF Listed
  <2>3. CASE j = Len(s) + 1 /\ i \in 1 .. Len(s)
    BY <2>3, <1>1 DEF Listed
  <2> QED
    BY <1>1, <2>1, <2>2, <2>3
<1>3. Listed(t) = Listed(s) \cup {k}
  <2>1. ASSUME NEW x \in Listed(t) PROVE x \in Listed(s) \cup {k}
    BY <1>1, <2>1 DEF Listed
  <2>2. ASSUME NEW x \in Listed(s) PROVE x \in Listed(t)
    <3>1. PICK i \in 1 .. Len(s) : x = s[i]
      BY <2>2 DEF Listed
    <3> QED
      BY <1>1, <3>1 DEF Listed
  <2>3. k \in Listed(t)
    BY <1>1 DEF Listed
  <2> QED
    BY <2>1, <2>2, <2>3
<1> QED
  BY <1>1, <1>2, <1>3 DEF t

LEMMA WithoutLists ==
  ASSUME NEW S, NEW s \in Seq(S), NEW k, Distinct(s)
  PROVE  /\ Without(s, k) \in Seq(S) /\ Distinct(Without(s, k))
         /\ Listed(Without(s, k)) = Listed(s) \ {k}
         /\ s = <<>> => Without(s, k) = <<>>
<1>1. CASE \A i \in 1 .. Len(s) : s[i] # k
  BY <1>1 DEF Without, Listed
<1>2. CASE ~\A i \in 1 .. Len(s) : s[i] # k
  <2> DEFINE m == CHOOSE i \in 1 .. Len(s) : s[i] = k
             a == SubSeq(s, 1, m - 1)
             b == SubSeq(s, m + 1, Len(s))
             t == a \o b
  <2>1. m \in 1 .. Len(s) /\ s[m] = k
    BY <1>2
  <2>2. Len(s) \in Nat /\ \A i \in 1 .. Len(s) : s[i] \in S
    BY LenProperties, ElementOfSeq
  <2> HIDE DEF m
  <2>3. a \in Seq(S) /\ Len(a) = m - 1 /\ \A i \in 1 .. m - 1 : a[i] = s[i]
    <3>1. \A i \in 1 .. m - 1 : s[i] \in S
      BY <2>1, <2>2
    <3> QED
      BY <2>1, <2>2, <3>1, SubSeqProperties
  <2>4. /\ b \in Seq(S) /\ Len(b) = Len(s) - m
        /\ \A i \in 1 .. Len(s) - m : b[i] = s[m + i]
    <3>1. \A i \in m + 1 .. Len(s) : s[i] \in S
      BY <2>1, <2>2
    <3>2. /\ b \in Seq(S)
          /\ Len(b) = IF m + 1 <= Len(s) THEN Len(s) - (m + 1) + 1 ELSE 0
          /\ \A i \in 1 .. Len(s) - (m + 1) + 1 : b[i] = s[m + 1 + i - 1]
      BY <2>1, <2>2, <3>1, SubSeqProperties
    <3> QED
      BY <2>1, <2>2, <3>2
  <2> HIDE DEF a, b
  <2>5. /\ t \in Seq(S) /\ Len(t) = Len(s) - 1
        /\ \A i \in 1 .. Len(s) - 1 : t[i] = IF i < m THEN s[i] ELSE s[i + 1]
    <3>1. /\ t \in Seq(S) /\ Len(t) = Len(a) + Len(b)
          /\ \A i \in 1 .. Len(a) + Len(b) :
                t[i] = IF i <= Len(a) THEN a[i] ELSE b[i - Len(a)]
      BY <2>3, <2>4, ConcatProperties
    <3>2. Len(a) + Len(b) = Len(s) - 1
      BY <2>1, <2>2, <2>3, <2>4
    <3>3. ASSUME NEW i \in 1 .. Len(s) - 1 PROVE t[i] = IF i < m THEN s[i] ELSE s[i + 1]
      <4>1. CASE i < m
        BY <2>1, <2>2, <2>3, <3>1, <3>2, <4>1
      <4>2. CASE ~(i < m)
        <5>1. i - Len(a) \in 1 .. Len(s) - m /\ m + (i - Len(a)) = i + 1 /\ ~(i <= Len(a))
          BY <2>1, <2>2, <2>3, <4>2
        <5>2. b[i - Len(a)] = s[i + 1]
          BY <2>4, <5>1
        <5> QED
          BY <3>1, <3>2, <4>2, <5>1, <5>2
      <4> QED
        BY <4>1, <4>2
    <3> QED
      BY <3>1, <3>2, <3>3
  <2> HIDE DEF t
  <2>6. Distinct(t)
    <3> SUFFICES ASSUME NEW i \in 1 .. Len(t), NEW j \in 1 .. Len(t), t[i] = t[j] PROVE i = j
      BY DEF Distinct
    <3>1. /\ i \in 1 .. Len(s) /\ j \in 1 .. Len(s)
          /\ i + 1 \in 1 .. Len(s) /\ j + 1 \in 1 .. Len(s)
      BY <2>2, <2>5
    <3> QED
      BY <2>1, <2>2, <2>5, <3>1 DEF Distinct
  <2>7. Listed(t) = Listed(s) \ {k}
    <3>1. ASSUME NEW x \in Listed(t) PROVE x \in Listed(s) \ {k}
      <4>1. PICK i \in 1 .. Len(t) : x = t[i]
        BY <3>1 DEF Listed
      <4>2. i \in 1 .. Len(s) /\ i + 1 \in 1 .. Len(s)
        BY <2>2, <2>5
      <4>3. PICK j \in 1 .. Len(s) : x = s[j] /\ j # m
        BY <2>1, <2>5, <4>1, <4>2
      <4> QED
        BY <2>1, <4>3 DEF Distinct, Listed
    <3>2. ASSUME NEW x \in Listed(s), x # k PROVE x \in Listed(t)
      <4>1. PICK j \in 1 .. Len(s) : x = s[j]
        BY DEF Listed
      <4>2. CASE j < m
        BY <2>1, <2>2, <2>5, <4>1, <4>2 DEF Listed
      <4>3. CASE j > m
        <5>1. j - 1 \in 1 .. Len(s) - 1 /\ ~(j - 1 < m) /\ (j - 1) + 1 = j
          BY <2>1, <2>2, <4>3
        <5>2. t[j - 1] = s[j]
          BY <2>5, <5>1
        <5> QED
          BY <2>5, <4>1, <5>1, <5>2 DEF Listed
      <4> QED
        BY <2>1, <3>2, <4>1, <4>2, <4>3
    <3> QED
      BY <3>1, <3>2
  <2>8. Without(s, k) = t
    BY <1>2 DEF Without, t, a, b, m
  <2>9. s # <<>>
    BY <2>1, EmptySeq
  <2> QED
    BY <2>5, <2>6, <2>7, <2>8, <2>9
<1> QED
  BY <1>1, <1>2

(* The list without its first n.                                           *)
LEMMA FrontLists ==
  ASSUME NEW S, NEW s \in Seq(S), Distinct(s), NEW n \in 0 .. Len(s)
  PROVE  LET front == {s[i] : i \in 1 .. n}
             rest == SubSeq(s, n + 1, Len(s))
         IN  /\ front \subseteq Listed(s) /\ IsFiniteSet(front) /\ Cardinality(front) = n
             /\ rest \in Seq(S) /\ Distinct(rest) /\ Listed(rest) = Listed(s) \ front
             /\ n = Len(s) => rest = <<>>
<1> DEFINE front == {s[i] : i \in 1 .. n}
           rest == SubSeq(s, n + 1, Len(s))
<1>1. Len(s) \in Nat /\ \A i \in 1 .. Len(s) : s[i] \in S
  BY LenProperties, ElementOfSeq
<1>2. front \subseteq Listed(s)
  BY <1>1 DEF Listed
<1>3. IsFiniteSet(front) /\ Cardinality(front) = n
  <2> DEFINE f == [i \in 1 .. n |-> s[i]]
  <2>1. f \in Bijection(1 .. n, front)
    <3>1. f \in Injection(1 .. n, front)
      BY <1>1 DEF Distinct, Injection, IsInjective
    <3>2. f \in Surjection(1 .. n, front)
      BY DEF Surjection
    <3> QED
      BY <3>1, <3>2 DEF Bijection
  <2>2. IsFiniteSet(1 .. n) /\ Cardinality(1 .. n) = n
    BY <1>1, FS_Interval
  <2>3. ExistsBijection(1 .. n, front)
    BY <2>1 DEF ExistsBijection
  <2> QED
    BY <2>2, <2>3, FS_Bijection
<1>4. /\ rest \in Seq(S) /\ Len(rest) = Len(s) - n
      /\ \A i \in 1 .. Len(s) - n : rest[i] = s[n + i]
  <2>1. \A i \in n + 1 .. Len(s) : s[i] \in S
    BY <1>1
  <2>2. /\ rest \in Seq(S)
        /\ Len(rest) = IF n + 1 <= Len(s) THEN Len(s) - (n + 1) + 1 ELSE 0
        /\ \A i \in 1 .. Len(s) - (n + 1) + 1 : rest[i] = s[n + 1 + i - 1]
    BY <1>1, <2>1, SubSeqProperties
  <2> QED
    BY <1>1, <2>2
<1> HIDE DEF front, rest
<1>5. Distinct(rest)
  <2> SUFFICES ASSUME NEW i \in 1 .. Len(rest), NEW j \in 1 .. Len(rest), rest[i] = rest[j]
               PROVE  i = j
    BY DEF Distinct
  <2>1. n + i \in 1 .. Len(s) /\ n + j \in 1 .. Len(s)
    BY <1>1, <1>4
  <2>2. s[n + i] = s[n + j]
    BY <1>4
  <2>3. n + i = n + j
    BY <2>1, <2>2 DEF Distinct
  <2> QED
    BY <1>1, <1>4, <2>3
<1>6. Listed(rest) = Listed(s) \ front
  <2>1. ASSUME NEW x \in Listed(rest) PROVE x \in Listed(s) \ front
    <3>1. PICK i \in 1 .. Len(rest) : x = rest[i]
      BY <2>1 DEF Listed
    <3>2. n + i \in 1 .. Len(s) /\ x = s[n + i] /\ n + i \notin 1 .. n
      BY <1>1, <1>4, <3>1
    <3>3. 1 .. n \subseteq 1 .. Len(s)
      BY <1>1
    <3> QED
      BY <3>2, <3>3 DEF Listed, Distinct, front
  <2>2. ASSUME NEW x \in Listed(s), x \notin front PROVE x \in Listed(rest)
    <3>1. PICK j \in 1 .. Len(s) : x = s[j]
      BY DEF Listed
    <3>2. j - n \in 1 .. Len(s) - n /\ n + (j - n) = j
      BY <1>1, <2>2, <3>1 DEF front
    <3>3. rest[j - n] = s[j]
      BY <1>4, <3>2
    <3> QED
      BY <1>4, <3>1, <3>2, <3>3 DEF Listed
  <2> QED
    BY <2>1, <2>2
<1>7. n = Len(s) => rest = <<>>
  BY <1>1, <1>4, EmptySeq
<1> QED
  BY <1>2, <1>3, <1>4, <1>5, <1>6, <1>7 DEF front, rest
-----------------------------------------------------------------------------
(* What the operations under a cache's lock leave of an orderly cache.     *)
Fewer(c, d) ==
    \A k \in Keys : d.flights[k] <= c.flights[k] /\ d.handles[k] <= c.handles[k]

(* All but the list of inactive blobs.                                     *)
SameButLru(c, d) ==
    /\ d.blobs = c.blobs /\ d.flights = c.flights /\ d.handles = c.handles
    /\ d.names = c.names /\ d.sources = c.sources
    /\ d.loads = c.loads /\ d.archive = c.archive /\ d.retired = c.retired

LEMMA InLruIsListed == ASSUME NEW c, NEW k PROVE InLru(c, k) <=> k \in Listed(c.lru)
  BY DEF InLru, Listed

LEMMA CachesAreCaches == ASSUME NEW c \in Caches PROVE IsCache(c)
  BY DEF Caches, IsCache

LEMMA FewerComposes ==
  ASSUME NEW c \in Caches, NEW d \in Caches, NEW e \in Caches, Fewer(c, d), Fewer(d, e)
  PROVE  Fewer(c, e)
  BY DEF Fewer, Caches

LEMMA FewerSame ==
  ASSUME NEW c \in Caches, NEW d, d.flights = c.flights, d.handles = c.handles
  PROVE  Fewer(c, d)
  BY DEF Fewer, Caches

LEMMA Relisted ==
  ASSUME NEW c \in Caches, NEW s \in Seq(Keys)
  PROVE  LET d == [c EXCEPT !.lru = s]
         IN  d \in Caches /\ d.lru = s /\ SameButLru(c, d)
  BY DEF Caches, SameButLru

LEMMA TouchOrders ==
  ASSUME NEW c, Orderly(c), NEW k
  PROVE  LET d == Touch(c, k)
         IN  Orderly(d) /\ SameButLru(c, d) /\ (c.lru = <<>> => d.lru = <<>>)
<1> DEFINE d == Touch(c, k)
           s == Append(Without(c.lru, k), k)
<1>0. c \in Caches /\ c.lru \in Seq(Keys) /\ Distinct(c.lru)
  BY DEF Orderly, Caches
<1>1. CASE ~InLru(c, k)
  <2>1. d = c
    BY <1>1 DEF Touch
  <2> QED
    BY <2>1 DEF SameButLru
<1>2. CASE InLru(c, k)
  <2>1. k \in Listed(c.lru) /\ k \in Keys /\ c.lru # <<>>
    BY <1>0, <1>2, InLruIsListed, ListedAre, NothingListed
  <2>2. s \in Seq(Keys) /\ Distinct(s) /\ Listed(s) = Listed(c.lru)
    <3> DEFINE w == Without(c.lru, k)
    <3>1. w \in Seq(Keys) /\ Distinct(w) /\ Listed(w) = Listed(c.lru) \ {k}
      BY <1>0, WithoutLists
    <3> HIDE DEF w
    <3>2. /\ Append(w, k) \in Seq(Keys) /\ Distinct(Append(w, k))
          /\ Listed(Append(w, k)) = Listed(w) \cup {k}
      BY <2>1, <3>1, AppendLists
    <3> QED
      BY <2>1, <3>1, <3>2 DEF w
  <2>3. d = [c EXCEPT !.lru = s]
    BY <1>2 DEF Touch
  <2>4. d \in Caches /\ d.lru = s /\ SameButLru(c, d)
    BY <1>0, <2>2, <2>3, Relisted
  <2>5. Orderly(d)
    BY <2>2, <2>4 DEF Orderly, SameButLru, Idle
  <2> QED
    BY <2>1, <2>4, <2>5
<1> QED
  BY <1>1, <1>2

LEMMA RecordOrders ==
  ASSUME NEW c, Orderly(c), NEW k \in Keys
  PROVE  LET d == Record(c, k)
         IN  /\ Orderly(d) /\ d.blobs = c.blobs \cup {k}
             /\ d.flights = c.flights /\ d.handles = c.handles
<1> DEFINE d == Record(c, k)
           s == Append(c.lru, k)
<1>0. c \in Caches /\ c.lru \in Seq(Keys) /\ Distinct(c.lru)
  BY DEF Orderly, Caches
<1>1. CASE k \in c.blobs
  BY <1>1, TouchOrders DEF Record, SameButLru
<1>2. CASE k \notin c.blobs
  <2>1. k \notin Listed(c.lru)
    BY <1>2 DEF Orderly, Idle
  <2>2. s \in Seq(Keys) /\ Distinct(s) /\ Listed(s) = Listed(c.lru) \cup {k}
    BY <1>0, <2>1, AppendLists
  <2>3. d = [c EXCEPT !.blobs = c.blobs \cup {k}, !.lru = s]
    BY <1>0, <1>2 DEF Record, Caches
  <2> HIDE DEF s, d
  <2>4. /\ d \in Caches /\ d.lru = s /\ d.blobs = c.blobs \cup {k}
        /\ d.flights = c.flights /\ d.handles = c.handles
    <3> DEFINE e == [c EXCEPT !.blobs = c.blobs \cup {k}]
    <3>1. /\ e \in Caches /\ e.blobs = c.blobs \cup {k}
          /\ e.flights = c.flights /\ e.handles = c.handles
      BY <1>0 DEF Caches
    <3>2. d = [e EXCEPT !.lru = s]
      BY <2>3
    <3> HIDE DEF e
    <3> QED
      BY <2>2, <3>1, <3>2, Relisted DEF SameButLru
  <2>5. IsFiniteSet(d.blobs)
    BY <2>4, FS_AddElement DEF Orderly
  <2>6. \A j \in Keys : j \in Listed(d.lru) <=> Idle(d, j)
    BY <1>2, <2>2, <2>4 DEF Orderly, Idle
  <2>7. Orderly(d)
    BY <2>2, <2>4, <2>5, <2>6 DEF Orderly
  <2> QED
    BY <2>4, <2>7 DEF d
<1> QED
  BY <1>1, <1>2

(* An orderly cache, but for a blob k that may be idle and not be listed.  *)
Unlisted(c, k) ==
    /\ c \in Caches /\ IsFiniteSet(c.blobs) /\ Distinct(c.lru)
    /\ \A j \in Keys : j \in Listed(c.lru) => Idle(c, j)
    /\ \A j \in Keys \ {k} : Idle(c, j) => j \in Listed(c.lru)
    /\ \A j \in Keys \ c.blobs : c.flights[j] = 0 /\ c.handles[j] = 0

LEMMA EvictableOrders ==
  ASSUME NEW c, NEW k \in Keys, Unlisted(c, k)
  PROVE  LET d == Evictable(c, k) IN Orderly(d) /\ SameButLru(c, d)
<1> DEFINE d == Evictable(c, k)
           s == Append(c.lru, k)
<1>0. c \in Caches /\ c.lru \in Seq(Keys) /\ Distinct(c.lru)
  BY DEF Unlisted, Caches
<1>1. CASE Idle(c, k) /\ k \notin Listed(c.lru)
  <2>1. d = [c EXCEPT !.lru = s]
    BY <1>1, InLruIsListed DEF Evictable, Idle
  <2>2. s \in Seq(Keys) /\ Distinct(s) /\ Listed(s) = Listed(c.lru) \cup {k}
    BY <1>0, <1>1, AppendLists
  <2>3. d \in Caches /\ d.lru = s /\ SameButLru(c, d)
    BY <1>0, <2>1, <2>2, Relisted
  <2>4. Orderly(d)
    BY <1>1, <2>2, <2>3 DEF Unlisted, Orderly, Idle, SameButLru
  <2> QED
    BY <2>3, <2>4
<1>2. CASE ~(Idle(c, k) /\ k \notin Listed(c.lru))
  <2>1. d = c
    BY <1>2, InLruIsListed DEF Evictable, Idle
  <2> QED
    BY <1>2, <2>1 DEF Unlisted, Orderly, SameButLru
<1> QED
  BY <1>1, <1>2

(* A load takes its protection of a blob, and gives it back.               *)
LEMMA ProtectOrders ==
  ASSUME NEW c, Orderly(c), NEW k \in Keys, NEW held
  PROVE  LET d == Protect(c, k, held)
         IN  /\ Orderly(d) /\ d.handles = c.handles
             /\ held # NoKey => d = c
             /\ held = NoKey =>
                   /\ d.blobs = c.blobs \cup {k}
                   /\ d.flights = [c.flights EXCEPT ![k] = c.flights[k] + 1]
<1> DEFINE d == Protect(c, k, held)
           r == Record(c, k)
           s == Without(r.lru, k)
           flights == [c.flights EXCEPT ![k] = c.flights[k] + 1]
<1>1. CASE held # NoKey
  BY <1>1 DEF Protect
<1>2. CASE held = NoKey
  <2>1. /\ Orderly(r) /\ r.blobs = c.blobs \cup {k}
        /\ r.flights = c.flights /\ r.handles = c.handles
    BY RecordOrders
  <2>2. d = [r EXCEPT !.lru = s, !.flights = flights]
    BY <1>2, <2>1 DEF Protect, Orderly, Caches
  <2> HIDE DEF d, r
  <2>3. r \in Caches /\ r.lru \in Seq(Keys) /\ Distinct(r.lru)
    BY <2>1 DEF Orderly, Caches
  <2>4. s \in Seq(Keys) /\ Distinct(s) /\ Listed(s) = Listed(r.lru) \ {k}
    BY <2>3, WithoutLists
  <2>5. /\ flights \in [Keys -> Nat] /\ flights[k] # 0
        /\ \A j \in Keys \ {k} : flights[j] = c.flights[j]
    BY DEF Orderly, Caches
  <2> HIDE DEF s, flights
  <2>6. /\ d \in Caches /\ d.lru = s /\ d.blobs = r.blobs
        /\ d.flights = flights /\ d.handles = r.handles
    BY <2>2, <2>3, <2>4, <2>5 DEF Caches
  <2>7. \A j \in Keys : j \in Listed(d.lru) <=> Idle(d, j)
    BY <2>1, <2>4, <2>5, <2>6 DEF Orderly, Idle
  <2>8. Orderly(d)
    BY <2>1, <2>4, <2>5, <2>6, <2>7 DEF Orderly
  <2> QED
    BY <1>2, <2>1, <2>6, <2>8 DEF d, flights
<1> QED
  BY <1>1, <1>2

LEMMA ReleaseOrders ==
  ASSUME NEW c, Orderly(c), NEW k
  PROVE  LET d == Release(c, k)
         IN  /\ Orderly(d) /\ d.blobs = c.blobs /\ d.handles = c.handles
             /\ \A j \in Keys : d.flights[j] <= c.flights[j]
             /\ k \in Keys => d.flights[k] = 0 \/ d.flights[k] = c.flights[k] - 1
<1> DEFINE d == Release(c, k)
           flights == [c.flights EXCEPT ![k] = c.flights[k] - 1]
           e == [c EXCEPT !.flights = flights]
<1>0. c \in Caches /\ c.flights \in [Keys -> Nat]
  BY DEF Orderly, Caches
<1>1. CASE k \in c.blobs /\ c.flights[k] # 0
  <2>1. k \in Keys /\ c.flights[k] \in Nat
    BY <1>0, <1>1 DEF Caches
  <2>2. /\ flights \in [Keys -> Nat] /\ flights[k] = c.flights[k] - 1
        /\ \A j \in Keys \ {k} : flights[j] = c.flights[j]
    BY <1>0, <1>1, <2>1
  <2>3. d = Evictable(e, k)
    BY <1>1 DEF Release
  <2> HIDE DEF flights
  <2>4. /\ e \in Caches /\ e.lru = c.lru /\ e.blobs = c.blobs
        /\ e.flights = flights /\ e.handles = c.handles
    BY <1>0, <2>2 DEF Caches
  <2> HIDE DEF e
  <2>5. Unlisted(e, k)
    BY <1>1, <2>1, <2>2, <2>4 DEF Orderly, Unlisted, Idle
  <2>6. Orderly(d) /\ SameButLru(e, d)
    BY <2>1, <2>3, <2>5, EvictableOrders
  <2>7. \A j \in Keys : flights[j] <= c.flights[j]
    BY <1>0, <2>1, <2>2
  <2> QED
    BY <2>2, <2>4, <2>6, <2>7 DEF SameButLru
<1>2. CASE ~(k \in c.blobs /\ c.flights[k] # 0)
  <2>1. d = c
    BY <1>2 DEF Release
  <2>2. \A j \in Keys : c.flights[j] <= c.flights[j]
    BY <1>0
  <2>3. k \in Keys => c.flights[k] = 0
    BY <1>2 DEF Orderly
  <2> QED
    BY <2>1, <2>2, <2>3
<1> QED
  BY <1>1, <1>2
(* Blobs are removed.                                                      *)
LEMMA DropOrders ==
  ASSUME NEW c, Orderly(c), NEW ks, NEW rest \in Seq(Keys), Distinct(rest),
         Listed(rest) = Listed(c.lru) \ ks
  PROVE  LET d == Drop(c, ks, rest)
         IN  /\ Orderly(d) /\ Fewer(c, d) /\ d.blobs = c.blobs \ ks /\ d.lru = rest
             /\ d.retired = c.retired
<1> DEFINE names == [n \in Names |-> IF c.names[n] \in ks THEN NoKey ELSE c.names[n]]
           sources == [f \in Files |-> IF c.sources[f] \in ks THEN NoKey ELSE c.sources[f]]
           flights == [k \in Keys |-> IF k \in ks THEN 0 ELSE c.flights[k]]
           handles == [k \in Keys |-> IF k \in ks THEN 0 ELSE c.handles[k]]
           d == Drop(c, ks, rest)
<1>1. d = [names |-> names, sources |-> sources, blobs |-> c.blobs \ ks,
           flights |-> flights, handles |-> handles, lru |-> rest,
           loads |-> c.loads, archive |-> c.archive, retired |-> c.retired]
  <2>1. d = [c EXCEPT !.names = names, !.sources = sources, !.blobs = c.blobs \ ks,
                      !.lru = rest, !.flights = flights, !.handles = handles]
    BY Zenon DEF Drop
  <2>2. IsCache(c)
    BY CachesAreCaches DEF Orderly
  <2> HIDE DEF names, sources, flights, handles, d
  <2> QED
    BY <2>1, <2>2 DEF IsCache
<1>2. /\ names \in [Names -> Keys \cup {NoKey, NotExist}]
      /\ sources \in [Files -> Keys \cup {NoKey}]
  BY DEF Orderly, Caches
<1>3. flights \in [Keys -> Nat] /\ handles \in [Keys -> Nat]
  BY DEF Orderly, Caches
<1>4. \A k \in Keys : /\ flights[k] = (IF k \in ks THEN 0 ELSE c.flights[k])
                      /\ handles[k] = (IF k \in ks THEN 0 ELSE c.handles[k])
  OBVIOUS
<1> HIDE DEF names, sources, flights, handles, d
<1>5. d \in Caches
  BY <1>1, <1>2, <1>3 DEF Orderly, Caches
<1>6. Fewer(c, d)
  <2>1. \A k \in Keys : c.flights[k] \in Nat /\ c.handles[k] \in Nat
    BY DEF Orderly, Caches
  <2> QED
    BY <1>1, <1>4, <2>1 DEF Fewer
<1>7. IsFiniteSet(d.blobs)
  BY <1>1, FS_Difference DEF Orderly
<1>8. \A k \in Keys : k \in Listed(d.lru) <=> Idle(d, k)
  BY <1>1, <1>4 DEF Orderly, Idle
<1>9. \A k \in Keys \ d.blobs : d.flights[k] = 0 /\ d.handles[k] = 0
  BY <1>1, <1>4 DEF Orderly
<1>10. Orderly(d)
  BY <1>1, <1>5, <1>7, <1>8, <1>9 DEF Orderly
<1> QED
  BY <1>1, <1>6, <1>10 DEF d

LEMMA SetNameOrders ==
  ASSUME NEW c, Orderly(c), NEW n \in Names, NEW k \in Keys
  PROVE  LET d == SetName(c, n, k) IN Orderly(d) /\ Fewer(c, d)
<1> DEFINE named == [c EXCEPT !.names[n] = k]
           old == c.names[n]
           dropped == Drop(named, {old}, Without(c.lru, old))
<1>1. c \in Caches /\ c.lru \in Seq(Keys) /\ Distinct(c.lru)
  BY DEF Orderly, Caches
<1>2. /\ Orderly(named) /\ named.flights = c.flights /\ named.handles = c.handles
      /\ named.lru = c.lru
  <2>1. /\ named \in Caches /\ named.lru = c.lru /\ named.blobs = c.blobs
        /\ named.flights = c.flights /\ named.handles = c.handles
    BY <1>1 DEF Caches
  <2> HIDE DEF named
  <2> QED
    BY <2>1 DEF Orderly, Idle
<1>3. SetName(c, n, k) = Record(dropped, k) \/ SetName(c, n, k) = Record(named, k)
  BY DEF SetName
<1> HIDE DEF named
<1>4. Orderly(dropped) /\ Fewer(named, dropped)
  BY <1>1, <1>2, WithoutLists, DropOrders
<1> HIDE DEF dropped
<1>5. ASSUME NEW d, Orderly(d), Fewer(named, d)
      PROVE  Orderly(Record(d, k)) /\ Fewer(c, Record(d, k))
  BY <1>2, <1>5, RecordOrders DEF Fewer
<1>6. Fewer(named, named)
  BY <1>2, FewerSame DEF Orderly
<1> QED
  BY <1>2, <1>3, <1>4, <1>5, <1>6

(* The budget is enforced.                                                 *)
LEMMA EnforceOrders ==
  ASSUME NEW c, Orderly(c)
  PROVE  LET d == Enforce(c)
         IN  /\ Orderly(d) /\ Fewer(c, d) /\ d.retired = c.retired
             /\ c.retired \/ WithinBudget(d)
<1> DEFINE size == Cardinality(c.blobs)
           over == IF size > Budget THEN size - Budget ELSE 0
           many == IF over < Len(c.lru) THEN over ELSE Len(c.lru)
           front == {c.lru[i] : i \in 1 .. many}
           rest == SubSeq(c.lru, many + 1, Len(c.lru))
           d == Drop(c, front, rest)
<1>1. c \in Caches /\ c.lru \in Seq(Keys) /\ Distinct(c.lru)
  BY DEF Orderly, Caches
<1>2. CASE c.retired
  <2>1. Enforce(c) = c
    BY <1>2 DEF Enforce
  <2> QED
    BY <1>1, <1>2, <2>1, FewerSame
<1>3. CASE ~c.retired
  <2>1. size \in Nat /\ over \in Nat /\ Len(c.lru) \in Nat /\ many \in 0 .. Len(c.lru)
    BY <1>1, FS_CardinalityType, LenProperties, AssetAssumption DEF Orderly
  <2>2. /\ front \subseteq Listed(c.lru) /\ IsFiniteSet(front) /\ Cardinality(front) = many
        /\ rest \in Seq(Keys) /\ Distinct(rest) /\ Listed(rest) = Listed(c.lru) \ front
        /\ many = Len(c.lru) => rest = <<>>
    <3> HIDE DEF many
    <3> QED
      BY <1>1, <2>1, FrontLists
  <2>3. Enforce(c) = d
    BY <1>3 DEF Enforce
  <2> HIDE DEF front, rest
  <2>4. /\ Orderly(d) /\ Fewer(c, d) /\ d.blobs = c.blobs \ front /\ d.lru = rest
        /\ d.retired = c.retired
    BY <2>2, DropOrders
  <2>5. front \subseteq c.blobs
    <3>1. Listed(c.lru) \subseteq Keys
      BY <1>1, ListedAre
    <3> QED
      BY <2>2, <3>1 DEF Orderly, Idle
  <2>6. Cardinality(d.blobs) = size - many
    <3>1. c.blobs \cap front = front
      BY <2>5
    <3>2. IsFiniteSet(c.blobs) /\ Cardinality(front) = many
      BY <2>2 DEF Orderly
    <3> HIDE DEF many
    <3> QED
      BY <2>4, <3>1, <3>2, FS_Difference
  <2>7. WithinBudget(d)
    <3>1. CASE many = Len(c.lru)
      BY <2>2, <2>4, <3>1 DEF WithinBudget
    <3>2. CASE many = over
      <4>1. size - over <= Budget
        BY <2>1, AssetAssumption
      <4> QED
        BY <2>6, <3>2, <4>1 DEF WithinBudget
    <3> QED
      BY <3>1, <3>2
  <2> HIDE DEF d
  <2> QED
    BY <2>3, <2>4, <2>7
<1> QED
  BY <1>2, <1>3

LEMMA NewCacheOrders ==
  /\ Orderly(NewCache) /\ NewCache.lru = <<>>
  /\ \A k \in Keys : NewCache.flights[k] = 0 /\ NewCache.handles[k] = 0
<1>1. NewCache \in Caches
  <2>1. <<>> \in Seq(Keys)
    BY EmptySeq
  <2> QED
    BY <2>1 DEF NewCache, Caches
<1>2. /\ NewCache.lru = <<>> /\ NewCache.blobs = {}
      /\ \A k \in Keys : NewCache.flights[k] = 0 /\ NewCache.handles[k] = 0
  BY DEF NewCache
<1> QED
  BY <1>1, <1>2, NothingListed, FS_EmptySet DEF Orderly, Idle

LEMMA DropRetiredOrders ==
  ASSUME NEW c, Orderly(c)
  PROVE  LET d == DropRetired(c)
         IN  Orderly(d) /\ Fewer(c, d) /\ (d = c \/ d.retired)
<1>1. c \in Caches
  BY DEF Orderly
<1>2. CASE c.retired /\ c.loads = {}
  <2> DEFINE d == [NewCache EXCEPT !.retired = TRUE,
                          !.archive = IF c.archive = "open" THEN "closed" ELSE c.archive]
  <2>1. DropRetired(c) = d
    BY <1>2 DEF DropRetired
  <2>2. NewCache \in Caches /\ Orderly(NewCache)
    BY NewCacheOrders DEF Orderly
  <2>3. /\ d \in Caches /\ d.retired /\ d.lru = NewCache.lru /\ d.blobs = NewCache.blobs
        /\ d.flights = NewCache.flights /\ d.handles = NewCache.handles
    BY <1>1, <2>2 DEF Caches
  <2> HIDE DEF d
  <2>4. Orderly(d)
    BY <2>2, <2>3 DEF Orderly, Idle
  <2>5. \A k \in Keys : c.flights[k] \in Nat /\ c.handles[k] \in Nat
    BY <1>1 DEF Caches
  <2>6. Fewer(c, d)
    BY <2>3, <2>5, NewCacheOrders DEF Fewer
  <2> QED
    BY <2>1, <2>3, <2>4, <2>6
<1>3. CASE ~(c.retired /\ c.loads = {})
  BY <1>1, <1>3, FewerSame DEF DropRetired
<1> QED
  BY <1>2, <1>3

(* An AAsset is given a blob of the cache.                                 *)
LEMMA LendOrders ==
  ASSUME NEW c, Orderly(c), NEW k \in c.blobs
  PROVE  LET d == [c EXCEPT !.lru = Without(@, k), !.handles[k] = @ + 1]
         IN  /\ Orderly(d) /\ d.blobs = c.blobs /\ d.flights = c.flights
             /\ d.handles = [c.handles EXCEPT ![k] = c.handles[k] + 1]
             /\ c.lru = <<>> => d.lru = <<>>
             /\ d.loads = c.loads /\ d.retired = c.retired
<1> DEFINE s == Without(c.lru, k)
           handles == [c.handles EXCEPT ![k] = c.handles[k] + 1]
           d == [c EXCEPT !.lru = Without(@, k), !.handles[k] = @ + 1]
<1>1. c \in Caches /\ c.lru \in Seq(Keys) /\ Distinct(c.lru) /\ k \in Keys
  BY DEF Orderly, Caches
<1>2. d = [c EXCEPT !.lru = s, !.handles = handles]
  BY <1>1 DEF Caches
<1>3. /\ s \in Seq(Keys) /\ Distinct(s) /\ Listed(s) = Listed(c.lru) \ {k}
      /\ c.lru = <<>> => s = <<>>
  BY <1>1, WithoutLists
<1>4. /\ handles \in [Keys -> Nat] /\ handles[k] # 0
      /\ \A j \in Keys \ {k} : handles[j] = c.handles[j]
  BY <1>1 DEF Caches
<1> HIDE DEF d, s, handles
<1>5. /\ d \in Caches /\ d.lru = s /\ SameButLru([c EXCEPT !.handles = handles], d)
  BY <1>1, <1>2, <1>3, <1>4 DEF Caches, SameButLru
<1>6. /\ d.blobs = c.blobs /\ d.flights = c.flights /\ d.handles = handles
      /\ d.loads = c.loads /\ d.retired = c.retired
  BY <1>1, <1>5 DEF SameButLru, Caches
<1>7. \A j \in Keys : j \in Listed(d.lru) <=> Idle(d, j)
  BY <1>3, <1>4, <1>5, <1>6 DEF Orderly, Idle
<1>8. Orderly(d)
  BY <1>1, <1>3, <1>4, <1>5, <1>6, <1>7 DEF Orderly
<1> QED
  BY <1>3, <1>5, <1>6, <1>8 DEF d, handles

(* Its last handle is given back.                                          *)
LEMMA EndedOrders ==
  ASSUME NEW c, Orderly(c), NEW k \in Keys
  PROVE  LET d == Ended(c, k)
         IN  /\ Orderly(d) /\ Fewer(c, d)
             /\ d.handles[k] = 0 \/ d.handles[k] <= c.handles[k] - 1
             /\ d = c \/ c.retired \/ WithinBudget(d)
<1> DEFINE d == Ended(c, k)
           handles == [c.handles EXCEPT ![k] = c.handles[k] - 1]
           e == [c EXCEPT !.handles = handles]
           f == Evictable(e, k)
<1>1. c \in Caches /\ c.handles \in [Keys -> Nat] /\ c.flights \in [Keys -> Nat]
  BY DEF Orderly, Caches
<1>2. CASE k \in c.blobs /\ c.handles[k] # 0
  <2>1. /\ handles \in [Keys -> Nat] /\ handles[k] = c.handles[k] - 1
        /\ \A j \in Keys \ {k} : handles[j] = c.handles[j]
    BY <1>1, <1>2
  <2>2. d = Enforce(f)
    BY <1>2 DEF Ended
  <2> HIDE DEF handles, d
  <2>3. /\ e \in Caches /\ e.lru = c.lru /\ e.blobs = c.blobs
        /\ e.flights = c.flights /\ e.handles = handles /\ e.retired = c.retired
    BY <1>1, <2>1 DEF Caches
  <2> HIDE DEF e
  <2>4. Unlisted(e, k)
    BY <1>2, <2>1, <2>3 DEF Orderly, Unlisted, Idle
  <2>5. Orderly(f) /\ SameButLru(e, f)
    BY <2>4, EvictableOrders
  <2> HIDE DEF f
  <2>6. /\ Orderly(d) /\ Fewer(f, d)
        /\ f.retired \/ WithinBudget(d)
    BY <2>2, <2>5, EnforceOrders
  <2>7. f.flights = c.flights /\ f.handles = handles /\ f.retired = c.retired
    BY <2>3, <2>5 DEF SameButLru
  <2>8. d.handles \in [Keys -> Nat] /\ d.flights \in [Keys -> Nat]
    BY <2>6 DEF Orderly, Caches
  <2>9. \A j \in Keys : d.flights[j] <= c.flights[j] /\ d.handles[j] <= handles[j]
    BY <2>6, <2>7 DEF Fewer
  <2>10. \A j \in Keys : d.handles[j] <= c.handles[j]
    BY <1>1, <2>1, <2>8, <2>9
  <2> QED
    BY <2>1, <2>6, <2>7, <2>9, <2>10 DEF Fewer, d
<1>3. CASE ~(k \in c.blobs /\ c.handles[k] # 0)
  <2>1. d = c
    BY <1>3 DEF Ended
  <2>2. c.handles[k] = 0
    BY <1>3 DEF Orderly
  <2> QED
    BY <1>1, <2>1, <2>2, FewerSame
<1> QED
  BY <1>2, <1>3
(* d protects the blobs of ks once more than c, the others as often at     *)
(* most.                                                                   *)
Protects(c, d, ks) ==
    \A j \in Keys : /\ d.flights[j] <= c.flights[j] + (IF j \in ks THEN 1 ELSE 0)
                    /\ d.handles[j] <= c.handles[j]

LEMMA ProtectProtects ==
  ASSUME NEW c, Orderly(c), NEW k \in Keys, NEW held
  PROVE  LET d == Protect(c, k, held)
         IN  Orderly(d) /\ Protects(c, d, IF held = NoKey THEN {k} ELSE {})
<1> DEFINE d == Protect(c, k, held)
<1>1. /\ Orderly(d) /\ d.handles = c.handles
      /\ held # NoKey => d = c
      /\ held = NoKey => d.flights = [c.flights EXCEPT ![k] = c.flights[k] + 1]
  BY ProtectOrders
<1>2. c.flights \in [Keys -> Nat] /\ c.handles \in [Keys -> Nat]
  BY DEF Orderly, Caches
<1> HIDE DEF d
<1> QED
  BY <1>1, <1>2 DEF Protects, d

LEMMA FewerProtects ==
  ASSUME NEW c, Orderly(c), NEW d, Orderly(d), NEW e, Orderly(e), NEW ks,
         Protects(c, d, ks), Fewer(d, e)
  PROVE  Protects(c, e, ks)
<1>1. \A j \in Keys : /\ c.flights[j] \in Nat /\ d.flights[j] \in Nat /\ e.flights[j] \in Nat
                      /\ c.handles[j] \in Nat /\ d.handles[j] \in Nat /\ e.handles[j] \in Nat
  BY DEF Orderly, Caches
<1> QED
  BY <1>1 DEF Protects, Fewer

LEMMA FewerProtectsNone ==
  ASSUME NEW c, Orderly(c), NEW d, Orderly(d), Fewer(c, d)
  PROVE  Protects(c, d, {})
<1>1. \A j \in Keys : c.flights[j] \in Nat
  BY DEF Orderly, Caches
<1> QED
  BY <1>1 DEF Protects, Fewer

(* The file that was found is noted as a source.                           *)
LEMMA PublishOrders ==
  ASSUME NEW c, Orderly(c), NEW k \in Keys, NEW f \in Files
  PROVE  LET d == [Protect(c, k, NoKey) EXCEPT !.sources[f] = k]
         IN  Orderly(d) /\ Protects(c, d, {k})
<1> DEFINE e == Protect(c, k, NoKey)
           d == [e EXCEPT !.sources[f] = k]
<1>1. Orderly(e) /\ Protects(c, e, {k})
  BY ProtectProtects
<1> HIDE DEF e
<1>2. /\ d \in Caches /\ d.lru = e.lru /\ d.blobs = e.blobs
      /\ d.flights = e.flights /\ d.handles = e.handles
  BY <1>1 DEF Orderly, Caches
<1> HIDE DEF d
<1>3. Orderly(d) /\ Protects(c, d, {k})
  BY <1>1, <1>2 DEF Orderly, Idle, Protects
<1> QED
  BY <1>3 DEF d, e

(* Both names are noted.                                                   *)
LEMMA NamesOrders ==
  ASSUME NEW c, Orderly(c), NEW k \in Keys, NEW held, NEW n \in Names, NEW f \in Names
  PROVE  LET one == SetName(Protect(c, k, held), n, k)
             d == IF one.names[f] = NoKey THEN SetName(one, f, k) ELSE one
         IN  Orderly(d) /\ Protects(c, d, IF held = NoKey THEN {k} ELSE {})
<1> DEFINE e == Protect(c, k, held)
           one == SetName(e, n, k)
           two == SetName(one, f, k)
           ks == IF held = NoKey THEN {k} ELSE {}
<1>1. Orderly(e) /\ Protects(c, e, ks)
  BY ProtectProtects
<1> HIDE DEF e, ks
<1>2. Orderly(one) /\ Protects(c, one, ks)
  BY <1>1, SetNameOrders, FewerProtects
<1> HIDE DEF one
<1>3. Orderly(two) /\ Protects(c, two, ks)
  BY <1>2, SetNameOrders, FewerProtects
<1> HIDE DEF two
<1>4. LET d == IF one.names[f] = NoKey THEN two ELSE one IN Orderly(d) /\ Protects(c, d, ks)
  BY <1>2, <1>3
<1> QED
  BY <1>4 DEF two, one, e, ks

(* A load ends.                                                            *)
LEMMA FinishedOrders ==
  ASSUME NEW c, Orderly(c), NEW n \in Names, NEW k \in Keys \cup {NotExist, Failed},
         NEW held \in Keys \cup {NoKey}
  PROVE  LET d == Finished(c, n, k, held)
         IN  /\ Orderly(d) /\ Fewer(c, d)
             /\ held \in Keys => d.flights[held] = 0 \/ d.flights[held] <= c.flights[held] - 1
             /\ d.retired \/ WithinBudget(d)
<1> DEFINE cached == IF c.retired \/ c.names[n] # NoKey \/ k = Failed THEN c
                     ELSE IF k = NotExist THEN [c EXCEPT !.names[n] = NotExist]
                     ELSE SetName(Protect(c, k, held), n, k)
           blob == IF held = NoKey /\ ~c.retired /\ c.names[n] = NoKey /\ k \in Keys
                   THEN k ELSE held
           ended == [cached EXCEPT !.loads = @ \ {n}]
           released == Release(ended, blob)
           enforced == Enforce(released)
           d == DropRetired(enforced)
<1>0. /\ c \in Caches /\ NoKey \notin Keys /\ NotExist \notin Keys /\ Failed \notin Keys
      /\ \A j \in Keys : c.flights[j] \in Nat /\ c.handles[j] \in Nat
      /\ c.flights \in [Keys -> Nat] /\ c.handles \in [Keys -> Nat]
  BY AssetAssumption DEF Orderly, Caches
<1>1. /\ Orderly(cached)
      /\ Protects(c, cached, IF blob # held THEN {blob} ELSE {})
  <2>1. CASE c.retired \/ c.names[n] # NoKey \/ k = Failed
    <3>1. cached = c /\ blob = held
      BY <1>0, <2>1
    <3> HIDE DEF cached, blob
    <3>2. Fewer(c, c)
      BY <1>0, FewerSame
    <3> QED
      BY <3>1, <3>2, FewerProtectsNone
  <2>2. CASE ~(c.retired \/ c.names[n] # NoKey \/ k = Failed) /\ k = NotExist
    <3>1. cached = [c EXCEPT !.names[n] = NotExist] /\ blob = held
      BY <1>0, <2>2
    <3> HIDE DEF cached, blob
    <3>2. /\ cached \in Caches /\ cached.lru = c.lru /\ cached.blobs = c.blobs
          /\ cached.flights = c.flights /\ cached.handles = c.handles
      BY <1>0, <3>1 DEF Caches
    <3>3. Orderly(cached) /\ Fewer(c, cached)
      BY <1>0, <3>2, FewerSame DEF Orderly, Idle
    <3> QED
      BY <3>1, <3>3, FewerProtectsNone
  <2>3. CASE ~(c.retired \/ c.names[n] # NoKey \/ k = Failed) /\ k # NotExist
    <3> DEFINE e == Protect(c, k, held)
               ks == IF held = NoKey THEN {k} ELSE {}
    <3>1. cached = SetName(e, n, k) /\ k \in Keys
      BY <2>3
    <3>2. blob = IF held = NoKey THEN k ELSE held
      BY <2>3, <3>1
    <3>3. ks = IF blob # held THEN {blob} ELSE {}
      BY <1>0, <3>1, <3>2
    <3>4. Orderly(e) /\ Protects(c, e, ks)
      BY <3>1, ProtectProtects
    <3> HIDE DEF e, ks, cached, blob
    <3>5. Orderly(cached) /\ Protects(c, cached, ks)
      BY <3>1, <3>4, SetNameOrders, FewerProtects
    <3> QED
      BY <3>3, <3>5
  <2> QED
    BY <2>1, <2>2, <2>3
<1>2. blob \in Keys \/ blob = held
  OBVIOUS
<1>3. held \in Keys => blob = held
  BY <1>0
<1> HIDE DEF cached, blob
<1>4. /\ Orderly(ended) /\ ended.flights = cached.flights /\ ended.handles = cached.handles
  <2>1. /\ ended \in Caches /\ ended.lru = cached.lru /\ ended.blobs = cached.blobs
        /\ ended.flights = cached.flights /\ ended.handles = cached.handles
    BY <1>1 DEF Orderly, Caches
  <2> HIDE DEF ended
  <2> QED
    BY <1>1, <2>1 DEF Orderly, Idle
<1> HIDE DEF ended
<1>5. /\ Orderly(released) /\ released.handles = ended.handles
      /\ \A j \in Keys : released.flights[j] <= ended.flights[j]
      /\ blob \in Keys =>
            released.flights[blob] = 0 \/ released.flights[blob] = ended.flights[blob] - 1
  BY <1>4, ReleaseOrders
<1> HIDE DEF released
<1>6. /\ Orderly(enforced) /\ Fewer(released, enforced)
      /\ enforced.retired \/ WithinBudget(enforced)
  BY <1>5, EnforceOrders
<1> HIDE DEF enforced
<1>7. /\ Orderly(d) /\ Fewer(enforced, d) /\ (d.retired \/ WithinBudget(d))
  BY <1>6, DropRetiredOrders
<1>8. d = Finished(c, n, k, held)
  BY DEF Finished, cached, blob, ended, released, enforced
<1> HIDE DEF d
<1>9. \A j \in Keys : /\ cached.flights[j] \in Nat /\ cached.handles[j] \in Nat
                      /\ released.flights[j] \in Nat /\ enforced.flights[j] \in Nat
                      /\ enforced.handles[j] \in Nat
                      /\ d.flights[j] \in Nat /\ d.handles[j] \in Nat
  BY <1>1, <1>5, <1>6, <1>7 DEF Orderly, Caches
<1>10. ASSUME NEW j \in Keys
       PROVE  /\ d.handles[j] <= c.handles[j]
              /\ d.flights[j] <= c.flights[j]
              /\ j = held => d.flights[j] = 0 \/ d.flights[j] <= c.flights[j] - 1
  <2>1. d.handles[j] <= c.handles[j]
    <3>1. /\ cached.handles[j] <= c.handles[j]
          /\ enforced.handles[j] <= cached.handles[j] /\ d.handles[j] <= enforced.handles[j]
      BY <1>1, <1>4, <1>5, <1>6, <1>7 DEF Protects, Fewer
    <3> QED
      BY <1>0, <1>9, <3>1
  <2>2. /\ enforced.flights[j] <= released.flights[j] /\ d.flights[j] <= enforced.flights[j]
        /\ released.flights[j] <= cached.flights[j]
        /\ j = blob => released.flights[j] = 0 \/ released.flights[j] = cached.flights[j] - 1
    BY <1>4, <1>5, <1>6, <1>7 DEF Fewer
  <2>3. cached.flights[j] <= c.flights[j] + (IF j = blob /\ blob # held THEN 1 ELSE 0)
    BY <1>0, <1>1 DEF Protects
  <2>4. d.flights[j] <= c.flights[j]
    BY <1>0, <1>9, <2>2, <2>3
  <2>5. ASSUME j = held PROVE d.flights[j] = 0 \/ d.flights[j] <= c.flights[j] - 1
    <3>1. j = blob /\ blob = held
      BY <1>3, <2>5
    <3> QED
      BY <1>0, <1>9, <2>2, <2>3, <3>1
  <2> QED
    BY <2>1, <2>4, <2>5
<1> QED
  BY <1>7, <1>8, <1>10 DEF Fewer
-----------------------------------------------------------------------------
(* What is known of a thread.                                              *)
LEMMA Inventory ==
  ASSUME LoadInv, PinInv, BlobInv, NEW p \in Openers
  PROVE  /\ at[p] \in Steps /\ name[p] \in Names /\ gen[p] \in Generations
         /\ data[p] \in Keys \cup {NoKey, NotExist, Failed}
         /\ lease[p] \in Keys \cup {NoKey} /\ tracked[p] \in 0 .. MaxGeneration
         /\ Equipped(p) /\ Orderly(cache[gen[p]]) /\ Thrifty(cache[gen[p]])
         /\ cache[gen[p]] \in Caches
         /\ at[p] = "got" \/ Holds(p) \/ Ending(p) => data[p] \in Keys
         /\ Leads(p) => name[p] \in cache[gen[p]].loads
  BY DEF LoadInv, LoadTypes, LoadsLed, PinInv, PinTypes, BlobInv, BlobTypes

LEMMA OneSpot ==
  ASSUME LoadInv, BlobInv, NEW p \in Openers
  PROVE  /\ at = [at EXCEPT ![p] = at[p]] /\ name = [name EXCEPT ![p] = name[p]]
         /\ gen = [gen EXCEPT ![p] = gen[p]] /\ data = [data EXCEPT ![p] = data[p]]
         /\ lease = [lease EXCEPT ![p] = lease[p]]
  BY DEF LoadInv, LoadTypes, BlobInv, BlobTypes

LEMMA NoOneIsKey ==
  /\ NoKey \notin Keys /\ NotExist \notin Keys /\ Failed \notin Keys
  /\ NotExist # NoKey /\ Failed # NoKey
  BY AssetAssumption

(* A protected blob has its loads, and one more a load more.               *)
LEMMA MoreLeases ==
  ASSUME NEW g, NEW k, \A q \in Leases(g, k) : q \in Leases(g, k)'
  PROVE  /\ Cardinality(Leases(g, k)) \in Nat /\ Cardinality(Leases(g, k)') \in Nat
         /\ Cardinality(Leases(g, k)) <= Cardinality(Leases(g, k)')
         /\ \A q \in Leases(g, k)' \ Leases(g, k) :
               Cardinality(Leases(g, k)) + 1 <= Cardinality(Leases(g, k)')
<1> DEFINE L == Leases(g, k)
           M == Leases(g, k)'
<1>1. IsFiniteSet(Openers) /\ L \subseteq Openers /\ M \subseteq Openers
  BY AssetAssumption DEF Leases
<1>2. L \subseteq M /\ IsFiniteSet(L) /\ IsFiniteSet(M)
  BY <1>1, FS_Subset
<1> HIDE DEF L, M
<1>3. Cardinality(L) \in Nat /\ Cardinality(M) \in Nat /\ Cardinality(L) <= Cardinality(M)
  BY <1>2, FS_Subset, FS_CardinalityType
<1>4. ASSUME NEW q \in M \ L PROVE Cardinality(L) + 1 <= Cardinality(M)
  <2>1. L \cup {q} \in SUBSET M /\ Cardinality(L \cup {q}) = Cardinality(L) + 1
    BY <1>2, <1>4, FS_AddElement
  <2> QED
    BY <1>2, <2>1, FS_Subset
<1> QED
  BY <1>3, <1>4 DEF L, M

LEMMA TrackersCount ==
  ASSUME NEW g, NEW k
  PROVE  /\ IsFiniteSet(Trackers(g, k)) /\ Cardinality(Trackers(g, k)) \in Nat
         /\ IsFiniteSet(Trackers(g, k)') /\ Cardinality(Trackers(g, k)') \in Nat
         /\ Trackers(g, k) \subseteq Trackers(g, k)' =>
               Cardinality(Trackers(g, k)) <= Cardinality(Trackers(g, k)')
<1>1. /\ IsFiniteSet(Openers)
      /\ Trackers(g, k) \subseteq Openers /\ Trackers(g, k)' \subseteq Openers
  BY AssetAssumption DEF Trackers
<1>2. IsFiniteSet(Trackers(g, k)) /\ IsFiniteSet(Trackers(g, k)')
  BY <1>1, FS_Subset
<1> QED
  BY <1>2, FS_Subset, FS_CardinalityType

(* A mapping that a section unmaps is pinned by nobody; that of a pin is   *)
(* in somebody's hands.                                                    *)
LEMMA PinnedIsHad ==
  ASSUME PinInv, NEW k \in Maps, pins[k] # 0
  PROVE  \E q \in Openers : (Holds(q) \/ Ending(q)) /\ data[q] = k
<1>1. k \in mapped /\ pins[k] = Cardinality(Enders(k)) + (IF Holders(k) = {} THEN 0 ELSE 1)
  BY DEF PinInv, PinCounts
<1>2. Enders(k) # {} \/ Holders(k) # {}
  BY <1>1, CountsAreFinite
<1> QED
  BY <1>2 DEF Enders, Holders

(* Who had a mapping that stays still has it, or it is cached or pinned.   *)
LEMMA KeptStays ==
  ASSUME PinInv, BlobInv, NEW g \in Generations, NEW c, NEW gone,
         cache' = [cache EXCEPT ![g] = c],
         mapped' = mapped \ {k \in Maps : /\ k \in (cache[g].blobs \ c.blobs) \cup gone
                                          /\ pins[k] = 0},
         \A q \in Openers :
            /\ Holds(q) \/ Ending(q) => data'[q] = data[q]
            /\ data[q] \in Keys => data'[q] = data[q] \/ data[q] \in gone,
         NEW k \in mapped'
  PROVE  Kept(k)'
<1>0. cache \in [Generations -> Caches]
  BY DEF BlobInv, BlobTypes
<1>1. k \in mapped /\ k \in Maps /\ k \in Keys
  BY DEF PinInv, PinTypes, Keys
<1>2. CASE k \in (cache[g].blobs \ c.blobs) \cup gone
  <2>1. PICK q \in Openers : (Holds(q) \/ Ending(q)) /\ data[q] = k
    BY <1>1, <1>2, PinnedIsHad
  <2> QED
    BY <2>1 DEF Kept
<1>3. CASE k \notin (cache[g].blobs \ c.blobs) \cup gone
  <2>1. CASE Cached(k)
    BY <1>0, <1>3, <2>1 DEF Cached, Kept
  <2>2. ASSUME NEW q \in Openers, data[q] = k PROVE Kept(k)'
    BY <1>1, <1>3, <2>2 DEF Kept
  <2> QED
    BY <1>1, <2>1, <2>2 DEF BlobInv, Kept
<1> QED
  BY <1>2, <1>3

(* A cache protects and lends as much as before at most, for as many.      *)
LEMMA CountedStays ==
  ASSUME BlobInv, NEW g \in Generations, NEW k \in Keys, BlobTypes',
         cache'[g].flights[k] <= cache[g].flights[k],
         cache'[g].handles[k] <= cache[g].handles[k],
         \A q \in Leases(g, k) : q \in Leases(g, k)',
         Trackers(g, k) \subseteq Trackers(g, k)',
         borrows[k].tracks = g => borrows'[k].tracks = g
  PROVE  Counted(g, k)'
<1>1. /\ cache[g].flights[k] \in Nat /\ cache[g].handles[k] \in Nat
      /\ cache'[g].flights[k] \in Nat /\ cache'[g].handles[k] \in Nat
  BY DEF BlobInv, BlobTypes, Caches
<1>2. /\ cache[g].flights[k] <= Cardinality(Leases(g, k))
      /\ cache[g].handles[k]
            <= Cardinality(Trackers(g, k)) + (IF borrows[k].tracks = g THEN 1 ELSE 0)
  BY DEF BlobInv, Counted
<1>3. cache'[g].flights[k] <= Cardinality(Leases(g, k)')
  BY <1>1, <1>2, MoreLeases
<1>4. cache'[g].handles[k]
          <= Cardinality(Trackers(g, k)') + (IF borrows'[k].tracks = g THEN 1 ELSE 0)
  BY <1>1, <1>2, TrackersCount
<1> QED
  BY <1>3, <1>4 DEF Counted

(* What a section under the lock of the cache g leaves, with the blobs of  *)
(* ks protected once more.                                                 *)
Section(g, c, gone, ks) ==
    /\ Locked(g, c, gone) /\ Orderly(c) /\ Thrifty(c)
    /\ Protects(cache[g], c, ks)

(* A section under the lock of the cache g, in steps of threads that       *)
(* neither take nor give up handles: who had bytes still has them, or they *)
(* are discarded; who protected a blob still does; and there is a new      *)
(* protector for each blob that is protected once more.                    *)
LEMMA LockedStep ==
  ASSUME LoadInv, PinInv, BlobInv, NEW g \in Generations, NEW c, NEW gone, NEW ks,
         Section(g, c, gone, ks),
         data' \in [Openers -> Keys \cup {NoKey, NotExist, Failed}],
         lease' \in [Openers -> Keys \cup {NoKey}],
         tracked' \in [Openers -> 0 .. MaxGeneration],
         \A q \in Openers :
            /\ Equipped(q)'
            /\ lease[q] # NoKey => lease'[q] = lease[q] /\ gen'[q] = gen[q]
            /\ tracked[q] # 0 => tracked'[q] = tracked[q]
            /\ tracked[q] # 0 \/ Holds(q) \/ Ending(q) => data'[q] = data[q]
            /\ data[q] \in Keys => data'[q] = data[q] \/ data[q] \in gone
            /\ at'[q] \in Claimed => at[q] \in Claimed,
         \A k \in ks : \E q \in Openers : lease[q] # k /\ lease'[q] = k /\ gen'[q] = g
  PROVE  BlobInv'
<1> USE DEF Section
<1>1. /\ retiring' = retiring /\ pins' = pins /\ borrows' = borrows
      /\ cache' = [cache EXCEPT ![g] = c] /\ cache \in [Generations -> Caches]
      /\ c \in Caches
      /\ mapped' = mapped \ {k \in Maps : /\ k \in (cache[g].blobs \ c.blobs) \cup gone
                                          /\ pins[k] = 0}
  BY DEF Locked, BlobInv, BlobTypes, Orderly
<1>2. cache'[g] = c /\ \A h \in Generations \ {g} : cache'[h] = cache[h]
  BY <1>1
<1>3. BlobTypes'
  BY <1>1 DEF BlobInv, BlobTypes
<1>4. Tracking'
  BY <1>1 DEF BlobInv, Tracking, Holds, Claimed
<1>5. \A h \in Generations : Orderly(cache'[h]) /\ Thrifty(cache'[h])
  BY <1>2 DEF BlobInv
<1>6. ASSUME NEW h \in Generations, NEW k \in Keys PROVE Counted(h, k)'
  <2>1. /\ cache'[h].flights[k]
             <= cache[h].flights[k] + (IF h = g /\ k \in ks THEN 1 ELSE 0)
        /\ cache'[h].handles[k] <= cache[h].handles[k]
        /\ cache[h].flights[k] \in Nat /\ cache[h].handles[k] \in Nat
        /\ cache'[h].flights[k] \in Nat /\ cache'[h].handles[k] \in Nat
    <3>1. /\ cache[h].flights[k] \in Nat /\ cache[h].handles[k] \in Nat
          /\ cache'[h].flights[k] \in Nat /\ cache'[h].handles[k] \in Nat
      BY <1>1, <1>2 DEF Caches
    <3> QED
      BY <1>2, <3>1 DEF Protects
  <2>2. \A q \in Leases(h, k) : q \in Leases(h, k)'
    BY NoOneIsKey DEF Leases
  <2>3. Trackers(h, k) \subseteq Trackers(h, k)'
    BY DEF Trackers, Generations
  <2>4. h = g /\ k \in ks => \E q \in Openers : q \in Leases(h, k)' \ Leases(h, k)
    BY DEF Leases
  <2>5. /\ cache[h].flights[k] <= Cardinality(Leases(h, k))
        /\ cache[h].handles[k]
              <= Cardinality(Trackers(h, k)) + (IF borrows[k].tracks = h THEN 1 ELSE 0)
    BY DEF BlobInv, Counted
  <2>6. cache'[h].flights[k] <= Cardinality(Leases(h, k)')
    BY <2>1, <2>2, <2>4, <2>5, MoreLeases
  <2>7. cache'[h].handles[k]
            <= Cardinality(Trackers(h, k)') + (IF borrows'[k].tracks = h THEN 1 ELSE 0)
    BY <1>1, <2>1, <2>3, <2>5, TrackersCount
  <2> QED
    BY <2>6, <2>7 DEF Counted
<1>7. ASSUME NEW k \in mapped' PROVE Kept(k)'
  BY <1>1, <1>7, KeptStays
<1> QED
  BY <1>3, <1>4, <1>5, <1>6, <1>7 DEF BlobInv

(* The step of one thread.                                                 *)
Moves(p, step, k, held, n, h) ==
    /\ at' = [at EXCEPT ![p] = step] /\ data' = [data EXCEPT ![p] = k]
    /\ lease' = [lease EXCEPT ![p] = held] /\ name' = [name EXCEPT ![p] = n]
    /\ gen' = [gen EXCEPT ![p] = h] /\ tracked' = tracked
    /\ EquippedAs(step, k, held, 0, n)
    /\ step \in Steps \ Claimed /\ k \in Keys \cup {NoKey, NotExist, Failed}
    /\ held \in Keys \cup {NoKey}

(* One thread, before it has an AAsset.                                    *)
LEMMA ThreadStep ==
  ASSUME LoadInv, PinInv, BlobInv, NEW p \in Openers,
         NEW g \in Generations, NEW c, NEW gone, NEW ks, Section(g, c, gone, ks),
         NEW step, NEW k, NEW held, NEW n, NEW h, Moves(p, step, k, held, n, h),
         at[p] \in Blank \cup {"protect", "publish", "names"},
         lease[p] # NoKey => held = lease[p] /\ h = gen[p],
         data[p] \in Keys => k = data[p] \/ data[p] \in gone,
         ks \subseteq {held}, ks # {} => lease[p] = NoKey /\ held # NoKey /\ h = g
  PROVE  BlobInv'
<1> USE DEF Section, Moves
<1>1. \A q \in Openers : Equipped(q) /\ q \in DOMAIN at /\ q \in DOMAIN gen /\ q \in DOMAIN name
         /\ q \in DOMAIN data /\ q \in DOMAIN lease
  BY DEF LoadInv, LoadTypes, BlobInv, BlobTypes
<1>2. /\ at'[p] = step /\ data'[p] = k /\ lease'[p] = held /\ name'[p] = n /\ gen'[p] = h
      /\ \A q \in Openers \ {p} : /\ at'[q] = at[q] /\ data'[q] = data[q] /\ lease'[q] = lease[q]
                                  /\ name'[q] = name[q] /\ gen'[q] = gen[q]
  BY <1>1
<1>3. tracked[p] = 0 /\ ~Holds(p) /\ ~Ending(p)
  BY <1>1 DEF Equipped, EquippedAs, Holds, Ending, Blank
<1>4. /\ data' \in [Openers -> Keys \cup {NoKey, NotExist, Failed}]
      /\ lease' \in [Openers -> Keys \cup {NoKey}]
      /\ tracked' \in [Openers -> 0 .. MaxGeneration]
  BY DEF BlobInv, BlobTypes
<1>5. ASSUME NEW q \in Openers PROVE Equipped(q)'
  BY <1>1, <1>2, <1>3 DEF Equipped
<1>6. ASSUME NEW q \in Openers
      PROVE  /\ lease[q] # NoKey => lease'[q] = lease[q] /\ gen'[q] = gen[q]
             /\ tracked[q] # 0 => tracked'[q] = tracked[q]
             /\ tracked[q] # 0 \/ Holds(q) \/ Ending(q) => data'[q] = data[q]
             /\ data[q] \in Keys => data'[q] = data[q] \/ data[q] \in gone
             /\ at'[q] \in Claimed => at[q] \in Claimed
  BY <1>2, <1>3
<1>7. \A j \in ks : \E q \in Openers : lease[q] # j /\ lease'[q] = j /\ gen'[q] = g
  BY <1>2
<1> QED
  BY <1>4, <1>5, <1>6, <1>7, LockedStep

LEMMA NothingLocked ==
  ASSUME BlobInv, NEW g \in Generations, UNCHANGED <<store, memory>>
  PROVE  Section(g, cache[g], {}, {})
<1>1. Orderly(cache[g]) /\ Thrifty(cache[g]) /\ cache \in [Generations -> Caches]
  BY DEF BlobInv, BlobTypes
<1>2. Locked(g, cache[g], {})
  BY <1>1 DEF Locked, store, memory
<1>3. Fewer(cache[g], cache[g])
  BY <1>1, FewerSame
<1> QED
  BY <1>1, <1>2, <1>3, FewerProtectsNone DEF Section

(* The blobs of a cache and its loads stay.                                *)
LEMMA StaysThrifty ==
  ASSUME NEW c, NEW d, Thrifty(c), SameButLru(c, d), c.lru = <<>> => d.lru = <<>>
  PROVE  Thrifty(d)
  BY DEF Thrifty, SameButLru, WithinBudget
-----------------------------------------------------------------------------
(* The steps of the threads, one by one.                                   *)
LEMMA RestingThread ==
  ASSUME LoadInv, PinInv, BlobInv, NEW p \in Openers, UNCHANGED <<store, memory>>,
         NEW step, NEW k, NEW held, NEW n, NEW h, Moves(p, step, k, held, n, h),
         at[p] \in Blank \cup {"protect", "publish", "names"},
         lease[p] # NoKey => held = lease[p] /\ h = gen[p],
         data[p] \in Keys => k = data[p]
  PROVE  BlobInv'
<1>1. gen[p] \in Generations
  BY Inventory
<1>2. Section(gen[p], cache[gen[p]], {}, {})
  BY <1>1, NothingLocked
<1> QED
  BY <1>1, <1>2, ThreadStep

LEMMA LeaderIsThrifty ==
  ASSUME LoadInv, PinInv, BlobInv, NEW p \in Openers, Leads(p), NEW c,
         SameLoads(cache[gen[p]], c)
  PROVE  Thrifty(c)
  BY Inventory DEF SameLoads, Thrifty

LEMMA OpenBlobs ==
  ASSUME LoadInv, PinInv, BlobInv, NEW p \in Openers, NEW n \in Names, Open(p, n)
  PROVE  BlobInv'
<1>1. /\ at[p] = "idle" /\ UNCHANGED <<store, memory>> /\ at' = [at EXCEPT ![p] = "lookup"]
      /\ name' = [name EXCEPT ![p] = n] /\ gen' = [gen EXCEPT ![p] = current]
      /\ data' = data /\ lease' = lease /\ tracked' = tracked
  BY DEF Open, Goto
<1>2. data[p] = NoKey /\ lease[p] = NoKey
  BY <1>1, Inventory DEF Equipped, EquippedAs, Blank
<1>3. data' = [data EXCEPT ![p] = NoKey]
  BY <1>1, <1>2, OneSpot
<1>4. EquippedAs("lookup", NoKey, NoKey, 0, n)
  BY DEF EquippedAs, Blank
<1>5. "lookup" \in Steps \ Claimed /\ at[p] \in Blank
  BY <1>1 DEF Steps, Claimed, Blank
<1>6. lease' = [lease EXCEPT ![p] = NoKey]
  BY <1>1, <1>2, OneSpot
<1>7. Moves(p, "lookup", NoKey, NoKey, n, current)
  BY <1>1, <1>3, <1>4, <1>5, <1>6 DEF Moves
<1> QED
  BY <1>1, <1>2, <1>5, <1>7, NoOneIsKey, RestingThread

LEMMA TouchSection ==
  ASSUME LoadInv, PinInv, BlobInv, NEW p \in Openers, NEW k,
         Locked(gen[p], Touch(cache[gen[p]], k), {})
  PROVE  Section(gen[p], Touch(cache[gen[p]], k), {}, {})
<1> DEFINE g == gen[p]
           c == Touch(cache[g], k)
<1>1. Orderly(cache[g]) /\ Thrifty(cache[g]) /\ cache[g] \in Caches
  BY Inventory
<1>2. /\ Orderly(c) /\ SameButLru(cache[g], c)
      /\ cache[g].lru = <<>> => c.lru = <<>>
  BY <1>1, TouchOrders
<1>3. Fewer(cache[g], c)
  BY <1>1, <1>2, FewerSame DEF SameButLru
<1>4. Thrifty(c) /\ Protects(cache[g], c, {})
  BY <1>1, <1>2, <1>3, StaysThrifty, FewerProtectsNone
<1> QED
  BY <1>2, <1>4 DEF Section

(* A name that is cached; a negative entry has no bytes.                   *)
LEMMA HitBlobs ==
  ASSUME LoadInv, PinInv, BlobInv, NEW p \in Openers, NEW k, Hit(p, k),
         at[p] \in {"lookup", "begin"}
  PROVE  BlobInv'
<1> DEFINE g == gen[p]
           c == Touch(cache[g], k)
           step == Returns(k)
           x == Result(k)
<1>1. /\ Locked(g, c, {}) /\ at' = [at EXCEPT ![p] = step] /\ data' = [data EXCEPT ![p] = x]
      /\ name' = name /\ gen' = gen /\ lease' = lease /\ tracked' = tracked
  BY DEF Hit, Goto, Has
<1>2. data[p] = NoKey /\ lease[p] = NoKey /\ g \in Generations
  BY Inventory DEF Equipped, EquippedAs, Blank
<1>3. Section(g, c, {}, {})
  BY <1>1, TouchSection
<1>4. /\ step \in {"got", "idle"} /\ step \in Steps \ Claimed
      /\ x \in Keys \cup {NoKey, NotExist, Failed} /\ (step = "idle" => x = NoKey)
  BY DEF Returns, Result, Steps, Claimed
<1>5. EquippedAs(step, x, NoKey, 0, name[p])
  BY <1>4 DEF EquippedAs, Blank
<1>6. /\ lease' = [lease EXCEPT ![p] = NoKey] /\ name' = [name EXCEPT ![p] = name[p]]
      /\ gen' = [gen EXCEPT ![p] = g]
  BY <1>1, <1>2, OneSpot
<1>7. at[p] \in Blank
  BY DEF Blank
<1> HIDE DEF g, c, step, x
<1>8. Moves(p, step, x, NoKey, name[p], g)
  BY <1>1, <1>4, <1>5, <1>6 DEF Moves
<1> QED
  BY <1>2, <1>3, <1>7, <1>8, NoOneIsKey, ThreadStep

(* A thread walks on with what it has.                                     *)
LEMMA WalkBlobs ==
  ASSUME LoadInv, PinInv, BlobInv, NEW p \in Openers, UNCHANGED <<store, memory>>,
         at[p] \in Blank, NEW step \in Blank, at' = [at EXCEPT ![p] = step],
         data' = data, lease' = lease, tracked' = tracked, name' = name,
         gen' = [gen EXCEPT ![p] = gen'[p]],
         step \in {"map", "entry", "slot", "inflate"} => FileOf(name[p]) \in Files
  PROVE  BlobInv'
<1>1. data[p] = NoKey /\ lease[p] = NoKey
  BY Inventory DEF Equipped, EquippedAs, Blank
<1>2. data' = [data EXCEPT ![p] = NoKey] /\ name' = [name EXCEPT ![p] = name[p]]
  BY <1>1, OneSpot
<1>3. EquippedAs(step, NoKey, NoKey, 0, name[p])
  BY DEF EquippedAs, Blank
<1>4. step \in Steps \ Claimed
  BY DEF Blank, Steps, Claimed
<1>5. lease' = [lease EXCEPT ![p] = NoKey]
  BY <1>1, OneSpot
<1>6. Moves(p, step, NoKey, NoKey, name[p], gen'[p])
  BY <1>2, <1>3, <1>4, <1>5 DEF Moves
<1> QED
  BY <1>1, <1>6, NoOneIsKey, RestingThread

LEMMA WalkingBlobs ==
  ASSUME LoadInv, PinInv, BlobInv, NEW p \in Openers,
         \/ Retry(p) \/ NotInDirectory(p) \/ EnterSlot(p)
         \/ LookIn(p) /\ FileOf(name[p]) \in ZipFiles
         \/ at[p] = "lookup" /\ Goto(p, "begin")
               /\ UNCHANGED <<store, memory, name, gen, data, lease, tracked>>
         \/ at[p] = "begin" /\ Goto(p, "wait")
               /\ UNCHANGED <<store, memory, name, gen, data, lease, tracked>>
  PROVE  BlobInv'
<1> DEFINE Walks(step) == /\ at[p] \in Blank /\ step \in Blank
                          /\ UNCHANGED <<store, memory>> /\ at' = [at EXCEPT ![p] = step]
                          /\ data' = data /\ lease' = lease /\ tracked' = tracked
                          /\ name' = name
                          /\ gen' = gen \/ gen' = [gen EXCEPT ![p] = current]
<1>1. gen' = gen \/ gen' = [gen EXCEPT ![p] = current] => gen' = [gen EXCEPT ![p] = gen'[p]]
  BY OneSpot DEF LoadInv, LoadTypes
<1>2. CASE Retry(p)
  <2>1. Walks("lookup")
    BY <1>2 DEF Retry, Goto, Blank
  <2> QED
    BY <1>1, <2>1, WalkBlobs
<1>3. CASE NotInDirectory(p)
  <2>1. Walks("archive")
    BY <1>3 DEF NotInDirectory, Goto, Blank
  <2> QED
    BY <1>1, <2>1, WalkBlobs
<1>4. CASE EnterSlot(p)
  <2>1. Walks("inflate") /\ at[p] = "slot"
    BY <1>4 DEF EnterSlot, Goto, Blank
  <2>2. FileOf(name[p]) \in Files
    BY <2>1, Inventory DEF Equipped, EquippedAs
  <2> QED
    BY <1>1, <2>1, <2>2, WalkBlobs
<1>5. CASE LookIn(p) /\ FileOf(name[p]) \in ZipFiles
  <2>1. Walks("entry")
    BY <1>5 DEF LookIn, Goto, Blank
  <2>2. FileOf(name[p]) \in Files
    BY <1>5 DEF Files
  <2> QED
    BY <1>1, <2>1, <2>2, WalkBlobs
<1>6. CASE at[p] = "lookup" /\ Goto(p, "begin")
             /\ UNCHANGED <<store, memory, name, gen, data, lease, tracked>>
  <2>1. Walks("begin")
    BY <1>6 DEF Goto, Blank
  <2> QED
    BY <1>1, <2>1, WalkBlobs
<1>7. CASE at[p] = "begin" /\ Goto(p, "wait")
             /\ UNCHANGED <<store, memory, name, gen, data, lease, tracked>>
  <2>1. Walks("wait")
    BY <1>7 DEF Goto, Blank
  <2> QED
    BY <1>1, <2>1, WalkBlobs
<1> QED
  BY <1>2, <1>3, <1>4, <1>5, <1>6, <1>7

(* The directory or the archive turns out not to have it.                  *)
LEMMA FailingBlobs ==
  ASSUME LoadInv, PinInv, BlobInv, NEW p \in Openers,
         ReadFails(p) \/ (LookIn(p) /\ FileOf(name[p]) \notin ZipFiles)
  PROVE  BlobInv'
<1>1. PICK x \in {NotExist, Failed} :
          /\ at[p] \in {"map", "inflate", "lookin"} /\ UNCHANGED <<store, memory>>
          /\ at' = [at EXCEPT ![p] = "finish"] /\ data' = [data EXCEPT ![p] = x]
          /\ name' = name /\ gen' = gen /\ lease' = lease /\ tracked' = tracked
  BY DEF ReadFails, LookIn, Goto, Has
<1>2. data[p] = NoKey /\ lease[p] = NoKey
  BY <1>1, Inventory DEF Equipped, EquippedAs, Blank
<1>3. name' = [name EXCEPT ![p] = name[p]] /\ gen' = [gen EXCEPT ![p] = gen[p]]
  BY <1>1, OneSpot
<1>4. EquippedAs("finish", x, NoKey, 0, name[p]) /\ lease' = [lease EXCEPT ![p] = NoKey]
  BY <1>1, <1>2, OneSpot, NoOneIsKey DEF EquippedAs, Blank
<1>5. "finish" \in Steps \ Claimed /\ at[p] \in Blank
  BY <1>1 DEF Steps, Claimed, Blank
<1>6. Moves(p, "finish", x, NoKey, name[p], gen[p])
  BY <1>1, <1>3, <1>4, <1>5 DEF Moves
<1> QED
  BY <1>1, <1>2, <1>5, <1>6, NoOneIsKey, RestingThread

LEMMA InflateBlobs ==
  ASSUME LoadInv, PinInv, BlobInv, NEW p \in Openers, Inflate(p) PROVE BlobInv'
<1>1. PICK x \in Heaps :
          /\ at[p] = "inflate" /\ UNCHANGED <<store, memory>>
          /\ at' = [at EXCEPT ![p] = "publish"] /\ data' = [data EXCEPT ![p] = x]
          /\ name' = name /\ gen' = gen /\ lease' = lease /\ tracked' = tracked
  BY DEF Inflate, Goto, Has, Fresh
<1>2. data[p] = NoKey /\ lease[p] = NoKey /\ FileOf(name[p]) \in Files
  BY <1>1, Inventory DEF Equipped, EquippedAs, Blank
<1>3. name' = [name EXCEPT ![p] = name[p]] /\ gen' = [gen EXCEPT ![p] = gen[p]]
  BY <1>1, OneSpot
<1>4. EquippedAs("publish", x, NoKey, 0, name[p]) /\ lease' = [lease EXCEPT ![p] = NoKey]
  BY <1>1, <1>2, OneSpot DEF EquippedAs, Blank, Keys
<1>5. "publish" \in Steps \ Claimed /\ at[p] \in Blank /\ x \in Keys
  BY <1>1 DEF Steps, Claimed, Blank, Keys
<1>6. Moves(p, "publish", x, NoKey, name[p], gen[p])
  BY <1>1, <1>3, <1>4, <1>5 DEF Moves
<1> QED
  BY <1>1, <1>2, <1>5, <1>6, NoOneIsKey, RestingThread

LEMMA CachedNameBlobs ==
  ASSUME LoadInv, PinInv, BlobInv, NEW p \in Openers, CachedName(p) PROVE BlobInv'
  BY HitBlobs, WalkingBlobs DEF CachedName

(* A load begins.                                                          *)
LEMMA BeginLoadBlobs ==
  ASSUME LoadInv, PinInv, BlobInv, NEW p \in Openers, BeginLoad(p) PROVE BlobInv'
<1> DEFINE g == gen[p]
           c == [cache[g] EXCEPT !.loads = @ \cup {name[p]}]
<1>1. \/ Hit(p, cache[g].names[name[p]]) /\ at[p] = "begin"
      \/ at[p] = "begin" /\ Goto(p, "wait")
            /\ UNCHANGED <<store, memory, name, gen, data, lease, tracked>>
      \/ at[p] = "begin" /\ Goto(p, "load") /\ Locked(g, c, {})
            /\ UNCHANGED <<name, gen, data, lease, tracked>>
  BY Zenon DEF BeginLoad
<1>2. CASE Hit(p, cache[g].names[name[p]]) /\ at[p] = "begin"
  BY <1>2, HitBlobs
<1>3. CASE at[p] = "begin" /\ Goto(p, "wait")
              /\ UNCHANGED <<store, memory, name, gen, data, lease, tracked>>
  BY <1>3, WalkingBlobs
<1>4. CASE at[p] = "begin" /\ Goto(p, "load") /\ Locked(g, c, {})
              /\ UNCHANGED <<name, gen, data, lease, tracked>>
  <2>1. /\ data[p] = NoKey /\ lease[p] = NoKey /\ g \in Generations /\ name[p] \in Names
        /\ cache[g] \in Caches /\ Orderly(cache[g])
    BY <1>4, Inventory DEF Equipped, EquippedAs, Blank
  <2>2. c = [cache[g] EXCEPT !.loads = cache[g].loads \cup {name[p]}]
    BY <2>1 DEF Caches
  <2>3. /\ c \in Caches /\ c.loads # {} /\ c.blobs = cache[g].blobs /\ c.lru = cache[g].lru
        /\ c.flights = cache[g].flights /\ c.handles = cache[g].handles
    BY <2>1, <2>2 DEF Caches
  <2> HIDE DEF g, c
  <2>4. Orderly(c) /\ Thrifty(c) /\ Fewer(cache[g], c)
    BY <2>1, <2>3, FewerSame DEF Orderly, Idle, Thrifty
  <2>5. Section(g, c, {}, {})
    BY <1>4, <2>1, <2>4, FewerProtectsNone DEF Section
  <2>6. Moves(p, "load", NoKey, NoKey, name[p], g)
    <3>1. /\ data' = [data EXCEPT ![p] = NoKey] /\ lease' = [lease EXCEPT ![p] = NoKey]
          /\ name' = [name EXCEPT ![p] = name[p]] /\ gen' = [gen EXCEPT ![p] = g]
      BY <1>4, <2>1, OneSpot DEF g
    <3>2. EquippedAs("load", NoKey, NoKey, 0, name[p]) /\ "load" \in Steps \ Claimed
      BY DEF EquippedAs, Blank, Steps, Claimed
    <3> QED
      BY <1>4, <3>1, <3>2 DEF Moves, Goto
  <2>7. at[p] \in Blank
    BY <1>4 DEF Blank
  <2> QED
    BY <2>1, <2>5, <2>6, <2>7, NoOneIsKey, ThreadStep
<1> QED
  BY <1>1, <1>2, <1>3, <1>4

(* A file that is cached.                                                  *)
LEMMA CachedSourceBlobs ==
  ASSUME LoadInv, PinInv, BlobInv, NEW p \in Openers, CachedSource(p) PROVE BlobInv'
<1> DEFINE f == FileOf(name[p])
           dir == f \in DirFiles
           g == gen[p]
           k == cache[g].sources[f]
           step == IF dir THEN "names" ELSE "protect"
<1>1. /\ at[p] = (IF dir THEN "load" ELSE "entry")
      /\ name' = name /\ gen' = gen /\ lease' = lease /\ tracked' = tracked
      /\ \/ /\ k # NoKey /\ at' = [at EXCEPT ![p] = step] /\ data' = [data EXCEPT ![p] = k]
            /\ Locked(g, Touch(cache[g], k), {})
         \/ /\ k = NoKey /\ at' = [at EXCEPT ![p] = IF dir THEN "map" ELSE "slot"]
            /\ data' = data /\ UNCHANGED <<store, memory>>
  BY Zenon DEF CachedSource, Goto, Has
<1>2. /\ data[p] = NoKey /\ lease[p] = NoKey /\ g \in Generations /\ f \in Files
      /\ k \in Keys \cup {NoKey} /\ at[p] \in Blank
  <2>1. f \in Files
    BY <1>1, Inventory DEF Equipped, EquippedAs, Files
  <2> QED
    BY <1>1, <2>1, Inventory DEF Equipped, EquippedAs, Blank, Caches
<1>3. CASE k = NoKey
  <2>1. gen' = [gen EXCEPT ![p] = gen'[p]]
    BY <1>1, OneSpot
  <2>2. (IF dir THEN "map" ELSE "slot") \in Blank
    BY DEF Blank
  <2> HIDE DEF dir, g, k
  <2> QED
    BY <1>1, <1>2, <1>3, <2>1, <2>2, WalkBlobs DEF f
<1>4. CASE k # NoKey
  <2>1. Section(g, Touch(cache[g], k), {}, {})
    BY <1>1, <1>4, TouchSection
  <2>2. /\ data' = [data EXCEPT ![p] = k] /\ lease' = [lease EXCEPT ![p] = NoKey]
        /\ name' = [name EXCEPT ![p] = name[p]] /\ gen' = [gen EXCEPT ![p] = g]
    BY <1>1, <1>2, <1>4, OneSpot
  <2>3. EquippedAs(step, k, NoKey, 0, name[p]) /\ step \in Steps \ Claimed
    BY <1>2, <1>4 DEF EquippedAs, Blank, Steps, Claimed
  <2>4. at' = [at EXCEPT ![p] = step] /\ k \in Keys
    BY <1>1, <1>2, <1>4
  <2> HIDE DEF dir, f, g, k, step
  <2>5. Moves(p, step, k, NoKey, name[p], g)
    BY <1>1, <2>2, <2>3, <2>4 DEF Moves
  <2> QED
    BY <1>2, <2>1, <2>5, NoOneIsKey, ThreadStep
<1> QED
  BY <1>3, <1>4

LEMMA EnsureAPKBlobs ==
  ASSUME LoadInv, PinInv, BlobInv, NEW p \in Openers, EnsureAPK(p) PROVE BlobInv'
<1> DEFINE g == gen[p]
           a == cache[g].archive
           c == [cache[g] EXCEPT !.archive = "opening"]
<1>1. /\ at[p] = "archive" /\ UNCHANGED <<current, retiring, memory>>
      /\ name' = name /\ gen' = gen /\ lease' = lease /\ tracked' = tracked /\ data' = data
      /\ \E step \in {"lookin", "waitopen", "opening"} : at' = [at EXCEPT ![p] = step]
      /\ cache' = cache \/ cache' = [cache EXCEPT ![g].archive = "opening"]
  BY DEF EnsureAPK, Goto
<1>2. /\ data[p] = NoKey /\ lease[p] = NoKey /\ g \in Generations /\ at[p] \in Blank
      /\ cache[g] \in Caches /\ Orderly(cache[g]) /\ Leads(p)
  BY <1>1, Inventory DEF Equipped, EquippedAs, Blank, Leads
<1>3. PICK step \in {"lookin", "waitopen", "opening"} : at' = [at EXCEPT ![p] = step]
  BY <1>1
<1>4. CASE cache' = cache
  <2>1. gen' = [gen EXCEPT ![p] = gen'[p]] /\ step \in Blank /\ UNCHANGED <<store, memory>>
    BY <1>1, <1>4, OneSpot DEF Blank, store
  <2> QED
    BY <1>1, <1>2, <1>3, <2>1, WalkBlobs
<1>5. CASE cache' = [cache EXCEPT ![g].archive = "opening"]
  <2>1. cache' = [cache EXCEPT ![g] = c]
    BY <1>5
  <2>2. /\ c \in Caches /\ c.blobs = cache[g].blobs /\ c.lru = cache[g].lru
        /\ c.flights = cache[g].flights /\ c.handles = cache[g].handles
        /\ c.loads = cache[g].loads /\ c.retired = cache[g].retired
    BY <1>2 DEF Caches
  <2> HIDE DEF g, c
  <2>3. Orderly(c) /\ Fewer(cache[g], c)
    BY <1>2, <2>2, FewerSame DEF Orderly, Idle
  <2>4. Thrifty(c)
    BY <1>2, <2>2, Inventory DEF Thrifty, g
  <2>5. Locked(g, c, {})
    BY <1>1, <2>1, <2>2 DEF Locked, memory
  <2>6. Section(g, c, {}, {})
    BY <1>2, <2>3, <2>4, <2>5, FewerProtectsNone DEF Section
  <2>7. Moves(p, step, NoKey, NoKey, name[p], g)
    <3>1. /\ data' = [data EXCEPT ![p] = NoKey] /\ lease' = [lease EXCEPT ![p] = NoKey]
          /\ name' = [name EXCEPT ![p] = name[p]] /\ gen' = [gen EXCEPT ![p] = g]
      BY <1>1, <1>2, OneSpot DEF g
    <3>2. EquippedAs(step, NoKey, NoKey, 0, name[p]) /\ step \in Steps \ Claimed
      BY DEF EquippedAs, Blank, Steps, Claimed
    <3> QED
      BY <1>1, <1>3, <3>1, <3>2 DEF Moves
  <2> QED
    BY <1>2, <2>6, <2>7, NoOneIsKey, ThreadStep
<1> QED
  BY <1>1, <1>4, <1>5

(* The three sections that protect a blob for the load.                    *)
LEMMA ProtectEntryBlobs ==
  ASSUME LoadInv, PinInv, BlobInv, NEW p \in Openers, ProtectEntry(p) PROVE BlobInv'
<1> DEFINE g == gen[p]
           k == data[p]
           c == Protect(cache[g], k, lease[p])
<1>1. /\ at[p] = "protect" /\ at' = [at EXCEPT ![p] = "names"] /\ Locked(g, c, {})
      /\ lease' = [lease EXCEPT ![p] = k]
      /\ name' = name /\ gen' = gen /\ data' = data /\ tracked' = tracked
  BY DEF ProtectEntry, Goto
<1>2. /\ k \in Keys /\ lease[p] = NoKey /\ g \in Generations /\ Orderly(cache[g])
      /\ IsCache(cache[g]) /\ Leads(p) /\ FileOf(name[p]) \in Files
  BY <1>1, Inventory, CachesAreCaches DEF Equipped, EquippedAs, Leads
<1>3. Orderly(c) /\ Protects(cache[g], c, {k}) /\ SameLoads(cache[g], c)
  BY <1>2, ProtectProtects, ProtectKeeps
<1>4. Section(g, c, {}, {k})
  BY <1>1, <1>2, <1>3, LeaderIsThrifty DEF Section
<1>5. /\ name' = [name EXCEPT ![p] = name[p]] /\ gen' = [gen EXCEPT ![p] = g]
      /\ data' = [data EXCEPT ![p] = k]
  BY <1>1, OneSpot
<1>6. EquippedAs("names", k, k, 0, name[p]) /\ "names" \in Steps \ Claimed
  BY <1>2 DEF EquippedAs, Blank, Steps, Claimed
<1> HIDE DEF g, c
<1>7. Moves(p, "names", k, k, name[p], g)
  BY <1>1, <1>2, <1>5, <1>6 DEF Moves
<1> QED
  BY <1>1, <1>2, <1>4, <1>7, NoOneIsKey, ThreadStep

LEMMA PublishBlobs ==
  ASSUME LoadInv, PinInv, BlobInv, NEW p \in Openers, Publish(p) PROVE BlobInv'
<1> DEFINE g == gen[p]
           c == cache[g]
           f == FileOf(name[p])
           k == c.sources[f]
           found == Protect(c, k, NoKey)
           new == [Protect(c, data[p], NoKey) EXCEPT !.sources[f] = data[p]]
<1>1. /\ at[p] = "publish" /\ at' = [at EXCEPT ![p] = "names"]
      /\ name' = name /\ gen' = gen /\ tracked' = tracked
      /\ \/ /\ k # NoKey /\ data' = [data EXCEPT ![p] = k] /\ lease' = [lease EXCEPT ![p] = k]
            /\ Locked(g, found, {data[p]})
         \/ UNCHANGED <<store, memory, data, lease>>
         \/ /\ data' = data /\ lease' = [lease EXCEPT ![p] = data[p]]
            /\ Locked(g, new, {})
  BY DEF Publish, Goto, Has
<1>2. /\ data[p] \in Keys /\ lease[p] = NoKey /\ g \in Generations /\ Orderly(c)
      /\ IsCache(c) /\ Leads(p) /\ f \in Files /\ c \in Caches
  BY <1>1, Inventory, CachesAreCaches DEF Equipped, EquippedAs, Leads
<1>3. k \in Keys \cup {NoKey}
  BY <1>2 DEF Caches
<1>4. name' = [name EXCEPT ![p] = name[p]] /\ gen' = [gen EXCEPT ![p] = g]
  BY <1>1, OneSpot
<1>5. /\ \A x \in Keys : /\ EquippedAs("names", x, x, 0, name[p])
                       /\ EquippedAs("names", x, NoKey, 0, name[p])
      /\ "names" \in Steps \ Claimed
  BY <1>2 DEF EquippedAs, Blank, Steps, Claimed
<1>6. CASE /\ k # NoKey /\ data' = [data EXCEPT ![p] = k] /\ lease' = [lease EXCEPT ![p] = k]
           /\ Locked(g, found, {data[p]})
  <2>1. k \in Keys
    BY <1>3, <1>6
  <2>2. Orderly(found) /\ Protects(c, found, {k}) /\ SameLoads(c, found)
    BY <1>2, <2>1, ProtectProtects, ProtectKeeps
  <2>3. Section(g, found, {data[p]}, {k})
    BY <1>2, <1>6, <2>2, LeaderIsThrifty DEF Section
  <2> HIDE DEF g, c, found, k, f
  <2>4. Moves(p, "names", k, k, name[p], g)
    BY <1>1, <1>4, <1>5, <1>6, <2>1 DEF Moves
  <2> QED
    BY <1>1, <1>2, <2>1, <2>3, <2>4, NoOneIsKey, ThreadStep
<1>7. CASE UNCHANGED <<store, memory, data, lease>>
  <2>1. data' = [data EXCEPT ![p] = data[p]] /\ lease' = [lease EXCEPT ![p] = NoKey]
    BY <1>2, <1>7, OneSpot
  <2>2. Moves(p, "names", data[p], NoKey, name[p], gen[p])
    BY <1>1, <1>2, <1>4, <1>5, <2>1 DEF Moves
  <2> QED
    BY <1>1, <1>2, <1>7, <2>2, NoOneIsKey, RestingThread
<1>8. CASE data' = data /\ lease' = [lease EXCEPT ![p] = data[p]] /\ Locked(g, new, {})
  <2> DEFINE x == data[p]
             e == Protect(c, x, NoKey)
  <2>1. Orderly(new) /\ Protects(c, new, {x})
    BY <1>2, PublishOrders
  <2>2. SameLoads(c, new)
    <3>1. SameLoads(c, e) /\ IsCache(e)
      BY <1>2, ProtectKeeps, KeptIsCache
    <3> HIDE DEF e
    <3>2. SameLoads(e, [e EXCEPT !.sources[f] = x])
      BY <3>1 DEF IsCache, SameLoads
    <3> QED
      BY <3>1, <3>2, SameLoadsComposes DEF e
  <2>3. Section(g, new, {}, {x})
    BY <1>2, <1>8, <2>1, <2>2, LeaderIsThrifty DEF Section
  <2>4. data' = [data EXCEPT ![p] = x]
    BY <1>8, OneSpot
  <2> HIDE DEF g, c, new, k, f
  <2>5. Moves(p, "names", x, x, name[p], g)
    BY <1>1, <1>2, <1>4, <1>5, <1>8, <2>4 DEF Moves
  <2> QED
    BY <1>1, <1>2, <2>3, <2>5, NoOneIsKey, ThreadStep
<1> QED
  BY <1>1, <1>6, <1>7, <1>8

LEMMA CacheNamesBlobs ==
  ASSUME LoadInv, PinInv, BlobInv, NEW p \in Openers, CacheNames(p) PROVE BlobInv'
<1> DEFINE g == gen[p]
           c == cache[g]
           f == FileOf(name[p])
           k == data[p]
           held == lease[p]
           lent == IF held = NoKey THEN k ELSE held
           ks == IF held = NoKey THEN {k} ELSE {}
           e == Protect(c, k, held)
           one == SetName(e, name[p], k)
           d == IF one.names[f] = NoKey THEN SetName(one, f, k) ELSE one
<1>1. /\ at[p] = "names" /\ at' = [at EXCEPT ![p] = "finish"]
      /\ name' = name /\ gen' = gen /\ data' = data /\ tracked' = tracked
      /\ \/ UNCHANGED <<store, memory, lease>>
         \/ /\ lease' = [lease EXCEPT ![p] = IF @ = NoKey THEN k ELSE @]
            /\ Locked(g, d, {})
  BY DEF CacheNames, Goto
<1>2. /\ k \in Keys /\ held \in Keys \cup {NoKey} /\ g \in Generations /\ Orderly(c)
      /\ IsCache(c) /\ Leads(p) /\ f \in Names /\ name[p] \in Names
  BY <1>1, Inventory, CachesAreCaches DEF Equipped, EquippedAs, Leads, Names
<1>3. /\ name' = [name EXCEPT ![p] = name[p]] /\ gen' = [gen EXCEPT ![p] = g]
      /\ data' = [data EXCEPT ![p] = k]
  BY <1>1, OneSpot
<1>4. /\ \A x : EquippedAs("finish", k, x, 0, name[p])
      /\ "finish" \in Steps \ Claimed
  BY <1>2, NoOneIsKey DEF EquippedAs, Blank, Steps, Claimed
<1>5. CASE UNCHANGED <<store, memory, lease>>
  <2>1. lease' = [lease EXCEPT ![p] = held]
    BY <1>5, OneSpot
  <2>2. Moves(p, "finish", k, held, name[p], gen[p])
    BY <1>1, <1>2, <1>3, <1>4, <2>1 DEF Moves
  <2> QED
    BY <1>1, <1>2, <1>5, <2>2, NoOneIsKey, RestingThread
<1>6. CASE /\ lease' = [lease EXCEPT ![p] = IF @ = NoKey THEN k ELSE @]
           /\ Locked(g, d, {})
  <2>1. Orderly(d) /\ Protects(c, d, ks)
    BY <1>2, NamesOrders
  <2>2. SameLoads(c, d)
    <3>1. SameLoads(c, e) /\ IsCache(e)
      BY <1>2, ProtectKeeps, KeptIsCache
    <3>2. SameLoads(c, one) /\ IsCache(one)
      BY <3>1, SetNameKeeps, SameLoadsComposes, KeptIsCache
    <3> HIDE DEF one
    <3>3. SameLoads(c, SetName(one, f, k))
      BY <3>2, SetNameKeeps, SameLoadsComposes
    <3> QED
      BY <3>2, <3>3
  <2> HIDE DEF d
  <2>3. Section(g, d, {}, ks)
    BY <1>2, <1>6, <2>1, <2>2, LeaderIsThrifty DEF Section
  <2>4. lease' = [lease EXCEPT ![p] = lent]
    BY <1>6
  <2>5. /\ lent \in Keys \cup {NoKey} /\ ks \subseteq {lent}
        /\ ks # {} => held = NoKey /\ lent = k
        /\ held # NoKey => lent = held
    BY <1>2
  <2> HIDE DEF c, f, lent, ks, one
  <2>6. Moves(p, "finish", k, lent, name[p], g)
    BY <1>1, <1>2, <1>3, <1>4, <2>4, <2>5 DEF Moves
  <2> QED
    BY <1>1, <1>2, <2>3, <2>5, <2>6, NoOneIsKey, ThreadStep
<1> QED
  BY <1>1, <1>5, <1>6

(* The archive is opened, or is not, for all who wait for it.              *)
LEMMA OpenArchiveBlobs ==
  ASSUME LoadInv, PinInv, BlobInv, NEW p \in Openers, NEW ok \in BOOLEAN, OpenArchive(p, ok)
  PROVE  BlobInv'
<1> DEFINE g == gen[p]
           x == IF ok THEN "open" ELSE "unopened"
           c == [cache[g] EXCEPT !.archive = x]
<1>1. /\ at[p] = "opening" /\ UNCHANGED <<current, retiring, memory>>
      /\ name' = name /\ gen' = gen /\ lease' = lease /\ tracked' = tracked
      /\ cache' = [cache EXCEPT ![g].archive = x]
  BY DEF OpenArchive
<1>2. \A q \in Openers :
          \/ at'[q] = at[q] /\ data'[q] = data[q]
          \/ /\ at[q] \in {"opening", "waitopen"}
             /\ \/ at'[q] = "lookin" /\ data'[q] = data[q]
                \/ at'[q] = "finish" /\ data'[q] = Failed
  BY DEF OpenArchive
<1>3. /\ g \in Generations /\ cache[g] \in Caches /\ Orderly(cache[g]) /\ Leads(p)
  BY <1>1, Inventory DEF Leads
<1>4. /\ c \in Caches /\ c.blobs = cache[g].blobs /\ c.lru = cache[g].lru
      /\ c.flights = cache[g].flights /\ c.handles = cache[g].handles
      /\ c.loads = cache[g].loads /\ c.retired = cache[g].retired
  BY <1>3 DEF Caches
<1>5. Locked(g, c, {})
  BY <1>1, <1>4 DEF Locked, memory
<1> HIDE DEF c, x
<1>6. Orderly(c) /\ Fewer(cache[g], c) /\ Protects(cache[g], c, {}) /\ Thrifty(c)
  <2>1. Orderly(c) /\ Fewer(cache[g], c)
    BY <1>3, <1>4, FewerSame DEF Orderly, Idle
  <2>2. Thrifty(c)
    BY <1>3, <1>4, Inventory DEF Thrifty
  <2> QED
    BY <1>3, <2>1, <2>2, FewerProtectsNone
<1>7. /\ data' \in [Openers -> Keys \cup {NoKey, NotExist, Failed}]
      /\ lease' \in [Openers -> Keys \cup {NoKey}]
      /\ tracked' \in [Openers -> 0 .. MaxGeneration]
  <2>1. data' = [q \in Openers |-> data'[q]]
    BY DEF OpenArchive
  <2> QED
    BY <1>1, <1>2, <2>1 DEF BlobInv, BlobTypes
<1>8. ASSUME NEW q \in Openers
      PROVE  /\ Equipped(q)'
             /\ lease[q] # NoKey => lease'[q] = lease[q] /\ gen'[q] = gen[q]
             /\ tracked[q] # 0 => tracked'[q] = tracked[q]
             /\ tracked[q] # 0 \/ Holds(q) \/ Ending(q) => data'[q] = data[q]
             /\ data[q] \in Keys => data'[q] = data[q] \/ data[q] \in {}
             /\ at'[q] \in Claimed => at[q] \in Claimed
  <2>2. CASE at'[q] = at[q] /\ data'[q] = data[q]
    BY <1>1, <2>2, Inventory DEF Equipped
  <2>3. CASE /\ at[q] \in {"opening", "waitopen"}
             /\ \/ at'[q] = "lookin" /\ data'[q] = data[q]
                \/ at'[q] = "finish" /\ data'[q] = Failed
    <3>1. data[q] = NoKey /\ lease[q] = NoKey /\ tracked[q] = 0
      BY <2>3, Inventory DEF Equipped, EquippedAs, Blank
    <3>2. EquippedAs(at'[q], data'[q], lease[q], tracked[q], name[q])
      BY <2>3, <3>1, NoOneIsKey DEF EquippedAs, Blank
    <3>3. Equipped(q)'
      BY <1>1, <3>2 DEF Equipped
    <3> QED
      BY <1>1, <2>3, <3>1, <3>3, NoOneIsKey DEF Holds, Ending, Claimed
  <2> QED
    BY <1>2, <2>2, <2>3
<1>9. \A k \in {} : \E q \in Openers : lease[q] # k /\ lease'[q] = k /\ gen'[q] = g
  OBVIOUS
<1>10. Section(g, c, {}, {})
  BY <1>5, <1>6 DEF Section
<1> HIDE DEF g
<1> QED
  BY <1>3, <1>10, <1>7, <1>8, <1>9, LockedStep
-----------------------------------------------------------------------------
(* One thread moves, the others stay equipped.                             *)
Turns(p, step, x, held, t) ==
    /\ at' = [at EXCEPT ![p] = step] /\ data' = [data EXCEPT ![p] = x]
    /\ lease' = [lease EXCEPT ![p] = held] /\ tracked' = [tracked EXCEPT ![p] = t]
    /\ name' = name /\ gen' = gen /\ EquippedAs(step, x, held, t, name[p])

LEMMA OneEquipped ==
  ASSUME LoadInv, BlobInv, NEW p \in Openers, NEW step, NEW x, NEW held, NEW t,
         Turns(p, step, x, held, t)
  PROVE  /\ \A q \in Openers : Equipped(q)'
         /\ at'[p] = step /\ data'[p] = x /\ lease'[p] = held /\ tracked'[p] = t
         /\ \A q \in Openers \ {p} : /\ at'[q] = at[q] /\ data'[q] = data[q]
                                     /\ lease'[q] = lease[q] /\ tracked'[q] = tracked[q]
<1>1. \A q \in Openers : /\ Equipped(q) /\ q \in DOMAIN at /\ q \in DOMAIN data
                         /\ q \in DOMAIN lease /\ q \in DOMAIN tracked
  BY DEF LoadInv, LoadTypes, BlobInv, BlobTypes
<1> USE DEF Turns
<1>2. /\ at'[p] = step /\ data'[p] = x /\ lease'[p] = held /\ tracked'[p] = t
      /\ \A q \in Openers \ {p} : /\ at'[q] = at[q] /\ data'[q] = data[q]
                                  /\ lease'[q] = lease[q] /\ tracked'[q] = tracked[q]
  BY <1>1
<1>3. ASSUME NEW q \in Openers PROVE Equipped(q)'
  BY <1>1, <1>2 DEF Equipped
<1> QED
  BY <1>2, <1>3

LEMMA OneTracks ==
  ASSUME BlobInv, NEW p \in Openers
  PROVE  tracked = [tracked EXCEPT ![p] = tracked[p]]
  BY DEF BlobInv, BlobTypes

LEMMA MapFileBlobs ==
  ASSUME LoadInv, PinInv, BlobInv, NEW p \in Openers, MapFile(p) PROVE BlobInv'
<1>1. PICK k \in Maps :
          /\ at[p] = "map" /\ at' = [at EXCEPT ![p] = "publish"]
          /\ data' = [data EXCEPT ![p] = k] /\ mapped' = mapped \cup {k}
          /\ UNCHANGED <<store, pins, borrows>>
          /\ name' = name /\ gen' = gen /\ lease' = lease /\ tracked' = tracked
  BY DEF MapFile, Goto, Has, Fresh
<1>2. /\ data[p] = NoKey /\ lease[p] = NoKey /\ tracked[p] = 0 /\ FileOf(name[p]) \in Files
      /\ k \in Keys
  BY <1>1, Inventory DEF Equipped, EquippedAs, Blank, Keys
<1>3. EquippedAs("publish", k, NoKey, 0, name[p])
  BY <1>2 DEF EquippedAs, Blank
<1>4. Turns(p, "publish", k, NoKey, 0)
  <2>1. lease' = [lease EXCEPT ![p] = NoKey] /\ tracked' = [tracked EXCEPT ![p] = 0]
    BY <1>1, <1>2, OneSpot, OneTracks
  <2> QED
    BY <1>1, <1>3, <2>1 DEF Turns
<1>5. /\ \A q \in Openers : Equipped(q)'
      /\ at'[p] = "publish" /\ data'[p] = k
      /\ \A q \in Openers \ {p} : at'[q] = at[q] /\ data'[q] = data[q]
  BY <1>4, OneEquipped
<1>6. retiring' = retiring /\ cache' = cache /\ borrows' = borrows
  BY <1>1 DEF store
<1>7. BlobTypes'
  BY <1>1, <1>2, <1>6 DEF BlobInv, BlobTypes
<1>8. Tracking'
  BY <1>5, <1>6 DEF BlobInv, Tracking, Claimed
<1>9. ASSUME NEW g \in Generations, NEW j \in Keys PROVE Counted(g, j)'
  <2>1. cache[g].flights[j] \in Nat /\ cache[g].handles[j] \in Nat
    BY DEF BlobInv, BlobTypes, Caches
  <2>2. Leases(g, j)' = Leases(g, j) /\ Trackers(g, j) \subseteq Trackers(g, j)'
    BY <1>1, <1>2, <1>5 DEF Leases, Trackers, Generations
  <2> QED
    BY <1>6, <1>7, <2>1, <2>2, CountedStays
<1>10. ASSUME NEW j \in mapped' PROVE Kept(j)'
  <2>1. CASE j = k
    BY <1>5, <2>1 DEF Kept
  <2>2. CASE j \in mapped
    <3>1. Kept(j) /\ j \in Keys
      BY <2>2 DEF BlobInv, PinInv, PinTypes, Keys
    <3> QED
      BY <1>2, <1>5, <1>6, <3>1, NoOneIsKey DEF Kept, Cached
  <2> QED
    BY <1>1, <2>1, <2>2
<1> QED
  BY <1>5, <1>6, <1>7, <1>8, <1>9, <1>10 DEF BlobInv

(* A load ends: who waited for it has the bytes, and its leader does not   *)
(* protect them any more.                                                  *)
LEMMA FinishLoadBlobs ==
  ASSUME LoadInv, PinInv, BlobInv, NEW p \in Openers, FinishLoad(p) PROVE BlobInv'
<1> DEFINE g == gen[p]
           c == cache[g]
           k == data[p]
           held == lease[p]
           d == Finished(c, name[p], k, held)
<1>1. /\ at[p] = "finish" /\ Locked(g, d, {}) /\ lease' = [lease EXCEPT ![p] = NoKey]
      /\ name' = name /\ gen' = gen /\ tracked' = tracked
      /\ \A q \in Openers : \/ /\ q = p \/ at[q] = "wait"
                               /\ at'[q] = Returns(k) /\ data'[q] = Result(k)
                            \/ q # p /\ at'[q] = at[q] /\ data'[q] = data[q]
      /\ data' = [q \in Openers |-> data'[q]]
  BY DEF FinishLoad
<1>2. /\ k \in Keys \cup {NotExist, Failed} /\ held \in Keys \cup {NoKey} /\ g \in Generations
      /\ Orderly(c) /\ IsCache(c) /\ name[p] \in Names /\ tracked[p] = 0
  BY <1>1, Inventory, CachesAreCaches DEF Equipped, EquippedAs
<1>3. /\ Orderly(d) /\ Fewer(c, d)
      /\ held \in Keys => d.flights[held] = 0 \/ d.flights[held] <= c.flights[held] - 1
      /\ d.retired \/ WithinBudget(d)
  BY <1>2, FinishedOrders
<1> HIDE DEF d
<1>4. /\ retiring' = retiring /\ borrows' = borrows /\ cache' = [cache EXCEPT ![g] = d]
      /\ cache \in [Generations -> Caches] /\ d \in Caches
      /\ mapped' = mapped \ {j \in Maps : /\ j \in (cache[g].blobs \ d.blobs) \cup {}
                                          /\ pins[j] = 0}
  BY <1>1, <1>3 DEF Locked, BlobInv, BlobTypes, Orderly
<1>5. cache'[g] = d /\ \A h \in Generations \ {g} : cache'[h] = cache[h]
  BY <1>2, <1>4
<1>6. /\ Returns(k) \in {"got", "idle"} /\ Result(k) \in Keys \cup {NoKey}
      /\ Returns(k) = "idle" => Result(k) = NoKey
      /\ k \in Keys => Result(k) = k
  BY DEF Returns, Result
<1>7. \A q \in Openers : at[q] = "wait" => data[q] = NoKey /\ lease[q] = NoKey /\ tracked[q] = 0
  BY Inventory DEF Equipped, EquippedAs, Blank
<1>8. /\ lease'[p] = NoKey /\ \A q \in Openers \ {p} : lease'[q] = lease[q]
      /\ lease' \in [Openers -> Keys \cup {NoKey}]
  BY <1>1 DEF BlobInv, BlobTypes
<1>9. BlobTypes'
  <2>1. data' \in [Openers -> Keys \cup {NoKey, NotExist, Failed}]
    BY <1>1, <1>6 DEF BlobInv, BlobTypes
  <2> QED
    BY <1>1, <1>4, <1>8, <2>1 DEF BlobInv, BlobTypes
<1>10. Tracking'
  BY <1>1, <1>4, <1>6 DEF BlobInv, Tracking, Claimed
<1>11. ASSUME NEW q \in Openers PROVE Equipped(q)'
  <2>1. CASE /\ q = p \/ at[q] = "wait"
             /\ at'[q] = Returns(k) /\ data'[q] = Result(k)
    <3>1. lease'[q] = NoKey /\ tracked'[q] = 0
      BY <1>1, <1>2, <1>7, <1>8, <2>1
    <3>2. EquippedAs(Returns(k), Result(k), NoKey, 0, name[q])
      BY <1>6 DEF EquippedAs, Blank
    <3> QED
      BY <1>1, <2>1, <3>1, <3>2 DEF Equipped
  <2>2. CASE q # p /\ at'[q] = at[q] /\ data'[q] = data[q]
    BY <1>1, <1>8, <2>2, Inventory DEF Equipped
  <2> QED
    BY <1>1, <2>1, <2>2
<1>12. \A h \in Generations : Orderly(cache'[h]) /\ Thrifty(cache'[h])
  BY <1>3, <1>5 DEF BlobInv, Thrifty
<1>13. ASSUME NEW h \in Generations, NEW j \in Keys PROVE Counted(h, j)'
  <2>1. /\ cache[h].flights[j] \in Nat /\ cache[h].handles[j] \in Nat
        /\ cache'[h].flights[j] \in Nat /\ cache'[h].handles[j] \in Nat
        /\ cache'[h].flights[j] <= cache[h].flights[j]
        /\ cache'[h].handles[j] <= cache[h].handles[j]
    <3>1. /\ cache[h].flights[j] \in Nat /\ cache[h].handles[j] \in Nat
          /\ cache'[h].flights[j] \in Nat /\ cache'[h].handles[j] \in Nat
      BY <1>4, <1>5 DEF Caches
    <3> QED
      BY <1>3, <1>5, <3>1 DEF Fewer
  <2>2. Trackers(h, j) \subseteq Trackers(h, j)'
    BY <1>1, <1>2, <1>7 DEF Trackers, Generations
  <2>3. CASE h = g /\ j = held
    <3> DEFINE L == Leases(h, j)
    <3>1. IsFiniteSet(L) /\ Cardinality(L) \in Nat
      <4>1. L \subseteq Openers
        BY DEF Leases
      <4> QED
        BY <4>1, AssetAssumption, FS_Subset, FS_CardinalityType
    <3>2. p \in L /\ Leases(h, j)' = L \ {p}
      BY <1>1, <1>2, <1>8, <2>3, NoOneIsKey DEF Leases
    <3> HIDE DEF L
    <3>3. Cardinality(Leases(h, j)') = Cardinality(L) - 1
      BY <3>1, <3>2, FS_RemoveElement
    <3>4. p \in L /\ Cardinality(L) >= 1
      <4>1. L # {}
        BY <3>2
      <4>2. Cardinality(L) # 0
        BY <3>1, <4>1, FS_EmptySet
      <4> QED
        BY <3>1, <3>2, <4>2
    <3>5. /\ cache[h].flights[j] <= Cardinality(L)
          /\ cache[h].handles[j]
                <= Cardinality(Trackers(h, j)) + (IF borrows[j].tracks = h THEN 1 ELSE 0)
      BY DEF BlobInv, Counted, L
    <3>6. cache'[h].flights[j] <= Cardinality(Leases(h, j)')
      <4>1. cache'[h].flights[j] = 0 \/ cache'[h].flights[j] <= cache[h].flights[j] - 1
        BY <1>3, <1>5, <2>3
      <4> QED
        BY <2>1, <3>1, <3>3, <3>4, <3>5, <4>1
    <3>7. cache'[h].handles[j]
              <= Cardinality(Trackers(h, j)') + (IF borrows'[j].tracks = h THEN 1 ELSE 0)
      BY <1>4, <2>1, <2>2, <3>5, TrackersCount
    <3> QED
      BY <3>6, <3>7 DEF Counted
  <2>4. CASE ~(h = g /\ j = held)
    <3>1. \A q \in Leases(h, j) : q \in Leases(h, j)'
      BY <1>1, <1>8, <2>4 DEF Leases
    <3> QED
      BY <1>4, <1>9, <2>1, <2>2, <3>1, CountedStays
  <2> QED
    BY <2>3, <2>4
<1>14. ASSUME NEW j \in mapped' PROVE Kept(j)'
  <2>1. \A q \in Openers :
            /\ Holds(q) \/ Ending(q) => data'[q] = data[q]
            /\ data[q] \in Keys => data'[q] = data[q] \/ data[q] \in {}
    BY <1>1, <1>6, <1>7, NoOneIsKey DEF Holds, Ending
  <2> HIDE DEF g
  <2> QED
    BY <1>2, <1>4, <1>14, <2>1, KeptStays
<1> QED
  BY <1>9, <1>10, <1>11, <1>12, <1>13, <1>14 DEF BlobInv
-----------------------------------------------------------------------------
(* The steps of an AAsset.                                                 *)
LEMMA BorrowBlobs ==
  ASSUME LoadInv, PinInv, BlobInv, NEW p \in Openers, Borrow(p) PROVE BlobInv'
<1> DEFINE k == data[p]
           first == borrows[k].handles = 0
           step == IF first THEN "claim" ELSE "open"
<1>1. /\ at[p] = "got" /\ at' = [at EXCEPT ![p] = step]
      /\ borrows' = [borrows EXCEPT ![k].handles = @ + 1]
      /\ UNCHANGED <<store, mapped, data>>
      /\ name' = name /\ gen' = gen /\ lease' = lease /\ tracked' = tracked
  BY DEF Borrow, Goto
<1>2. /\ lease[p] = NoKey /\ tracked[p] = 0 /\ k \in Keys
  BY <1>1, Inventory DEF Equipped, EquippedAs
<1>3. \A q \in Openers : Equipped(q)' /\ data'[q] = data[q]
                         /\ at'[q] = IF q = p THEN step ELSE at[q]
  <2>1. EquippedAs(step, k, NoKey, 0, name[p])
    BY DEF EquippedAs, Blank
  <2>2. /\ data' = [data EXCEPT ![p] = k] /\ lease' = [lease EXCEPT ![p] = NoKey]
        /\ tracked' = [tracked EXCEPT ![p] = 0]
    BY <1>1, <1>2, OneSpot, OneTracks
  <2> HIDE DEF step, k
  <2>3. Turns(p, step, k, NoKey, 0)
    BY <1>1, <2>1, <2>2 DEF Turns
  <2> QED
    BY <1>1, <2>3, OneEquipped
<1>4. /\ retiring' = retiring /\ cache' = cache /\ mapped' = mapped
      /\ borrows \in [Keys -> [handles : Nat, tracks : 0 .. MaxGeneration]]
  BY <1>1 DEF store, BlobInv, BlobTypes
<1>5. /\ borrows' \in [Keys -> [handles : Nat, tracks : 0 .. MaxGeneration]]
      /\ borrows'[k].handles = borrows[k].handles + 1 /\ borrows'[k].handles # 0
      /\ \A j \in Keys : borrows'[j].tracks = borrows[j].tracks
      /\ \A j \in Keys \ {k} : borrows'[j] = borrows[j]
  BY <1>1, <1>2, <1>4
<1>6. BlobTypes'
  BY <1>1, <1>4, <1>5 DEF BlobInv, BlobTypes
<1>7. first => borrows[k].tracks = 0 /\ \A q \in Openers : data[q] = k => at[q] \notin Claimed
  <2> SUFFICES ASSUME first, NEW q \in Openers, data[q] = k, at[q] \in Claimed PROVE FALSE
    BY <1>2 DEF BlobInv, Tracking
  <2>1. q \in Holders(k)
    BY DEF Holders, Holds, Claimed
  <2> QED
    BY <1>2, <2>1, CountsAreFinite DEF PinInv, PinCounts
<1>8. Tracking'
  <2>1. \A j \in Keys : borrows'[j].tracks # 0 => borrows'[j].handles # 0
    BY <1>5 DEF BlobInv, Tracking
  <2>2. \A q \in Openers : at'[q] \in Claimed =>
            /\ data'[q] \in Keys
            /\ at[q] \in Claimed \/ (q = p /\ first)
    BY <1>1, <1>2, <1>3, Inventory DEF Claimed, Holds
  <2>3. \A q \in Openers : at'[q] \in Claimed => borrows'[data'[q]].tracks = 0
    BY <1>2, <1>3, <1>5, <1>7, <2>2 DEF BlobInv, Tracking
  <2>4. \A q, r \in Openers :
            at'[q] \in Claimed /\ at'[r] \in Claimed /\ data'[q] = data'[r] => q = r
    BY <1>3, <1>7, <2>2 DEF BlobInv, Tracking
  <2> QED
    BY <2>1, <2>3, <2>4 DEF Tracking
<1>9. ASSUME NEW g \in Generations, NEW j \in Keys PROVE Counted(g, j)'
  <2>1. cache[g].flights[j] \in Nat /\ cache[g].handles[j] \in Nat
    BY DEF BlobInv, BlobTypes, Caches
  <2>2. Leases(g, j)' = Leases(g, j) /\ Trackers(g, j)' = Trackers(g, j)
    BY <1>1 DEF Leases, Trackers
  <2> QED
    BY <1>4, <1>5, <1>6, <2>1, <2>2, CountedStays
<1>10. \A j \in mapped' : Kept(j)'
  BY <1>3, <1>4 DEF BlobInv, Kept, Cached
<1> QED
  BY <1>3, <1>4, <1>6, <1>8, <1>9, <1>10 DEF BlobInv

(* The claim is made in the sources that are current.                      *)
LEMMA ClaimBlobs ==
  ASSUME LoadInv, PinInv, BlobInv, NEW p \in Openers, Claim(p) PROVE BlobInv'
<1> DEFINE k == data[p]
           g == current
           c == cache[g]
           d == [c EXCEPT !.lru = Without(@, k), !.handles[k] = @ + 1]
<1>1. /\ at[p] = "claim" /\ name' = name /\ gen' = gen /\ data' = data /\ lease' = lease
      /\ \/ at' = [at EXCEPT ![p] = "open"] /\ UNCHANGED <<store, memory, tracked>>
         \/ /\ k \in c.blobs /\ at' = [at EXCEPT ![p] = "record"]
            /\ tracked' = [tracked EXCEPT ![p] = g] /\ Locked(g, d, {})
  BY DEF Claim, Goto
<1>2. /\ k \in Keys /\ lease[p] = NoKey /\ tracked[p] = 0 /\ g \in Generations
  BY <1>1, Inventory DEF Equipped, EquippedAs, Holds, LoadInv, LoadTypes
<1>3. data' = [data EXCEPT ![p] = k] /\ lease' = [lease EXCEPT ![p] = NoKey]
  BY <1>1, <1>2, OneSpot
<1>4. CASE at' = [at EXCEPT ![p] = "open"] /\ UNCHANGED <<store, memory, tracked>>
  <2>1. \A q \in Openers : Equipped(q)' /\ data'[q] = data[q]
                           /\ at'[q] = IF q = p THEN "open" ELSE at[q]
    <3>1. EquippedAs("open", k, NoKey, 0, name[p])
      BY DEF EquippedAs, Blank
    <3>2. tracked' = [tracked EXCEPT ![p] = 0]
      BY <1>2, <1>4, OneTracks
    <3> HIDE DEF k
    <3>3. Turns(p, "open", k, NoKey, 0)
      BY <1>1, <1>3, <1>4, <3>1, <3>2 DEF Turns
    <3> QED
      BY <1>1, <3>3, OneEquipped
  <2>2. /\ retiring' = retiring /\ cache' = cache /\ mapped' = mapped /\ borrows' = borrows
        /\ tracked' = tracked
    BY <1>4 DEF store, memory
  <2>3. BlobTypes'
    BY <1>1, <2>2 DEF BlobInv, BlobTypes
  <2>4. Tracking'
    BY <2>1, <2>2 DEF BlobInv, Tracking, Claimed
  <2>5. \A h \in Generations, j \in Keys : Counted(h, j)'
    <3>1. \A h, j : Leases(h, j)' = Leases(h, j) /\ Trackers(h, j)' = Trackers(h, j)
      BY <1>1, <2>2 DEF Leases, Trackers
    <3> QED
      BY <2>2, <3>1 DEF BlobInv, Counted
  <2>6. \A j \in mapped' : Kept(j)'
    BY <2>1, <2>2 DEF BlobInv, Kept, Cached
  <2> QED
    BY <2>1, <2>2, <2>3, <2>4, <2>5, <2>6 DEF BlobInv
<1>5. CASE /\ k \in c.blobs /\ at' = [at EXCEPT ![p] = "record"]
           /\ tracked' = [tracked EXCEPT ![p] = g] /\ Locked(g, d, {})
  <2>1. /\ Orderly(d) /\ d.blobs = c.blobs /\ d.flights = c.flights
        /\ d.handles = [c.handles EXCEPT ![k] = c.handles[k] + 1]
        /\ c.lru = <<>> => d.lru = <<>>
        /\ d.loads = c.loads /\ d.retired = c.retired
    BY <1>2, <1>5, LendOrders DEF BlobInv
  <2> HIDE DEF d
  <2>2. g \in 1 .. MaxGeneration /\ g # 0 /\ g \in 0 .. MaxGeneration
    BY <1>2, AssetAssumption DEF Generations
  <2>3. \A q \in Openers : Equipped(q)' /\ data'[q] = data[q]
                           /\ at'[q] = (IF q = p THEN "record" ELSE at[q])
                           /\ tracked'[q] = (IF q = p THEN g ELSE tracked[q])
    <3>1. EquippedAs("record", k, NoKey, g, name[p])
      BY <2>2 DEF EquippedAs, Blank
    <3> HIDE DEF k, g
    <3>2. Turns(p, "record", k, NoKey, g)
      BY <1>1, <1>3, <1>5, <3>1 DEF Turns
    <3> QED
      BY <1>1, <3>2, OneEquipped
  <2>4. /\ retiring' = retiring /\ borrows' = borrows /\ cache' = [cache EXCEPT ![g] = d]
        /\ cache \in [Generations -> Caches] /\ d \in Caches /\ c \in Caches
        /\ mapped' = mapped \ {j \in Maps : /\ j \in (cache[g].blobs \ d.blobs) \cup {}
                                            /\ pins[j] = 0}
    BY <1>2, <1>5, <2>1 DEF Locked, BlobInv, BlobTypes, Orderly
  <2>5. cache'[g] = d /\ \A h \in Generations \ {g} : cache'[h] = cache[h]
    BY <1>2, <2>4
  <2>6. BlobTypes'
    BY <1>1, <1>5, <2>2, <2>4 DEF BlobInv, BlobTypes
  <2>7. Tracking'
    BY <1>1, <2>3, <2>4 DEF BlobInv, Tracking, Claimed
  <2>8. \A h \in Generations : Orderly(cache'[h]) /\ Thrifty(cache'[h])
    BY <2>1, <2>5 DEF BlobInv, Thrifty, WithinBudget
  <2>9. ASSUME NEW h \in Generations, NEW j \in Keys PROVE Counted(h, j)'
    <3>1. /\ cache[h].flights[j] \in Nat /\ cache[h].handles[j] \in Nat
          /\ cache'[h].flights[j] = cache[h].flights[j]
      BY <2>1, <2>4, <2>5 DEF Caches
    <3>2. Leases(h, j)' = Leases(h, j)
      BY <1>1 DEF Leases
    <3>3. CASE h = g /\ j = k
      <4>1. p \notin Trackers(h, j) /\ Trackers(h, j)' = Trackers(h, j) \cup {p}
        BY <1>2, <2>2, <2>3, <3>3 DEF Trackers
      <4>2. Cardinality(Trackers(h, j)') = Cardinality(Trackers(h, j)) + 1
        BY <4>1, TrackersCount, FS_AddElement
      <4>3. cache'[h].handles[j] = cache[h].handles[j] + 1
        BY <1>2, <2>1, <2>4, <2>5, <3>3 DEF Caches
      <4>4. /\ cache[h].flights[j] <= Cardinality(Leases(h, j))
            /\ cache[h].handles[j]
                  <= Cardinality(Trackers(h, j)) + (IF borrows[j].tracks = h THEN 1 ELSE 0)
        BY DEF BlobInv, Counted
      <4>5. cache'[h].handles[j]
                <= Cardinality(Trackers(h, j)') + (IF borrows'[j].tracks = h THEN 1 ELSE 0)
        BY <2>4, <3>1, <4>2, <4>3, <4>4, TrackersCount
      <4> QED
        BY <3>1, <3>2, <4>4, <4>5 DEF Counted
    <3>4. CASE ~(h = g /\ j = k)
      <4>1. cache'[h].handles[j] = cache[h].handles[j]
        BY <1>2, <2>1, <2>4, <2>5, <3>4 DEF Caches
      <4>2. Trackers(h, j) \subseteq Trackers(h, j)'
        BY <1>2, <2>3, <3>4 DEF Trackers, Generations
      <4> QED
        BY <2>4, <2>6, <3>1, <3>2, <4>1, <4>2, CountedStays
    <3> QED
      BY <3>3, <3>4
  <2>10. ASSUME NEW j \in mapped' PROVE Kept(j)'
    <3> HIDE DEF g
    <3> QED
      BY <1>1, <1>2, <2>4, <2>10, KeptStays
  <2> QED
    BY <2>3, <2>6, <2>7, <2>8, <2>9, <2>10 DEF BlobInv
<1> QED
  BY <1>1, <1>4, <1>5

(* The claim is noted with the borrow.                                     *)
LEMMA RecordClaimBlobs ==
  ASSUME LoadInv, PinInv, BlobInv, NEW p \in Openers, RecordClaim(p) PROVE BlobInv'
<1> DEFINE k == data[p]
           g == tracked[p]
<1>1. /\ at[p] = "record" /\ at' = [at EXCEPT ![p] = "open"]
      /\ borrows' = [borrows EXCEPT ![k].tracks = g]
      /\ tracked' = [tracked EXCEPT ![p] = 0]
      /\ UNCHANGED <<store, mapped, data>>
      /\ name' = name /\ gen' = gen /\ lease' = lease
  BY DEF RecordClaim, Goto
<1>2. /\ lease[p] = NoKey /\ g \in 0 .. MaxGeneration /\ g # 0 /\ k \in Keys
  BY <1>1, Inventory DEF Equipped, EquippedAs, Holds
<1>3. \A q \in Openers : /\ Equipped(q)' /\ data'[q] = data[q]
                         /\ at'[q] = (IF q = p THEN "open" ELSE at[q])
                         /\ tracked'[q] = (IF q = p THEN 0 ELSE tracked[q])
  <2>1. EquippedAs("open", k, NoKey, 0, name[p])
    BY DEF EquippedAs, Blank
  <2>2. data' = [data EXCEPT ![p] = k] /\ lease' = [lease EXCEPT ![p] = NoKey]
    BY <1>1, <1>2, OneSpot
  <2> HIDE DEF k
  <2>3. Turns(p, "open", k, NoKey, 0)
    BY <1>1, <2>1, <2>2 DEF Turns
  <2> QED
    BY <1>1, <2>3, OneEquipped
<1>4. /\ retiring' = retiring /\ cache' = cache /\ mapped' = mapped
      /\ borrows \in [Keys -> [handles : Nat, tracks : 0 .. MaxGeneration]]
  BY <1>1 DEF store, BlobInv, BlobTypes
<1>5. /\ borrows' \in [Keys -> [handles : Nat, tracks : 0 .. MaxGeneration]]
      /\ borrows'[k].tracks = g
      /\ \A j \in Keys : borrows'[j].handles = borrows[j].handles
      /\ \A j \in Keys \ {k} : borrows'[j] = borrows[j]
  BY <1>1, <1>2, <1>4
<1>6. BlobTypes'
  BY <1>1, <1>4, <1>5, AssetAssumption DEF BlobInv, BlobTypes
<1>7. /\ borrows[k].tracks = 0 /\ borrows[k].handles # 0
      /\ \A q \in Openers : at[q] \in Claimed /\ data[q] = k => q = p
  <2>1. p \in Holders(k)
    BY <1>1 DEF Holders, Holds
  <2>2. borrows[k].handles # 0
    BY <1>2, <2>1, CountsAreFinite DEF PinInv, PinCounts
  <2> QED
    BY <1>1, <2>2 DEF BlobInv, Tracking, Claimed
<1>8. Tracking'
  <2>1. \A j \in Keys : borrows'[j].tracks # 0 => borrows'[j].handles # 0
    BY <1>5, <1>7 DEF BlobInv, Tracking
  <2>2. \A q \in Openers : at'[q] \in Claimed =>
            q # p /\ at[q] \in Claimed /\ data[q] \in Keys \ {k}
    BY <1>3, <1>7, Inventory DEF Claimed, Holds
  <2>3. \A q \in Openers : at'[q] \in Claimed => borrows'[data'[q]].tracks = 0
    BY <1>3, <1>5, <2>2 DEF BlobInv, Tracking
  <2>4. \A q, r \in Openers :
            at'[q] \in Claimed /\ at'[r] \in Claimed /\ data'[q] = data'[r] => q = r
    BY <1>3, <2>2 DEF BlobInv, Tracking
  <2> QED
    BY <2>1, <2>3, <2>4 DEF Tracking
<1>9. ASSUME NEW h \in Generations, NEW j \in Keys PROVE Counted(h, j)'
  <2>1. cache[h].flights[j] \in Nat /\ cache[h].handles[j] \in Nat /\ h # 0
    BY DEF BlobInv, BlobTypes, Caches, Generations
  <2>2. Leases(h, j)' = Leases(h, j)
    BY <1>1 DEF Leases
  <2>3. CASE h = g /\ j = k
    <3>1. p \in Trackers(h, j) /\ Trackers(h, j)' = Trackers(h, j) \ {p}
      BY <1>2, <1>3, <2>1, <2>3 DEF Trackers
    <3>2. Cardinality(Trackers(h, j)') = Cardinality(Trackers(h, j)) - 1
      BY <3>1, TrackersCount, FS_RemoveElement
    <3>3. /\ cache[h].flights[j] <= Cardinality(Leases(h, j))
          /\ cache[h].handles[j]
                <= Cardinality(Trackers(h, j)) + (IF borrows[j].tracks = h THEN 1 ELSE 0)
      BY DEF BlobInv, Counted
    <3>4. cache[h].handles[j] <= Cardinality(Trackers(h, j)')
                                   + (IF borrows'[j].tracks = h THEN 1 ELSE 0)
      BY <1>5, <1>7, <2>1, <2>3, <3>2, <3>3, TrackersCount
    <3> QED
      BY <1>4, <2>2, <3>3, <3>4 DEF Counted
  <2>4. CASE ~(h = g /\ j = k)
    <3>1. Trackers(h, j) \subseteq Trackers(h, j)'
      BY <1>3, <2>4 DEF Trackers
    <3>2. borrows[j].tracks = h => borrows'[j].tracks = h
      BY <1>5, <1>7, <2>1
    <3> QED
      BY <1>4, <1>6, <2>1, <2>2, <3>1, <3>2, CountedStays
  <2> QED
    BY <2>3, <2>4
<1>10. \A j \in mapped' : Kept(j)'
  BY <1>3, <1>4 DEF BlobInv, Kept, Cached
<1> QED
  BY <1>3, <1>4, <1>6, <1>8, <1>9, <1>10 DEF BlobInv

(* Who closes the last handle has the claim to give back.                  *)
LEMMA CloseBlobs ==
  ASSUME LoadInv, PinInv, BlobInv, NEW p \in Openers, Close(p) PROVE BlobInv'
<1> DEFINE k == data[p]
           b == borrows[k]
           last == b.handles = 1
           step == IF last THEN "end" ELSE "idle"
           x == IF last THEN k ELSE NoKey
           t == IF last THEN b.tracks ELSE 0
           left == [handles |-> b.handles - 1, tracks |-> IF last THEN 0 ELSE b.tracks]
<1>1. /\ at[p] = "open" /\ at' = [at EXCEPT ![p] = step]
      /\ borrows' = [borrows EXCEPT ![k] = left]
      /\ tracked' = [tracked EXCEPT ![p] = t] /\ data' = [data EXCEPT ![p] = x]
      /\ UNCHANGED <<store, mapped>> /\ name' = name /\ gen' = gen /\ lease' = lease
  BY DEF Close, Goto
<1>2. /\ lease[p] = NoKey /\ tracked[p] = 0 /\ k \in Keys
  BY <1>1, Inventory DEF Equipped, EquippedAs, Holds
<1>3. \A q \in Openers : /\ Equipped(q)'
                         /\ at'[q] = (IF q = p THEN step ELSE at[q])
                         /\ data'[q] = (IF q = p THEN x ELSE data[q])
                         /\ tracked'[q] = (IF q = p THEN t ELSE tracked[q])
  <2>1. EquippedAs(step, x, NoKey, t, name[p])
    BY DEF EquippedAs, Blank
  <2>2. lease' = [lease EXCEPT ![p] = NoKey]
    BY <1>1, <1>2, OneSpot
  <2> HIDE DEF k, x, t, step
  <2>3. Turns(p, step, x, NoKey, t)
    BY <1>1, <2>1, <2>2 DEF Turns
  <2> QED
    BY <1>1, <2>3, OneEquipped
<1>4. /\ retiring' = retiring /\ cache' = cache /\ mapped' = mapped
      /\ borrows \in [Keys -> [handles : Nat, tracks : 0 .. MaxGeneration]]
  BY <1>1 DEF store, BlobInv, BlobTypes
<1>5. b.handles \in Nat /\ b.handles # 0 /\ b.tracks \in 0 .. MaxGeneration
  <2>1. p \in Holders(k)
    BY <1>1 DEF Holders, Holds
  <2> QED
    BY <1>2, <1>4, <2>1, CountsAreFinite DEF PinInv, PinCounts
<1>6. /\ borrows' \in [Keys -> [handles : Nat, tracks : 0 .. MaxGeneration]]
      /\ borrows'[k] = left /\ \A j \in Keys \ {k} : borrows'[j] = borrows[j]
  <2>1. left \in [handles : Nat, tracks : 0 .. MaxGeneration]
    BY <1>5, AssetAssumption
  <2> HIDE DEF left
  <2> QED
    BY <1>1, <1>2, <1>4, <2>1
<1>7. BlobTypes'
  <2>1. /\ data' \in [Openers -> Keys \cup {NoKey, NotExist, Failed}]
        /\ tracked' \in [Openers -> 0 .. MaxGeneration]
    BY <1>1, <1>2, <1>5, AssetAssumption DEF BlobInv, BlobTypes
  <2> QED
    BY <1>1, <1>4, <1>6, <2>1 DEF BlobInv, BlobTypes
<1>8. Tracking'
  <2>1. \A j \in Keys : borrows'[j].tracks # 0 => borrows'[j].handles # 0
    <3>1. borrows'[k].tracks # 0 => borrows'[k].handles # 0
      BY <1>5, <1>6
    <3> QED
      BY <1>6, <3>1 DEF BlobInv, Tracking
  <2>2. \A q \in Openers : at'[q] \in Claimed =>
            q # p /\ at[q] \in Claimed /\ data'[q] = data[q] /\ data[q] \in Keys
    BY <1>3, Inventory DEF Claimed, Holds
  <2>3. \A j \in Keys : borrows[j].tracks = 0 => borrows'[j].tracks = 0
    BY <1>6
  <2>4. \A q \in Openers : at'[q] \in Claimed => borrows'[data'[q]].tracks = 0
    BY <2>2, <2>3 DEF BlobInv, Tracking
  <2>5. \A q, r \in Openers :
            at'[q] \in Claimed /\ at'[r] \in Claimed /\ data'[q] = data'[r] => q = r
    BY <2>2 DEF BlobInv, Tracking
  <2> QED
    BY <2>1, <2>4, <2>5 DEF Tracking
<1>9. ASSUME NEW h \in Generations, NEW j \in Keys PROVE Counted(h, j)'
  <2>1. cache[h].flights[j] \in Nat /\ cache[h].handles[j] \in Nat /\ h # 0
    BY DEF BlobInv, BlobTypes, Caches, Generations
  <2>2. Leases(h, j)' = Leases(h, j)
    BY <1>1 DEF Leases
  <2>3. CASE last /\ h = b.tracks /\ j = k
    <3>1. p \notin Trackers(h, j) /\ Trackers(h, j)' = Trackers(h, j) \cup {p}
      BY <1>2, <1>3, <2>1, <2>3 DEF Trackers
    <3>2. Cardinality(Trackers(h, j)') = Cardinality(Trackers(h, j)) + 1
      BY <3>1, TrackersCount, FS_AddElement
    <3>3. /\ cache[h].flights[j] <= Cardinality(Leases(h, j))
          /\ cache[h].handles[j] <= Cardinality(Trackers(h, j)) + 1
      BY <2>3 DEF BlobInv, Counted
    <3>4. borrows'[j].tracks # h
      BY <1>6, <2>1, <2>3
    <3>5. cache[h].handles[j] <= Cardinality(Trackers(h, j)')
                                   + (IF borrows'[j].tracks = h THEN 1 ELSE 0)
      BY <2>1, <3>2, <3>3, <3>4, TrackersCount
    <3> QED
      BY <1>4, <2>2, <3>3, <3>5 DEF Counted
  <2>4. CASE ~(last /\ h = b.tracks /\ j = k)
    <3>1. Trackers(h, j) \subseteq Trackers(h, j)'
      BY <1>2, <1>3, <2>1 DEF Trackers
    <3>2. borrows[j].tracks = h => borrows'[j].tracks = h
      BY <1>6, <2>4
    <3> QED
      BY <1>4, <1>7, <2>1, <2>2, <3>1, <3>2, CountedStays
  <2> QED
    BY <2>3, <2>4
<1>10. ASSUME NEW j \in mapped' PROVE Kept(j)'
  <2>1. Kept(j) /\ (Cached(j)' <=> Cached(j))
    BY <1>4, <1>10 DEF BlobInv, Cached
  <2>2. CASE data[p] # j \/ last
    BY <1>3, <2>1, <2>2 DEF Kept
  <2>3. CASE data[p] = j /\ ~last
    <3>1. Holders(k) # {p}
      BY <1>2, <2>3, FS_Singleton DEF PinInv, PinCounts
    <3>2. p \in Holders(k)
      BY <1>1 DEF Holders, Holds
    <3>3. PICK q \in Holders(k) : q # p
      BY <3>1, <3>2
    <3>4. data'[q] = j /\ q \in Openers
      BY <1>3, <2>3, <3>3 DEF Holders
    <3> QED
      BY <3>4 DEF Kept
  <2> QED
    BY <2>2, <2>3
<1> QED
  BY <1>3, <1>4, <1>7, <1>8, <1>9, <1>10 DEF BlobInv

(* A blob that is given back may be evicted.                               *)
LEMMA EndBorrowBlobs ==
  ASSUME LoadInv, PinInv, BlobInv, NEW p \in Openers, EndBorrow(p) PROVE BlobInv'
<1> DEFINE k == data[p]
           g == tracked[p]
           c == cache[g]
           d == Ended(c, k)
<1>1. /\ at[p] = "end" /\ at' = [at EXCEPT ![p] = "unpin"]
      /\ tracked' = [tracked EXCEPT ![p] = 0]
      /\ name' = name /\ gen' = gen /\ data' = data /\ lease' = lease
      /\ IF g = 0 THEN UNCHANGED <<store, memory>> ELSE Locked(g, d, {})
  BY DEF EndBorrow, Goto
<1>2. /\ lease[p] = NoKey /\ g \in 0 .. MaxGeneration /\ k \in Keys
  BY <1>1, Inventory DEF Equipped, EquippedAs, Ending
<1>3. \A q \in Openers : /\ Equipped(q)' /\ data'[q] = data[q]
                         /\ at'[q] = (IF q = p THEN "unpin" ELSE at[q])
                         /\ tracked'[q] = (IF q = p THEN 0 ELSE tracked[q])
  <2>1. EquippedAs("unpin", k, NoKey, 0, name[p])
    BY DEF EquippedAs, Blank
  <2>2. data' = [data EXCEPT ![p] = k] /\ lease' = [lease EXCEPT ![p] = NoKey]
    BY <1>1, <1>2, OneSpot
  <2> HIDE DEF k
  <2>3. Turns(p, "unpin", k, NoKey, 0)
    BY <1>1, <2>1, <2>2 DEF Turns
  <2> QED
    BY <1>1, <2>3, OneEquipped
<1>4. \A h, j : Leases(h, j)' = Leases(h, j)
  BY <1>1 DEF Leases
<1>5. CASE g = 0
  <2>1. /\ retiring' = retiring /\ cache' = cache /\ mapped' = mapped /\ borrows' = borrows
    BY <1>1, <1>5 DEF store, memory
  <2>2. BlobTypes'
    BY <1>1, <2>1, AssetAssumption DEF BlobInv, BlobTypes
  <2>3. Tracking'
    BY <1>3, <2>1 DEF BlobInv, Tracking, Claimed
  <2>4. \A h \in Generations, j \in Keys : Counted(h, j)'
    <3>1. \A h \in Generations, j \in Keys : Trackers(h, j)' = Trackers(h, j)
      BY <1>3, <1>5 DEF Trackers, Generations
    <3> QED
      BY <1>4, <2>1, <3>1 DEF BlobInv, Counted
  <2>5. \A j \in mapped' : Kept(j)'
    BY <1>3, <2>1 DEF BlobInv, Kept, Cached
  <2> QED
    BY <1>3, <2>1, <2>2, <2>3, <2>4, <2>5 DEF BlobInv
<1>6. CASE g # 0
  <2>1. g \in Generations
    BY <1>2, <1>6 DEF Generations
  <2>2. Orderly(c) /\ Thrifty(c) /\ IsCache(c)
    BY <2>1, CachesAreCaches DEF BlobInv, Orderly
  <2>3. /\ Orderly(d) /\ Fewer(c, d)
        /\ d.handles[k] = 0 \/ d.handles[k] <= c.handles[k] - 1
        /\ d = c \/ c.retired \/ WithinBudget(d)
    BY <1>2, <2>2, EndedOrders
  <2>4. d.retired = c.retired
    BY <2>2, EndedKeeps DEF NoNewBlob, SameLoads
  <2> HIDE DEF d
  <2>5. Thrifty(d)
    BY <2>2, <2>3, <2>4 DEF Thrifty
  <2>6. /\ retiring' = retiring /\ borrows' = borrows /\ cache' = [cache EXCEPT ![g] = d]
        /\ cache \in [Generations -> Caches] /\ d \in Caches
        /\ mapped' = mapped \ {j \in Maps : /\ j \in (cache[g].blobs \ d.blobs) \cup {}
                                            /\ pins[j] = 0}
    BY <1>1, <1>6, <2>3 DEF Locked, BlobInv, BlobTypes, Orderly
  <2>7. cache'[g] = d /\ \A h \in Generations \ {g} : cache'[h] = cache[h]
    BY <2>1, <2>6
  <2>8. BlobTypes'
    <3>1. tracked' \in [Openers -> 0 .. MaxGeneration]
      BY <1>1, AssetAssumption DEF BlobInv, BlobTypes
    <3>2. cache' \in [Generations -> Caches]
      BY <2>6
    <3> QED
      BY <1>1, <2>6, <3>1, <3>2 DEF BlobInv, BlobTypes
  <2>9. Tracking'
    BY <1>3, <2>6 DEF BlobInv, Tracking, Claimed
  <2>10. \A h \in Generations : Orderly(cache'[h]) /\ Thrifty(cache'[h])
    BY <2>3, <2>5, <2>7 DEF BlobInv
  <2>11. ASSUME NEW h \in Generations, NEW j \in Keys PROVE Counted(h, j)'
    <3>1. /\ cache[h].flights[j] \in Nat /\ cache[h].handles[j] \in Nat
          /\ cache'[h].flights[j] \in Nat /\ cache'[h].handles[j] \in Nat
      BY <2>6, <2>7 DEF Caches
    <3>2. /\ cache'[h].flights[j] <= cache[h].flights[j]
          /\ cache'[h].handles[j] <= cache[h].handles[j]
      BY <2>3, <2>7, <3>1 DEF Fewer
    <3>3. CASE h = g /\ j = k
      <4>1. p \in Trackers(h, j) /\ Trackers(h, j)' = Trackers(h, j) \ {p}
        BY <1>3, <1>6, <3>3 DEF Trackers
      <4>2. /\ Cardinality(Trackers(h, j)') = Cardinality(Trackers(h, j)) - 1
            /\ Cardinality(Trackers(h, j)') \in Nat /\ Cardinality(Trackers(h, j)) \in Nat
        BY <4>1, TrackersCount, FS_RemoveElement
      <4>3. /\ cache[h].flights[j] <= Cardinality(Leases(h, j))
            /\ cache[h].handles[j]
                  <= Cardinality(Trackers(h, j)) + (IF borrows[j].tracks = h THEN 1 ELSE 0)
        BY DEF BlobInv, Counted
      <4>4. cache'[h].handles[j] = 0 \/ cache'[h].handles[j] <= cache[h].handles[j] - 1
        BY <2>3, <2>7, <3>3
      <4>5. cache'[h].handles[j]
                <= Cardinality(Trackers(h, j)') + (IF borrows'[j].tracks = h THEN 1 ELSE 0)
        BY <2>6, <3>1, <4>2, <4>3, <4>4
      <4>6. cache'[h].flights[j] <= Cardinality(Leases(h, j)')
        <5>1. Cardinality(Leases(h, j)) \in Nat
          BY <1>4, MoreLeases
        <5> QED
          BY <1>4, <3>1, <3>2, <4>3, <5>1
      <4> QED
        BY <4>5, <4>6 DEF Counted
    <3>4. CASE ~(h = g /\ j = k)
      <4>1. Trackers(h, j) \subseteq Trackers(h, j)'
        BY <1>3, <3>4 DEF Trackers
      <4> QED
        BY <1>4, <2>6, <2>8, <3>2, <4>1, CountedStays
    <3> QED
      BY <3>3, <3>4
  <2>12. ASSUME NEW j \in mapped' PROVE Kept(j)'
    <3> HIDE DEF g
    <3> QED
      BY <1>1, <2>1, <2>6, <2>12, KeptStays
  <2> QED
    BY <1>3, <2>8, <2>9, <2>10, <2>11, <2>12 DEF BlobInv
<1> QED
  BY <1>5, <1>6

(* A mapping that stays after its pin is given back has another.           *)
LEMMA UnpinBlobs ==
  ASSUME LoadInv, PinInv, BlobInv, NEW p \in Openers, Unpin(p) PROVE BlobInv'
<1> DEFINE k == data[p]
<1>1. /\ at[p] = "unpin" /\ at' = [at EXCEPT ![p] = "idle"]
      /\ data' = [data EXCEPT ![p] = NoKey] /\ UNCHANGED <<store, borrows>>
      /\ mapped' = IF k \in mapped /\ pins[k] # 0 /\ pins[k] = 1 /\ ~Cached(k)
                   THEN mapped \ {k} ELSE mapped
      /\ name' = name /\ gen' = gen /\ lease' = lease /\ tracked' = tracked
  BY DEF Unpin, Goto, Has
<1>2. /\ lease[p] = NoKey /\ tracked[p] = 0 /\ k \in Keys
  BY <1>1, Inventory DEF Equipped, EquippedAs, Ending
<1>3. \A q \in Openers : /\ Equipped(q)' /\ (q # p => data'[q] = data[q])
                         /\ at'[q] = (IF q = p THEN "idle" ELSE at[q])
  <2>1. EquippedAs("idle", NoKey, NoKey, 0, name[p])
    BY DEF EquippedAs, Blank
  <2>2. tracked' = [tracked EXCEPT ![p] = 0] /\ lease' = [lease EXCEPT ![p] = NoKey]
    BY <1>1, <1>2, OneSpot, OneTracks
  <2>3. Turns(p, "idle", NoKey, NoKey, 0)
    BY <1>1, <2>1, <2>2 DEF Turns
  <2> QED
    BY <1>1, <2>3, OneEquipped
<1>4. retiring' = retiring /\ cache' = cache /\ borrows' = borrows
  BY <1>1 DEF store
<1>5. BlobTypes'
  BY <1>1, <1>4 DEF BlobInv, BlobTypes
<1>6. Tracking'
  BY <1>3, <1>4 DEF BlobInv, Tracking, Claimed
<1>7. ASSUME NEW h \in Generations, NEW j \in Keys PROVE Counted(h, j)'
  <2>1. cache[h].flights[j] \in Nat /\ cache[h].handles[j] \in Nat /\ h # 0
    BY DEF BlobInv, BlobTypes, Caches, Generations
  <2>2. Leases(h, j)' = Leases(h, j) /\ Trackers(h, j) \subseteq Trackers(h, j)'
    BY <1>1, <1>2, <1>3, <2>1 DEF Leases, Trackers
  <2> QED
    BY <1>4, <1>5, <2>1, <2>2, CountedStays
<1>8. ASSUME NEW j \in mapped' PROVE Kept(j)'
  <2>1. j \in mapped /\ j \in Maps /\ Kept(j) /\ (Cached(j)' <=> Cached(j))
    BY <1>1, <1>4, <1>8 DEF BlobInv, Cached, PinInv, PinTypes
  <2>2. CASE j # k \/ Cached(j)
    BY <1>3, <2>1, <2>2 DEF Kept
  <2>3. CASE j = k /\ ~Cached(j)
    <3>1. p \in Enders(k)
      BY <1>1 DEF Enders, Ending
    <3>2. pins[k] # 1
      BY <1>1, <1>8, <2>1, <2>3
    <3>3. pins[k] = Cardinality(Enders(k)) + (IF Holders(k) = {} THEN 0 ELSE 1)
      BY <2>1, <2>3 DEF PinInv, PinCounts
    <3>4. ~(Holders(k) = {} /\ Enders(k) = {p})
      <4>1. Cardinality({p}) = 1
        BY FS_Singleton
      <4> QED
        BY <3>2, <3>3, <4>1
    <3>5. p \notin Holders(k)
      BY <1>1 DEF Holders, Holds
    <3>6. PICK q \in Holders(k) \cup Enders(k) : q # p
      BY <3>1, <3>4, <3>5
    <3>7. data'[q] = j /\ q \in Openers
      BY <1>3, <2>3, <3>6 DEF Holders, Enders
    <3> QED
      BY <3>7 DEF Kept
  <2> QED
    BY <2>2, <2>3
<1> QED
  BY <1>3, <1>4, <1>5, <1>6, <1>7, <1>8 DEF BlobInv
-----------------------------------------------------------------------------
(* The sources change, or nothing does.                                    *)
LEMMA OpenersRest ==
  ASSUME BlobInv, UNCHANGED opener, borrows' = borrows
  PROVE  /\ \A q \in Openers : Equipped(q)' /\ data'[q] = data[q]
         /\ Tracking'
         /\ \A h, j : Leases(h, j)' = Leases(h, j) /\ Trackers(h, j)' = Trackers(h, j)
<1>1. /\ at' = at /\ name' = name /\ gen' = gen /\ data' = data /\ lease' = lease
      /\ tracked' = tracked
  BY DEF opener
<1>2. \A q \in Openers : Equipped(q)' /\ data'[q] = data[q]
  BY <1>1 DEF BlobInv, Equipped
<1>3. Tracking'
  BY <1>1 DEF BlobInv, Tracking
<1> QED
  BY <1>1, <1>2, <1>3 DEF Leases, Trackers

LEMMA RestingBlobs ==
  ASSUME LoadInv, BlobInv, SetAssets \/ UNCHANGED vars PROVE BlobInv'
<1>1. /\ cache' = cache /\ UNCHANGED <<memory, opener>>
      /\ retiring' \in {retiring, current}
  BY DEF SetAssets, vars, store
<1>2. /\ \A q \in Openers : Equipped(q)' /\ data'[q] = data[q]
      /\ Tracking'
      /\ \A h, j : Leases(h, j)' = Leases(h, j) /\ Trackers(h, j)' = Trackers(h, j)
  BY <1>1, OpenersRest DEF memory
<1>3. /\ mapped' = mapped /\ borrows' = borrows
      /\ data' = data /\ lease' = lease /\ tracked' = tracked
  BY <1>1 DEF memory, opener
<1>4. BlobTypes'
  BY <1>1, <1>3 DEF BlobInv, BlobTypes, LoadInv, LoadTypes, Generations
<1>5. \A h \in Generations, j \in Keys : Counted(h, j)'
  BY <1>1, <1>2, <1>3 DEF BlobInv, Counted
<1>6. \A j \in mapped' : Kept(j)'
  BY <1>1, <1>2, <1>3 DEF BlobInv, Kept, Cached
<1> QED
  BY <1>1, <1>2, <1>4, <1>5, <1>6 DEF BlobInv

LEMMA RetireBlobs ==
  ASSUME LoadInv, PinInv, BlobInv, Retire PROVE BlobInv'
<1> DEFINE g == retiring
           c == cache[g]
           e == [c EXCEPT !.retired = TRUE]
           d == DropRetired(e)
<1>1. /\ g # 0 /\ retiring' = 0 /\ cache' = [cache EXCEPT ![g] = d]
      /\ mapped' = mapped \ {j \in Maps : /\ j \in (cache[g].blobs \ d.blobs) \cup {}
                                          /\ pins[j] = 0}
      /\ UNCHANGED <<borrows, opener>>
  BY DEF Retire
<1>2. /\ g \in Generations /\ Orderly(c) /\ c \in Caches
      /\ cache \in [Generations -> Caches]
  BY <1>1 DEF BlobInv, BlobTypes, Generations, Orderly
<1>3. /\ e \in Caches /\ e.retired /\ e.blobs = c.blobs /\ e.lru = c.lru
      /\ e.flights = c.flights /\ e.handles = c.handles
  BY <1>2 DEF Caches
<1> HIDE DEF e
<1>4. Orderly(e) /\ IsCache(e) /\ Fewer(c, e)
  BY <1>2, <1>3, CachesAreCaches, FewerSame DEF Orderly, Idle
<1>5. Orderly(d) /\ Fewer(e, d) /\ d.retired /\ d \in Caches
  BY <1>3, <1>4, DropRetiredOrders DEF Orderly
<1> HIDE DEF d
<1>6. Fewer(c, d) /\ Thrifty(d)
  BY <1>2, <1>3, <1>4, <1>5, FewerComposes DEF Thrifty
<1>7. cache'[g] = d /\ \A h \in Generations \ {g} : cache'[h] = cache[h]
  BY <1>1, <1>2
<1>8. /\ \A q \in Openers : Equipped(q)' /\ data'[q] = data[q]
      /\ Tracking'
      /\ \A h, j : Leases(h, j)' = Leases(h, j) /\ Trackers(h, j)' = Trackers(h, j)
  BY <1>1, OpenersRest
<1>9. BlobTypes'
  <2>1. data' = data /\ lease' = lease /\ tracked' = tracked /\ 0 \in 0 .. MaxGeneration
    BY <1>1, AssetAssumption DEF opener
  <2> QED
    BY <1>1, <1>2, <1>5, <2>1 DEF BlobInv, BlobTypes
<1>10. \A h \in Generations : Orderly(cache'[h]) /\ Thrifty(cache'[h])
  BY <1>5, <1>6, <1>7 DEF BlobInv
<1>11. ASSUME NEW h \in Generations, NEW j \in Keys PROVE Counted(h, j)'
  <2>1. cache[h].flights[j] \in Nat /\ cache[h].handles[j] \in Nat
    BY <1>2 DEF Caches
  <2>2. /\ cache'[h].flights[j] <= cache[h].flights[j]
        /\ cache'[h].handles[j] <= cache[h].handles[j]
    BY <1>6, <1>7, <2>1 DEF Fewer
  <2> QED
    BY <1>1, <1>8, <1>9, <2>2, CountedStays
<1>12. ASSUME NEW j \in mapped' PROVE Kept(j)'
  <2> HIDE DEF g
  <2> QED
    BY <1>1, <1>2, <1>8, <1>12, KeptStays
<1> QED
  BY <1>8, <1>9, <1>10, <1>11, <1>12 DEF BlobInv

LEMMA BlobStep == LoadInv /\ PinInv /\ BlobInv /\ [Next]_vars => BlobInv'
<1> SUFFICES ASSUME LoadInv, PinInv, BlobInv, [Next]_vars PROVE BlobInv'
  OBVIOUS
<1>1. CASE SetAssets \/ UNCHANGED vars
  BY <1>1, RestingBlobs
<1>2. CASE Retire
  BY <1>2, RetireBlobs
<1>3. ASSUME NEW p \in Openers, Step(p) PROVE BlobInv'
  <2>1. CASE Retry(p) \/ NotInDirectory(p) \/ EnterSlot(p)
    BY <2>1, WalkingBlobs
  <2>2. CASE LookIn(p) \/ ReadFails(p)
    BY <2>2, WalkingBlobs, FailingBlobs
  <2>3. CASE CachedName(p) \/ BeginLoad(p) \/ CachedSource(p)
    BY <2>3, CachedNameBlobs, BeginLoadBlobs, CachedSourceBlobs
  <2>4. CASE MapFile(p) \/ EnsureAPK(p) \/ \E ok \in BOOLEAN : OpenArchive(p, ok)
    BY <2>4, MapFileBlobs, EnsureAPKBlobs, OpenArchiveBlobs
  <2>5. CASE ProtectEntry(p) \/ Inflate(p) \/ Publish(p) \/ CacheNames(p) \/ FinishLoad(p)
    BY <2>5, ProtectEntryBlobs, InflateBlobs, PublishBlobs, CacheNamesBlobs, FinishLoadBlobs
  <2>6. CASE Borrow(p) \/ Claim(p) \/ RecordClaim(p) \/ EndBorrow(p) \/ Unpin(p)
    BY <2>6, BorrowBlobs, ClaimBlobs, RecordClaimBlobs, EndBorrowBlobs, UnpinBlobs
  <2> QED
    BY <1>3, <2>1, <2>2, <2>3, <2>4, <2>5, <2>6 DEF Step
<1>4. ASSUME NEW p \in Openers, Close(p) \/ \E n \in Names : Open(p, n) PROVE BlobInv'
  BY <1>4, CloseBlobs, OpenBlobs
<1> QED
  BY <1>1, <1>2, <1>3, <1>4 DEF Next

LEMMA BlobInvariant == Spec => [](LoadInv /\ PinInv /\ BlobInv)
<1>1. Init => BlobInv
  <2> SUFFICES ASSUME Init PROVE BlobInv
    OBVIOUS
  <2>1. /\ Orderly(NewCache) /\ NewCache.lru = <<>> /\ NewCache \in Caches
        /\ \A k \in Keys : NewCache.flights[k] = 0 /\ NewCache.handles[k] = 0
    BY NewCacheOrders DEF Orderly
  <2>2. \A g \in Generations : cache[g] = NewCache
    BY DEF Init
  <2>3. BlobTypes
    <3>1. cache \in [Generations -> Caches]
      BY <2>1 DEF Init
    <3>2. 0 \in 0 .. MaxGeneration
      BY AssetAssumption
    <3>3. borrows \in [Keys -> [handles : Nat, tracks : 0 .. MaxGeneration]]
      BY <3>2 DEF Init
    <3> QED
      BY <3>1, <3>2, <3>3 DEF Init, BlobTypes
  <2>4. Tracking
    BY DEF Init, Tracking, Claimed
  <2>5. \A p \in Openers : Equipped(p)
    BY DEF Init, Equipped, EquippedAs, Blank
  <2>6. \A g \in Generations : Orderly(cache[g]) /\ Thrifty(cache[g])
    BY <2>1, <2>2 DEF Thrifty, WithinBudget
  <2>7. ASSUME NEW g \in Generations, NEW k \in Keys PROVE Counted(g, k)
    <3>1. Cardinality(Leases(g, k)) \in Nat
      <4>1. Leases(g, k) \subseteq Openers
        BY DEF Leases
      <4> QED
        BY <4>1, AssetAssumption, FS_Subset, FS_CardinalityType
    <3>2. borrows[k].tracks = 0 /\ g # 0
      BY DEF Init, Generations
    <3> QED
      BY <2>1, <2>2, <3>1, <3>2, TrackersCount DEF Counted
  <2>8. \A k \in mapped : Kept(k)
    BY DEF Init
  <2> QED
    BY <2>3, <2>4, <2>5, <2>6, <2>7, <2>8 DEF BlobInv
<1> QED
  BY <1>1, BlobStep, LoadInvariant, PinInvariant, PTL DEF Spec
-----------------------------------------------------------------------------
(* Every variable of the cache keeps its type: no count goes below zero,   *)
(* whichever of the loads, claims and handles of a blob ends first         *)
(* (releaseLoadBlobLocked, endNativeBorrow, releaseMappedDirAssetPin).     *)
THEOREM AssetTypes == Spec => []AssetTypeOK
<1>1. LoadInv /\ PinInv /\ BlobInv => AssetTypeOK
  <2> SUFFICES ASSUME LoadInv, PinInv, BlobInv PROVE AssetTypeOK
    OBVIOUS
  <2>1. \A g \in Generations : CacheOK(cache[g])
    BY DEF BlobInv, BlobTypes, Caches, CacheOK
  <2> QED
    BY <2>1 DEF LoadInv, LoadTypes, PinInv, PinTypes, BlobInv, BlobTypes, AssetTypeOK
<1> QED
  BY <1>1, BlobInvariant, PTL

(* A protected blob has its load, a lent one its AAsset.                   *)
LEMMA ProtectedIsLoaded ==
  ASSUME BlobInv, NEW g \in Generations, NEW k \in Keys, cache[g].flights[k] # 0
  PROVE  \E p \in Openers : lease[p] = k /\ gen[p] = g
<1>1. cache[g].flights[k] \in Nat /\ cache[g].flights[k] <= Cardinality(Leases(g, k))
  BY DEF BlobInv, BlobTypes, Caches, Counted
<1>2. Leases(g, k) # {}
  <2>1. Cardinality({}) = 0
    BY FS_EmptySet
  <2> QED
    BY <1>1, <2>1
<1> QED
  BY <1>2 DEF Leases

LEMMA LentIsHad ==
  ASSUME PinInv, BlobInv, NEW g \in Generations, NEW k \in Keys, cache[g].handles[k] # 0
  PROVE  \E p \in Openers : data[p] = k
<1>1. /\ cache[g].handles[k] \in Nat
      /\ cache[g].handles[k]
            <= Cardinality(Trackers(g, k)) + (IF borrows[k].tracks = g THEN 1 ELSE 0)
  BY DEF BlobInv, BlobTypes, Caches, Counted
<1>2. CASE borrows[k].tracks = g
  <2>1. borrows[k].handles # 0
    BY <1>2 DEF BlobInv, Tracking, Generations
  <2>2. Holders(k) # {}
    BY <2>1, CountsAreFinite DEF PinInv, PinCounts
  <2> QED
    BY <2>2 DEF Holders
<1>3. CASE borrows[k].tracks # g
  <2>1. Cardinality({}) = 0
    BY FS_EmptySet
  <2>2. Trackers(g, k) # {}
    BY <1>1, <1>3, <2>1
  <2> QED
    BY <2>2 DEF Trackers
<1> QED
  BY <1>2, <1>3

(* Whatever a cache protects, lends, pins or maps belongs to a thread that *)
(* is still to give it back, and the list of what may be evicted is that   *)
(* of the blobs nobody protects or borrows (protectLoadBlobLocked,         *)
(* beginNativeBorrow, acquireAssetBorrow, makeBlobEvictableLocked).        *)
THEOREM NothingIsLeft == Spec => []NothingLeaks
<1>1. LoadInv /\ PinInv /\ BlobInv => NothingLeaks
  <2> SUFFICES ASSUME LoadInv, PinInv, BlobInv PROVE NothingLeaks
    OBVIOUS
  <2>1. ASSUME NEW g \in Generations, NEW k \in Keys
        PROVE  LET c == cache[g]
               IN  /\ c.flights[k] # 0 => \E p \in Openers : lease[p] = k /\ gen[p] = g
                   /\ c.handles[k] # 0 => \E p \in Openers : data[p] = k
                   /\ InLru(c, k) <=> k \in c.blobs /\ c.flights[k] + c.handles[k] = 0
    <3>1. InLru(cache[g], k) <=> Idle(cache[g], k)
      BY InLruIsListed DEF BlobInv, Orderly
    <3>2. cache[g].flights[k] \in Nat /\ cache[g].handles[k] \in Nat
      BY DEF BlobInv, BlobTypes, Caches
    <3>3. InLru(cache[g], k)
              <=> k \in cache[g].blobs /\ cache[g].flights[k] + cache[g].handles[k] = 0
      BY <3>1, <3>2 DEF Idle
    <3> QED
      BY <3>3, ProtectedIsLoaded, LentIsHad
  <2>2. \A k \in Maps : pins[k] # 0 => \E p \in Openers : data[p] = k
    BY PinnedIsHad
  <2>3. \A k \in mapped : Cached(k) \/ \E p \in Openers : data[p] = k
    BY DEF BlobInv, Kept
  <2> QED
    BY <2>1, <2>2, <2>3 DEF NothingLeaks
<1> QED
  BY <1>1, BlobInvariant, PTL

(* A cache that nothing is loaded into holds no more than its budget, but  *)
(* for the blobs that are lent, however loads, closes and evictions        *)
(* interleave (enforceAssetCachePolicyLocked and who calls it).            *)
THEOREM BudgetIsKept == Spec => []BudgetKept
<1>1. LoadInv /\ PinInv /\ BlobInv => BudgetKept
  <2> SUFFICES ASSUME LoadInv, PinInv, BlobInv, NEW g \in Generations,
                      Cardinality(cache[g].blobs) > Budget,
                      cache[g].loads = {}, ~cache[g].retired,
                      NEW k \in cache[g].blobs
               PROVE  cache[g].handles[k] # 0
    BY DEF BudgetKept
  <2>1. /\ Orderly(cache[g]) /\ k \in Keys /\ cache[g].blobs \in SUBSET Keys
        /\ cache[g].lru = <<>>
    <3>1. Cardinality(cache[g].blobs) \in Nat
      BY FS_CardinalityType DEF BlobInv, Orderly
    <3>2. cache[g].lru = <<>>
      BY <3>1, AssetAssumption DEF BlobInv, Thrifty, WithinBudget
    <3> QED
      BY <3>2 DEF BlobInv, Orderly, Caches
  <2>2. ~Idle(cache[g], k)
    BY <2>1, NothingListed DEF Orderly
  <2>3. cache[g].flights[k] = 0
    <3> SUFFICES ASSUME cache[g].flights[k] # 0 PROVE FALSE
      OBVIOUS
    <3>1. PICK p \in Openers : lease[p] = k /\ gen[p] = g
      BY <2>1, ProtectedIsLoaded
    <3>2. at[p] \in {"names", "finish"}
      BY <2>1, <3>1, NoOneIsKey, Inventory DEF Equipped, EquippedAs
    <3>3. name[p] \in cache[g].loads
      BY <3>1, <3>2, Inventory DEF Leads
    <3> QED
      BY <3>3
  <2> QED
    BY <2>2, <2>3 DEF Idle
<1> QED
  BY <1>1, BlobInvariant, PTL
=============================================================================
