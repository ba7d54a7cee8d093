--------------------------- MODULE PageCacheProofs ---------------------------
(***************************************************************************)
(* The page cache for every set of URLs and of readers, every TTL, latency *)
(* and budget: the budgets hold, a read returns a page of bounded age, and *)
(* the cache implements PageReads.                                         *)
(***************************************************************************)
EXTENDS PageCache, FiniteSetTheorems, TLAPS

Copy == [ver : Versions, left : 0 .. TTL]

\* A map of copies, the one in memory or the one on disk.
Cached(f) == DOMAIN f \subseteq Urls /\ IsFiniteSet(DOMAIN f) /\ \A u \in DOMAIN f : f[u] \in Copy

InBudget(m) ==
    /\ Cardinality(DOMAIN m) <= MaxEntries
    /\ IsFiniteSet(BytesOf(DOMAIN m)) /\ Bytes(DOMAIN m) <= MaxBytes

\* c is a copy of u in memory or on disk.
Has(m, d, u, c) == (u \in DOMAIN m /\ c = m[u]) \/ (u \in DOMAIN d /\ c = d[u])

CacheTypeOK ==
    /\ Cached(mem) /\ Cached(disk) /\ orphans \in Nat
    /\ version \in [Urls -> Versions]
    /\ retired \in [Urls -> [Versions -> 0 .. Old]]
    /\ pc \in [Readers -> {"idle", "miss", "sent", "304", "200", "reply", "failed", "no-copy"}]
    /\ url \in [Readers -> Urls]
    /\ etag \in [Readers -> Versions \cup {NoTag}]
    /\ got \in [Readers -> Versions]
    /\ elapsed \in [Readers -> 0 .. MaxLatency]

\* Nothing is known of a version before the origin serves it.
NothingFromTheFuture ==
    /\ \A u \in Urls, v \in Versions : v >= version[u] => retired[u][v] = 0
    /\ \A u \in Urls, c \in Copy : Has(mem, disk, u, c) => c.ver <= version[u]
    /\ \A r \in Readers : pc[r] \in {"200", "reply"} => got[r] <= version[url[r]]
    /\ \A r \in Readers : pc[r] = "304" => etag[r] <= version[url[r]]

Budgets ==
    /\ InBudget(mem)
    /\ ~DiskFaults => Cardinality(DOMAIN disk) <= MaxDisk
    /\ ~UseDir => DOMAIN disk = {}

PageInv == CacheTypeOK /\ NothingFromTheFuture /\ Budgets

-----------------------------------------------------------------------------
(* What the cache's operations do to a map of copies.                       *)

\* The types of the constants and of what is computed from them.
LEMMA Numbers ==
    /\ TTL \in Nat /\ MaxLatency \in Nat /\ MaxVersion \in Nat /\ MaxEntries \in Nat \ {0}
    /\ MaxBytes \in Nat /\ MaxDisk \in Nat \ {0}
    /\ UseDir \in BOOLEAN /\ DiskFaults \in BOOLEAN /\ Lag \in Nat /\ Old = Lag + 1
    /\ Versions = 0 .. MaxVersion /\ NoTag \notin Versions /\ NoUrl \in Urls
    /\ 0 \in Versions /\ 0 \in 0 .. MaxLatency /\ 0 \in 0 .. Old
<1>1. NoUrl \in Urls
    BY PageCacheAssumption DEF NoUrl
<1> QED BY <1>1, PageCacheAssumption DEF Lag, Old, Versions, NoTag

\* The size of a map grows by at most one page when one is inserted.
LEMMA BytesGrow ==
    ASSUME NEW K, IsFiniteSet(BytesOf(K)), NEW u \in Urls
    PROVE  /\ IsFiniteSet(BytesOf(K \cup {u}))
           /\ Bytes(K \cup {u}) <= SizeOf[u] + Bytes(K)
<1> DEFINE New == {u} \X (1 .. SizeOf[u])
<1>1. IsFiniteSet({u}) /\ Cardinality({u}) = 1
    BY FS_Singleton
<1>2. SizeOf[u] \in Nat
    BY PageCacheAssumption
<1>3. IsFiniteSet(1 .. SizeOf[u]) /\ Cardinality(1 .. SizeOf[u]) = SizeOf[u]
    BY <1>2, FS_Interval, SMTT(30)
<1>4. IsFiniteSet(New) /\ Cardinality(New) = 1 * SizeOf[u]
    BY <1>1, <1>3, FS_Product, ZenonT(60)
<1>5. BytesOf(K \cup {u}) = BytesOf(K) \cup New
    BY DEF BytesOf
<1> HIDE DEF New
<1>6. /\ IsFiniteSet(BytesOf(K) \cup New)
      /\ Cardinality(BytesOf(K) \cup New) =
            Cardinality(BytesOf(K)) + Cardinality(New) - Cardinality(BytesOf(K) \cap New)
    BY <1>4, FS_Union
<1>7. Cardinality(BytesOf(K) \cap New) \in Nat /\ Cardinality(BytesOf(K)) \in Nat
    <2>1. IsFiniteSet(BytesOf(K) \cap New)
        BY FS_Intersection
    <2> QED BY <2>1, FS_CardinalityType
<1>8. Cardinality(New) = SizeOf[u]
    BY <1>2, <1>4
<1>9. Bytes(K \cup {u}) = Bytes(K) + SizeOf[u] - Cardinality(BytesOf(K) \cap New)
    BY <1>5, <1>6, <1>8 DEF Bytes
<1>10. Bytes(K) \in Nat
    BY <1>7 DEF Bytes
<1>11. Bytes(K \cup {u}) <= SizeOf[u] + Bytes(K)
    BY <1>2, <1>7, <1>9, <1>10
<1>12. IsFiniteSet(BytesOf(K \cup {u}))
    BY <1>5, <1>6
<1> QED BY <1>11, <1>12

LEMMA NoBytes == IsFiniteSet(BytesOf({})) /\ Bytes({}) = 0
<1>1. BytesOf({}) = {}
    BY DEF BytesOf
<1> QED BY <1>1, FS_EmptySet DEF Bytes

\* Room is made within both budgets before a copy is inserted.
LEMMA InsertKeeps ==
    ASSUME NEW m, Cached(m), InBudget(m), NEW u \in Urls, SizeOf[u] <= MaxBytes, NEW c \in Copy
    PROVE  /\ Cached(Insert(m, u, c)) /\ InBudget(Insert(m, u, c))
           /\ u \in DOMAIN Insert(m, u, c) /\ Insert(m, u, c)[u] = c
           /\ \A k \in DOMAIN Insert(m, u, c) :
                k # u => k \in DOMAIN m /\ Insert(m, u, c)[k] = m[k]
<1> DEFINE Room == makeRoom(m, u)
           Kept == {k \in DOMAIN m \ {u} : m[k].left > 0}
           n == Insert(m, u, c)
<1>1. Room \subseteq DOMAIN m \ {u} /\ (Room = {} \/ Room = Kept)
    BY DEF makeRoom
<1>2. DOMAIN n = Room \cup {u} /\ \A k \in DOMAIN n : n[k] = IF k = u THEN c ELSE m[k]
    BY <1>1 DEF Insert, Put, Restrict
<1>3. SizeOf[u] \in Nat /\ MaxEntries \in Nat \ {0} /\ MaxBytes \in Nat
    BY PageCacheAssumption
<1>4. IsFiniteSet(Room) /\ Cardinality(Room) \in Nat
    BY <1>1, FS_Subset, FS_CardinalityType DEF Cached
<1>5. BytesOf(Room) \subseteq BytesOf(DOMAIN m)
    BY <1>1 DEF BytesOf
<1>6. IsFiniteSet(BytesOf(Room)) /\ Bytes(Room) \in Nat
    BY <1>5, FS_Subset, FS_CardinalityType DEF InBudget, Bytes
<1>7. Cardinality(Room) + 1 <= MaxEntries /\ SizeOf[u] + Bytes(Room) <= MaxBytes
    <2>1. CASE Room = {}
        BY <1>3, <2>1, NoBytes, FS_EmptySet
    <2>2. CASE Room # {}
        <3>1. ~(Cardinality(Kept) >= MaxEntries \/ SizeOf[u] + Bytes(Kept) > MaxBytes)
            BY <2>2 DEF makeRoom
        <3>2. Room = Kept
            BY <1>1, <2>2
        <3> QED BY <1>3, <1>4, <1>6, <3>1, <3>2
    <2> QED BY <2>1, <2>2
<1> HIDE DEF Room, Kept, n
<1>8. IsFiniteSet(Room \cup {u}) /\ Cardinality(Room \cup {u}) <= MaxEntries
    <2>1. u \notin Room
        BY <1>1
    <2>2. IsFiniteSet(Room \cup {u}) /\ Cardinality(Room \cup {u}) = Cardinality(Room) + 1
        BY <1>4, <2>1, FS_AddElement
    <2> QED BY <1>7, <2>2
<1>9. IsFiniteSet(BytesOf(Room \cup {u})) /\ Bytes(Room \cup {u}) <= MaxBytes
    <2>1. IsFiniteSet(BytesOf(Room \cup {u})) /\ Bytes(Room \cup {u}) <= SizeOf[u] + Bytes(Room)
        BY <1>6, BytesGrow
    <2>2. Bytes(Room \cup {u}) \in Nat
        BY <2>1, FS_CardinalityType DEF Bytes
    <2> QED BY <1>3, <1>6, <1>7, <2>1, <2>2
<1>10. Cached(n)
    BY <1>1, <1>2, <1>8 DEF Cached
<1>11. InBudget(n)
    BY <1>2, <1>8, <1>9 DEF InBudget
<1>12. u \in DOMAIN n /\ n[u] = c /\ \A k \in DOMAIN n : k # u => k \in DOMAIN m /\ n[k] = m[k]
    BY <1>1, <1>2
<1> QED BY <1>10, <1>11, <1>12 DEF n

\* Looking a page up keeps the budget and makes up no copy.
LEMMA LookupKeeps ==
    ASSUME Cached(mem), InBudget(mem), Cached(disk), NEW u \in Urls, NEW b \in BOOLEAN
    PROVE  /\ Cached(lookup(mem, u, b)) /\ InBudget(lookup(mem, u, b))
           /\ \A k, c : Has(lookup(mem, u, b), disk, k, c) => Has(mem, disk, k, c)
<1>1. CASE lookup(mem, u, b) = mem
    BY <1>1
<1>2. CASE lookup(mem, u, b) # mem
    <2>1. /\ lookup(mem, u, b) = Insert(mem, u, disk[u])
          /\ u \in DOMAIN disk /\ SizeOf[u] <= MaxBytes /\ disk[u] \in Copy
        BY <1>2 DEF lookup, loadFromDisk, Cached
    <2> QED BY <2>1, InsertKeeps DEF Has
<1> QED BY <1>1, <1>2

\* The files that survive a prune are files that were there, and few enough.
LEMMA PruneKeeps ==
    ASSUME NEW d, Cached(d), NEW p \in pruneDiskCache(d)
    PROVE  /\ Cached(p) /\ DOMAIN p \subseteq DOMAIN d
           /\ \A k \in DOMAIN p : p[k] = d[k]
           /\ ~DiskFaults => Cardinality(DOMAIN p) <= MaxDisk
<1>1. CASE DiskFaults /\ p = d
    BY <1>1
<1>2. CASE ~(DiskFaults /\ p = d)
    <2>1. PICK S \in SUBSET Live(d) :
            p = Restrict(d, S) /\ (Cardinality(S) = MaxDisk \/ Cardinality(S) <= MaxDisk)
        BY <1>2 DEF pruneDiskCache
    <2>2. S \subseteq DOMAIN d /\ IsFiniteSet(S)
        BY FS_Subset DEF Live, Cached
    <2>3. DOMAIN p = S /\ \A k \in S : p[k] = d[k]
        BY <2>1 DEF Restrict
    <2>4. MaxDisk \in Nat
        BY Numbers
    <2> QED BY <2>1, <2>2, <2>3, <2>4 DEF Cached
<1> QED BY <1>1, <1>2

\* A write leaves the files that were there and the one that is written.
LEMMA PutKeeps ==
    ASSUME NEW d, Cached(d), NEW u \in Urls, NEW c \in Copy
    PROVE  /\ Cached(Put(d, u, c))
           /\ \A k \in DOMAIN Put(d, u, c) :
                \/ k = u /\ Put(d, u, c)[k] = c
                \/ k # u /\ k \in DOMAIN d /\ Put(d, u, c)[k] = d[k]
<1>1. DOMAIN Put(d, u, c) = DOMAIN d \cup {u}
      /\ \A k \in DOMAIN Put(d, u, c) : Put(d, u, c)[k] = IF k = u THEN c ELSE d[k]
    BY DEF Put
<1>2. IsFiniteSet(DOMAIN d \cup {u})
    BY FS_AddElement DEF Cached
<1> QED BY <1>1, <1>2 DEF Cached

LEMMA PersistKeeps ==
    ASSUME Cached(disk), ~DiskFaults => Cardinality(DOMAIN disk) <= MaxDisk, orphans \in Nat,
           NEW u \in Urls, NEW c \in Copy, NEW w \in BOOLEAN, NEW d \in persist(u, c, w)
    PROVE  /\ Cached(d)
           /\ ~DiskFaults => Cardinality(DOMAIN d) <= MaxDisk
           /\ ~UseDir => d = disk
           /\ \A k \in DOMAIN d :
                \/ k = u /\ d[k] = c
                \/ k \in DOMAIN disk /\ d[k] = disk[k] /\ (UseDir /\ w => k # u)
<1>1. CASE ~UseDir \/ ~w
    <2>1. d = disk
        BY <1>1 DEF persist
    <2> QED BY <1>1, <2>1
<1>2. CASE UseDir /\ w
    <2> DEFINE n == Put(disk, u, c)
    <2>1. /\ Cached(n)
          /\ \A k \in DOMAIN n :
                \/ k = u /\ n[k] = c
                \/ k # u /\ k \in DOMAIN disk /\ n[k] = disk[k]
        BY PutKeeps
    <2>2. Cardinality(DOMAIN n) \in Nat /\ MaxDisk \in Nat
        BY <2>1, FS_CardinalityType, Numbers DEF Cached
    <2>3. \/ d \in pruneDiskCache(n)
          \/ d = n /\ Cardinality(DOMAIN n) + orphans <= MaxDisk
        BY <1>2, <2>2 DEF persist
    <2> HIDE DEF n
    <2>4. CASE d \in pruneDiskCache(n)
        BY <1>2, <2>1, <2>4, PruneKeeps
    <2>5. CASE d = n /\ Cardinality(DOMAIN n) + orphans <= MaxDisk
        BY <1>2, <2>1, <2>2, <2>5
    <2> QED BY <2>3, <2>4, <2>5
<1> QED BY <1>1, <1>2, Numbers

-----------------------------------------------------------------------------
(* What each action does to the copies.                                     *)

\* No disk access fails.
DiskWorks == UseDir => ~DiskFaults

CacheOK ==
    /\ Cached(mem) /\ Cached(disk) /\ orphans \in Nat
    /\ Budgets

\* A step that makes no new copy.
Loses == \A k, c : Has(mem, disk, k, c)' => Has(mem, disk, k, c)

\* A step whose one new copy, e of u, replaces the others of u if the disk works.
Writes(u, e) ==
    \A k, c : Has(mem, disk, k, c)' =>
        (k = u /\ c = e) \/ (Has(mem, disk, k, c) /\ (DiskWorks => k # u))

\* The entry a write makes for version v.
Entry(v) == [ver |-> v, left |-> TTL]

LEMMA LookupLoses ==
    ASSUME PageInv, NEW r \in Readers, NEW b \in BOOLEAN,
           \/ \E u \in Urls : GetFresh(r, u, b)
           \/ Validators(r, b)
    PROVE  CacheOK' /\ Loses
<1>1. PICK u \in Urls : mem' \in {mem, lookup(mem, u, b)} /\ UNCHANGED <<disk, orphans>>
    BY DEF GetFresh, Validators, PageInv, CacheTypeOK
<1>2. /\ Cached(lookup(mem, u, b)) /\ InBudget(lookup(mem, u, b))
      /\ \A k, c : Has(lookup(mem, u, b), disk, k, c) => Has(mem, disk, k, c)
    BY LookupKeeps DEF PageInv, CacheTypeOK, Budgets
<1>3. CASE mem' = mem
    BY <1>1, <1>3 DEF PageInv, CacheTypeOK, CacheOK, Cached, Budgets, InBudget, Loses, Has
<1>4. CASE mem' = lookup(mem, u, b)
    <2>1. Cached(mem)' /\ InBudget(mem)' /\ Loses
        BY <1>1, <1>2, <1>4 DEF Cached, InBudget, Loses, Has
    <2> QED BY <1>1, <2>1 DEF PageInv, CacheTypeOK, CacheOK, Cached, Budgets
<1> QED BY <1>1, <1>3, <1>4

LEMMA StoreWrites ==
    ASSUME PageInv, NEW r \in Readers, NEW w \in Works, Store(r, w)
    PROVE  CacheOK' /\ (Loses \/ Writes(url[r], Entry(got[r])))
<1>1. url[r] \in Urls /\ got[r] \in Versions /\ Entry(got[r]) \in Copy /\ orphans \in Nat
      /\ orphans' = orphans /\ Cached(mem) /\ Cached(disk) /\ Budgets
    BY Numbers DEF PageInv, CacheTypeOK, Store, Copy, Entry
<1>2. CASE UNCHANGED <<mem, disk>>
    BY <1>1, <1>2 DEF CacheOK, Cached, Budgets, InBudget, Loses, Has
<1>3. CASE /\ SizeOf[url[r]] <= MaxBytes
           /\ mem' = Insert(mem, url[r], Entry(got[r]))
           /\ disk' \in persist(url[r], Entry(got[r]), w)
    <2>1. w \in BOOLEAN /\ (~DiskFaults => w)
        BY Numbers DEF Works
    <2>2. /\ Cached(mem)' /\ InBudget(mem)'
          /\ \A k \in DOMAIN mem' : k # url[r] => k \in DOMAIN mem /\ mem'[k] = mem[k]
          /\ mem'[url[r]] = Entry(got[r])
        BY <1>1, <1>3, InsertKeeps DEF Budgets, Cached, InBudget
    <2>3. /\ Cached(disk') /\ (~DiskFaults => Cardinality(DOMAIN disk') <= MaxDisk)
          /\ ~UseDir => disk' = disk
          /\ \A k \in DOMAIN disk' :
                \/ k = url[r] /\ disk'[k] = Entry(got[r])
                \/ k \in DOMAIN disk /\ disk'[k] = disk[k] /\ (UseDir /\ w => k # url[r])
        BY <1>1, <1>3, <2>1, PersistKeeps DEF Budgets
    <2>4. CacheOK'
        BY <1>1, <2>2, <2>3 DEF CacheOK, Budgets, Cached
    <2>5. Writes(url[r], Entry(got[r]))
        BY <1>1, <2>1, <2>2, <2>3 DEF Writes, Has, DiskWorks, Budgets
    <2> QED BY <2>4, <2>5
<1> QED BY <1>2, <1>3 DEF Store, Entry

LEMMA NotModifiedWrites ==
    ASSUME PageInv, NEW r \in Readers, NEW b \in Works, NEW w \in Works, NotModified(r, b, w)
    PROVE  /\ CacheOK'
           /\ \/ Loses /\ pc' = [pc EXCEPT ![r] = "no-copy"] /\ UNCHANGED got
              \/ /\ pc' = [pc EXCEPT ![r] = "reply"]
                 /\ \E c \in Copy :
                        /\ Has(mem, disk, url[r], c) /\ got' = [got EXCEPT ![r] = c.ver]
                        /\ Writes(url[r], Entry(c.ver))
<1> DEFINE u == url[r]
           m == lookup(mem, u, b)
<1>1. u \in Urls /\ orphans \in Nat
      /\ orphans' = orphans /\ Cached(mem) /\ Cached(disk) /\ Budgets
    BY DEF PageInv, CacheTypeOK, NotModified
<1>2. b \in BOOLEAN /\ w \in BOOLEAN /\ (~DiskFaults => w)
    BY Numbers DEF Works
<1>3. CASE UNCHANGED <<mem, disk>> /\ Go(r, "no-copy") /\ UNCHANGED got
    BY <1>1, <1>3 DEF CacheOK, Cached, Budgets, InBudget, Loses, Has, Go
<1>4. CASE /\ u \in DOMAIN m /\ mem' = [m EXCEPT ![u] = Entry(m[u].ver)]
           /\ disk' \in persist(u, Entry(m[u].ver), w)
           /\ got' = [got EXCEPT ![r] = m[u].ver] /\ Go(r, "reply")
    <2>1. /\ Cached(m) /\ InBudget(m)
          /\ \A k, c : Has(m, disk, k, c) => Has(mem, disk, k, c)
        BY <1>1, <1>2, LookupKeeps DEF Budgets
    <2>2. m[u] \in Copy /\ Has(mem, disk, u, m[u]) /\ Entry(m[u].ver) \in Copy
        BY <1>4, <2>1, Numbers DEF Cached, Has, Copy, Entry
    <2> HIDE DEF m
    <2>3. /\ Cached(mem)' /\ InBudget(mem)'
          /\ \A k \in DOMAIN mem' : k # u => k \in DOMAIN m /\ mem'[k] = m[k]
          /\ mem'[u] = Entry(m[u].ver)
        BY <1>1, <1>4, <2>1, <2>2 DEF Cached, InBudget
    <2>4. /\ Cached(disk') /\ (~DiskFaults => Cardinality(DOMAIN disk') <= MaxDisk)
          /\ ~UseDir => disk' = disk
          /\ \A k \in DOMAIN disk' :
                \/ k = u /\ disk'[k] = Entry(m[u].ver)
                \/ k \in DOMAIN disk /\ disk'[k] = disk[k] /\ (UseDir /\ w => k # u)
        BY <1>1, <1>2, <1>4, <2>2, PersistKeeps DEF Budgets
    <2>5. CacheOK'
        BY <1>1, <2>3, <2>4 DEF CacheOK, Budgets, Cached
    <2>6. Writes(u, Entry(m[u].ver))
        BY <1>1, <1>2, <2>1, <2>3, <2>4 DEF Writes, Has, DiskWorks, Budgets
    <2> QED BY <1>4, <2>2, <2>5, <2>6 DEF Go
<1> QED BY <1>3, <1>4 DEF NotModified, Entry

\* A restart loses the memory and, at most, files; the write it interrupts
\* may have reached the disk.
LEMMA RestartWrites ==
    ASSUME PageInv,
           \/ Crash
           \/ \E r \in Readers : CrashBeforeRename(r) \/ CrashAfterRename(r)
    PROVE  /\ CacheOK'
           /\ \/ Loses
              \/ \E r \in Readers, v \in Versions :
                    /\ \/ pc[r] = "200" /\ v = got[r]
                       \/ pc[r] = "304" /\ \E c \in Copy : v = c.ver /\ Has(mem, disk, url[r], c)
                    /\ Writes(url[r], Entry(v))
<1>1. Cached(mem) /\ Cached(disk) /\ Budgets /\ orphans \in Nat
    BY DEF PageInv, CacheTypeOK
<1>2. ASSUME NEW d, Restart(d), Cached(d), orphans' \in Nat, ~UseDir => d = disk
      PROVE  CacheOK' /\ DOMAIN mem' = {} /\ \A k \in DOMAIN disk' : k \in DOMAIN d /\ disk'[k] = d[k]
    <2>1. mem' = <<>>
        BY <1>2 DEF Restart
    <2>2. DOMAIN mem' = {}
        BY <2>1
    <2>3. Cached(mem)' /\ InBudget(mem)'
        BY <2>2, NoBytes, FS_EmptySet, Numbers DEF Cached, InBudget
    <2>4. CASE UseDir
        <3>1. disk' \in pruneDiskCache(d)
            BY <1>2, <2>4 DEF Restart
        <3>2. /\ Cached(disk') /\ DOMAIN disk' \subseteq DOMAIN d
              /\ \A k \in DOMAIN disk' : disk'[k] = d[k]
              /\ ~DiskFaults => Cardinality(DOMAIN disk') <= MaxDisk
            BY <1>2, <3>1, PruneKeeps
        <3> QED BY <1>2, <2>2, <2>3, <2>4, <3>2 DEF CacheOK, Budgets, Cached
    <2>5. CASE ~UseDir
        <3>1. disk' = disk /\ d = disk
            BY <1>2, <2>5 DEF Restart
        <3> QED BY <1>1, <1>2, <2>2, <2>3, <3>1 DEF CacheOK, Budgets, Cached
    <2> QED BY <2>4, <2>5, Numbers
<1>3. CASE Crash
    BY <1>1, <1>2, <1>3 DEF Crash, Loses, Has
<1>4. ASSUME NEW r \in Readers, CrashBeforeRename(r) PROVE CacheOK' /\ Loses
    BY <1>1, <1>2, <1>4 DEF CrashBeforeRename, Loses, Has
<1>5. ASSUME NEW r \in Readers, CrashAfterRename(r)
      PROVE  /\ CacheOK'
             /\ \E v \in Versions :
                    /\ \/ pc[r] = "200" /\ v = got[r]
                       \/ pc[r] = "304" /\ \E c \in Copy : v = c.ver /\ Has(mem, disk, url[r], c)
                    /\ Writes(url[r], Entry(v))
    <2> DEFINE u == url[r]
               m == lookup(mem, u, TRUE)
               v == IF pc[r] = "200" THEN got[r] ELSE m[u].ver
    <2>1. u \in Urls /\ UseDir /\ orphans' = orphans /\ Restart(Put(disk, u, Entry(v)))
        BY <1>5 DEF CrashAfterRename, Entry, PageInv, CacheTypeOK
    <2>2. \/ pc[r] = "200" /\ v = got[r] /\ got[r] \in Versions
          \/ pc[r] = "304" /\ v = m[u].ver /\ u \in DOMAIN m
        BY <1>5 DEF CrashAfterRename, PageInv, CacheTypeOK
    <2>3. Cached(m) /\ \A k, c : Has(m, disk, k, c) => Has(mem, disk, k, c)
        BY <1>1, <2>1, LookupKeeps DEF Budgets
    <2>4. u \in DOMAIN m => m[u] \in Copy /\ m[u].ver \in Versions /\ Has(mem, disk, u, m[u])
        BY <2>3 DEF Cached, Has, Copy
    <2> HIDE DEF m, v
    <2>5. v \in Versions
          /\ \/ pc[r] = "200" /\ v = got[r]
             \/ pc[r] = "304" /\ \E c \in Copy : v = c.ver /\ Has(mem, disk, u, c)
        BY <2>2, <2>4
    <2>6. Entry(v) \in Copy
        BY <2>5, Numbers DEF Entry, Copy
    <2>7. /\ Cached(Put(disk, u, Entry(v)))
          /\ \A k \in DOMAIN Put(disk, u, Entry(v)) :
                \/ k = u /\ Put(disk, u, Entry(v))[k] = Entry(v)
                \/ k # u /\ k \in DOMAIN disk /\ Put(disk, u, Entry(v))[k] = disk[k]
        BY <1>1, <2>1, <2>6, PutKeeps
    <2>8. CacheOK' /\ DOMAIN mem' = {}
          /\ \A k \in DOMAIN disk' : k \in DOMAIN Put(disk, u, Entry(v))
                                    /\ disk'[k] = Put(disk, u, Entry(v))[k]
        BY <1>1, <1>2, <2>1, <2>7
    <2>9. Writes(u, Entry(v))
        BY <2>7, <2>8 DEF Writes, Has
    <2> QED BY <2>5, <2>8, <2>9
<1> QED BY <1>3, <1>4, <1>5

\* Time passes for every copy alike.
LEMMA TickAges ==
    ASSUME PageInv, Tick
    PROVE  /\ CacheOK'
           /\ \A k, c : Has(mem, disk, k, c)' =>
                \E old \in Copy : Has(mem, disk, k, old) /\ c = [old EXCEPT !.left = Dec(@)]
<1>1. Cached(mem) /\ Cached(disk) /\ Budgets /\ orphans \in Nat
    BY DEF PageInv, CacheTypeOK
<1>2. \A c \in Copy : [c EXCEPT !.left = Dec(@)] \in Copy
    BY Numbers DEF Copy, Dec
<1>3. /\ mem' = [u \in DOMAIN mem |-> [mem[u] EXCEPT !.left = Dec(@)]]
      /\ disk' = [u \in DOMAIN disk |-> [disk[u] EXCEPT !.left = Dec(@)]]
      /\ orphans' = orphans
    BY DEF Tick
<1>4. Cached(mem)' /\ Cached(disk)' /\ DOMAIN mem' = DOMAIN mem /\ DOMAIN disk' = DOMAIN disk
    BY <1>1, <1>2, <1>3 DEF Cached
<1>5. CacheOK'
    BY <1>1, <1>3, <1>4 DEF CacheOK, Budgets, InBudget
<1>6. \A k, c : Has(mem, disk, k, c)' =>
        \E old \in Copy : Has(mem, disk, k, old) /\ c = [old EXCEPT !.left = Dec(@)]
    BY <1>1, <1>3, <1>4 DEF Has, Cached
<1> QED BY <1>5, <1>6

-----------------------------------------------------------------------------
(* Types, budgets and versions.                                             *)

LEMMA PageInvInit == Init => PageInv
<1> SUFFICES ASSUME Init PROVE PageInv
    OBVIOUS
<1>1. DOMAIN mem = {} /\ DOMAIN disk = {}
    BY DEF Init
<1>2. Cached(mem) /\ Cached(disk) /\ Budgets
    BY <1>1, NoBytes, FS_EmptySet, Numbers DEF Cached, Budgets, InBudget
<1>3. CacheTypeOK
    BY <1>2, Numbers DEF Init, CacheTypeOK
<1>4. NothingFromTheFuture
    BY <1>1, Numbers DEF Init, NothingFromTheFuture, Has
<1> QED BY <1>2, <1>3, <1>4 DEF PageInv

\* Copies stay in the past when what is written is.
LEMMA CopiesFromThePast ==
    ASSUME PageInv, UNCHANGED version,
           Loses \/ \E u \in Urls, v \in Versions : v <= version[u] /\ Writes(u, Entry(v))
    PROVE  \A u \in Urls, c \in Copy : Has(mem, disk, u, c)' => c.ver <= version'[u]
BY DEF PageInv, NothingFromTheFuture, Loses, Writes, Entry

LEMMA PageInvStep == PageInv /\ [Next]_vars => PageInv'
<1> SUFFICES ASSUME PageInv, [Next]_vars PROVE PageInv'
    OBVIOUS
<1>1. CacheTypeOK /\ NothingFromTheFuture /\ Budgets
    BY DEF PageInv
<1>2. ASSUME CacheOK', CacheTypeOK', NothingFromTheFuture' PROVE PageInv'
    BY <1>2 DEF PageInv, CacheOK
<1>3. CASE UNCHANGED vars
    BY <1>1, <1>3 DEF PageInv, CacheTypeOK, NothingFromTheFuture, Budgets, Cached, InBudget, Has, vars
<1>4. CASE Tick
    <2>1. CacheOK' /\ \A k, c : Has(mem, disk, k, c)' =>
            \E old \in Copy : Has(mem, disk, k, old) /\ c = [old EXCEPT !.left = Dec(@)]
        BY <1>4, TickAges
    <2>2. \A u \in Urls, c \in Copy : Has(mem, disk, u, c)' => c.ver <= version'[u]
        BY <1>1, <1>4, <2>1, SMTT(60) DEF NothingFromTheFuture, Tick, Copy
    <2>3. /\ retired' \in [Urls -> [Versions -> 0 .. Old]]
          /\ \A u \in Urls, v \in Versions : v >= version'[u] => retired'[u][v] = 0
        <3>1. \A u \in Urls, v \in Versions :
                retired'[u][v] = IF v >= version[u] THEN 0
                                 ELSE IF retired[u][v] < Old THEN retired[u][v] + 1 ELSE Old
            BY <1>4 DEF Tick
        <3>2. \A u \in Urls, v \in Versions : retired[u][v] \in 0 .. Old
            BY <1>1 DEF CacheTypeOK
        <3>3. \A u \in Urls, v \in Versions : retired'[u][v] \in 0 .. Old
            BY <3>1, <3>2, Numbers
        <3>4. /\ DOMAIN retired' = Urls /\ version' = version
              /\ retired' = [u \in Urls |-> [v \in Versions |-> retired'[u][v]]]
            BY <1>4 DEF Tick
        <3> QED BY <3>1, <3>3, <3>4
    <2>4. elapsed' \in [Readers -> 0 .. MaxLatency]
        <3>1. elapsed' = [r \in Readers |-> IF r \in Running THEN elapsed[r] + 1 ELSE 0]
              /\ \A r \in Running : elapsed[r] < MaxLatency
            BY <1>4 DEF Tick
        <3>2. \A r \in Readers : elapsed[r] \in 0 .. MaxLatency
            BY <1>1 DEF CacheTypeOK
        <3>3. \A r \in Readers : (IF r \in Running THEN elapsed[r] + 1 ELSE 0) \in 0 .. MaxLatency
            BY <3>1, <3>2, Numbers
        <3> QED BY <3>1, <3>3
    <2>5. UNCHANGED <<version, pc, url, etag, got>>
        BY <1>4 DEF Tick
    <2>6. NothingFromTheFuture'
        BY <1>1, <2>2, <2>3, <2>5 DEF NothingFromTheFuture
    <2> QED BY <1>1, <1>2, <2>1, <2>3, <2>4, <2>5, <2>6 DEF CacheTypeOK, CacheOK
<1>5. ASSUME NEW u \in Urls, OriginChanges(u) PROVE PageInv'
    <2>1. /\ version[u] < MaxVersion /\ version' = [version EXCEPT ![u] = @ + 1]
          /\ UNCHANGED <<mem, disk, orphans, retired, pc, url, etag, got, elapsed>>
        BY <1>5 DEF OriginChanges, reads
    <2>2. version' \in [Urls -> Versions] /\ \A k \in Urls : version[k] <= version'[k]
        <3>1. \A k \in Urls : version[k] \in 0 .. MaxVersion
            BY <1>1, Numbers DEF CacheTypeOK
        <3>2. version[u] + 1 \in Versions
            BY <2>1, <3>1, Numbers
        <3>3. version' \in [Urls -> Versions]
            BY <1>1, <2>1, <3>2 DEF CacheTypeOK
        <3>4. \A k \in Urls : version'[k] = IF k = u THEN version[k] + 1 ELSE version[k]
            BY <1>1, <2>1 DEF CacheTypeOK
        <3> QED BY <3>1, <3>3, <3>4
    <2>3. CacheTypeOK' /\ CacheOK'
        BY <1>1, <2>1, <2>2 DEF CacheTypeOK, CacheOK, Cached, Budgets, InBudget
    <2>4. \A k \in Urls, v \in Versions : v >= version'[k] => v >= version[k]
        BY <1>1, <2>2, Numbers DEF CacheTypeOK
    <2> DEFINE Before(n, k) == n \in Int => (n <= version[k] => n <= version'[k])
    <2>5. \A k \in Urls : \A n : Before(n, k)
        BY <1>1, <2>2, Numbers DEF CacheTypeOK
    <2>6. \A k \in Urls, c \in Copy : Has(mem, disk, k, c)' => c.ver <= version'[k]
        <3>1. \A k \in Urls, c \in Copy : Has(mem, disk, k, c)' => c.ver <= version[k] /\ c.ver \in Int
            BY <1>1, <2>1, Numbers DEF NothingFromTheFuture, Has, Copy
        <3> QED BY <2>5, <3>1
    <2>7. /\ \A r \in Readers : pc[r] \in {"200", "reply"} => got[r] <= version'[url[r]]
          /\ \A r \in Readers : pc[r] = "304" => etag[r] <= version'[url[r]]
        <3>1. \A r \in Readers : url[r] \in Urls /\ got[r] \in Int /\ etag[r] \in Int
            BY <1>1, Numbers DEF CacheTypeOK, NoTag
        <3> QED BY <1>1, <2>5, <3>1 DEF NothingFromTheFuture
    <2>8. NothingFromTheFuture'
        BY <1>1, <2>1, <2>4, <2>6, <2>7 DEF NothingFromTheFuture
    <2> QED BY <1>2, <2>3, <2>8
<1>6. CASE Crash \/ \E r \in Readers : CrashBeforeRename(r) \/ CrashAfterRename(r)
    <2>1. /\ version' = version /\ retired' = retired
          /\ pc' = [r \in Readers |-> "idle"]
          /\ url' = [r \in Readers |-> NoUrl]
          /\ etag' = [r \in Readers |-> NoTag]
          /\ got' = [r \in Readers |-> 0]
          /\ elapsed' = [r \in Readers |-> 0]
        BY <1>6 DEF Crash, CrashBeforeRename, CrashAfterRename, Restart, origin
    <2>2. CacheOK' /\ (Loses \/ \E u \in Urls, v \in Versions :
                                    v <= version[u] /\ Writes(u, Entry(v)))
        BY <1>1, <1>6, RestartWrites DEF NothingFromTheFuture, CacheTypeOK
    <2>3. \A u \in Urls, c \in Copy : Has(mem, disk, u, c)' => c.ver <= version'[u]
        BY <2>1, <2>2, CopiesFromThePast
    <2>4. CacheTypeOK' /\ NothingFromTheFuture'
        BY <1>1, <2>1, <2>2, <2>3, Numbers DEF CacheTypeOK, CacheOK, NothingFromTheFuture
    <2> QED BY <1>2, <2>2, <2>4
<1>7. ASSUME NEW r \in Readers, NEW u \in Urls, NEW b \in Works, GetFresh(r, u, b) PROVE PageInv'
    <2> DEFINE m == lookup(mem, u, b)
    <2>1. b \in BOOLEAN
        BY Numbers DEF Works
    <2>2. CacheOK' /\ Loses
        BY <1>7, <2>1, LookupLoses
    <2>3. Cached(m) /\ \A k, c : Has(m, disk, k, c) => Has(mem, disk, k, c)
        BY <1>1, <2>1, LookupKeeps DEF CacheTypeOK, Budgets
    <2>4. u \in DOMAIN m => m[u].ver \in Versions /\ m[u].ver <= version[u]
        BY <1>1, <2>3 DEF NothingFromTheFuture, Cached, Has, Copy
    <2>5. /\ UNCHANGED <<orphans, version, retired, etag, elapsed>>
          /\ url' = [url EXCEPT ![r] = u]
          /\ \/ u \in DOMAIN m /\ pc' = [pc EXCEPT ![r] = "reply"] /\ got' = [got EXCEPT ![r] = m[u].ver]
             \/ pc' = [pc EXCEPT ![r] = "miss"] /\ got' = got
        BY <1>7 DEF GetFresh, isFresh, Go, origin
    <2> HIDE DEF m
    <2>6. CacheTypeOK'
        BY <1>1, <2>2, <2>4, <2>5 DEF CacheTypeOK, CacheOK
    <2>7. \A k \in Urls, c \in Copy : Has(mem, disk, k, c)' => c.ver <= version'[k]
        BY <2>2, <2>5, CopiesFromThePast
    <2>8. NothingFromTheFuture'
        BY <1>1, <2>4, <2>5, <2>7 DEF CacheTypeOK, NothingFromTheFuture
    <2> QED BY <1>2, <2>2, <2>6, <2>8
<1>8. ASSUME NEW r \in Readers, NEW b \in Works, Validators(r, b) PROVE PageInv'
    <2> DEFINE m == lookup(mem, url[r], b)
    <2>1. b \in BOOLEAN
        BY Numbers DEF Works
    <2>2. CacheOK' /\ Loses
        BY <1>8, <2>1, LookupLoses
    <2>3. Cached(m)
        BY <1>1, <2>1, LookupKeeps DEF CacheTypeOK, Budgets
    <2>4. /\ UNCHANGED <<orphans, version, retired, url, got, elapsed>>
          /\ pc' = [pc EXCEPT ![r] = "sent"]
          /\ \E e \in Versions \cup {NoTag} : etag' = [etag EXCEPT ![r] = e]
        BY <1>8, <2>3 DEF Validators, Go, origin, Cached, Copy
    <2>5. \A k \in Urls, c \in Copy : Has(mem, disk, k, c)' => c.ver <= version'[k]
        BY <2>2, <2>4, CopiesFromThePast
    <2>6. CacheTypeOK' /\ NothingFromTheFuture'
        BY <1>1, <2>2, <2>4, <2>5 DEF CacheTypeOK, CacheOK, NothingFromTheFuture
    <2> QED BY <1>2, <2>2, <2>6
<1>9. ASSUME NEW r \in Readers, OriginAnswers(r) \/ ReadFails(r) \/ Finish(r) PROVE PageInv'
    <2>1. UNCHANGED <<mem, disk, orphans, version, retired>>
        BY <1>9 DEF OriginAnswers, ReadFails, Finish, origin
    <2>2. CacheOK' /\ \A u \in Urls, c \in Copy : Has(mem, disk, u, c)' => c.ver <= version'[u]
        BY <1>1, <2>1 DEF CacheTypeOK, CacheOK, Cached, Budgets, InBudget, NothingFromTheFuture, Has
    <2>3. CASE OriginAnswers(r)
        <3>1. url[r] \in Urls /\ version[url[r]] \in Versions /\ version[url[r]] \in Int
            BY <1>1, Numbers DEF CacheTypeOK
        <3>2. /\ UNCHANGED <<url, etag, elapsed>>
              /\ \/ /\ etag[r] = version[url[r]]
                    /\ pc' = [pc EXCEPT ![r] = "304"] /\ got' = [got EXCEPT ![r] = 0]
                 \/ pc' = [pc EXCEPT ![r] = "200"] /\ got' = [got EXCEPT ![r] = version[url[r]]]
            BY <2>3 DEF OriginAnswers, Go
        <3>3. CASE /\ etag[r] = version[url[r]]
                   /\ pc' = [pc EXCEPT ![r] = "304"] /\ got' = [got EXCEPT ![r] = 0]
            <4>1. CacheTypeOK'
                BY <1>1, <2>1, <2>2, <3>2, <3>3, Numbers DEF CacheTypeOK, CacheOK
            <4>2. etag[r] <= version[url[r]]
                BY <3>1, <3>3
            <4>3. NothingFromTheFuture'
                BY <1>1, <2>1, <2>2, <3>2, <3>3, <4>2 DEF CacheTypeOK, NothingFromTheFuture
            <4> QED BY <1>2, <2>2, <4>1, <4>3
        <3>4. CASE pc' = [pc EXCEPT ![r] = "200"] /\ got' = [got EXCEPT ![r] = version[url[r]]]
            <4>1. CacheTypeOK' /\ NothingFromTheFuture'
                BY <1>1, <2>1, <2>2, <3>1, <3>2, <3>4 DEF CacheTypeOK, CacheOK, NothingFromTheFuture
            <4> QED BY <1>2, <2>2, <4>1
        <3> QED BY <3>2, <3>3, <3>4
    <2>4. CASE ReadFails(r)
        <3>1. pc' = [pc EXCEPT ![r] = "failed"] /\ UNCHANGED <<url, etag, got, elapsed>>
            BY <2>4 DEF ReadFails, Go
        <3>2. CacheTypeOK' /\ NothingFromTheFuture'
            BY <1>1, <2>1, <2>2, <3>1 DEF CacheTypeOK, CacheOK, NothingFromTheFuture
        <3> QED BY <1>2, <2>2, <3>2
    <2>5. CASE Finish(r)
        <3>1. /\ pc' = [pc EXCEPT ![r] = "idle"] /\ url' = [url EXCEPT ![r] = NoUrl]
              /\ etag' = [etag EXCEPT ![r] = NoTag] /\ got' = [got EXCEPT ![r] = 0]
              /\ elapsed' = [elapsed EXCEPT ![r] = 0]
            BY <2>5 DEF Finish, Go
        <3>2. CacheTypeOK'
            BY <1>1, <2>1, <2>2, <3>1, Numbers DEF CacheTypeOK, CacheOK
        <3>3. NothingFromTheFuture'
            BY <1>1, <2>1, <2>2, <3>1 DEF CacheTypeOK, NothingFromTheFuture
        <3> QED BY <1>2, <2>2, <3>2, <3>3
    <2> QED BY <1>9, <2>3, <2>4, <2>5
<1>10. ASSUME NEW r \in Readers, NEW b \in Works, NEW w \in Works, NotModified(r, b, w) PROVE PageInv'
    <2>1. UNCHANGED <<orphans, version, retired, url, etag, elapsed>> /\ url[r] \in Urls
        BY <1>1, <1>10 DEF NotModified, origin, CacheTypeOK
    <2>2. CacheOK'
        BY <1>10, NotModifiedWrites
    <2>3. CASE Loses /\ pc' = [pc EXCEPT ![r] = "no-copy"] /\ UNCHANGED got
        <3>1. \A k \in Urls, c \in Copy : Has(mem, disk, k, c)' => c.ver <= version'[k]
            BY <2>1, <2>3, CopiesFromThePast
        <3>2. CacheTypeOK' /\ NothingFromTheFuture'
            BY <1>1, <2>1, <2>2, <2>3, <3>1 DEF CacheTypeOK, CacheOK, NothingFromTheFuture
        <3> QED BY <1>2, <2>2, <3>2
    <2>4. ASSUME NEW c \in Copy, pc' = [pc EXCEPT ![r] = "reply"],
                 Has(mem, disk, url[r], c), got' = [got EXCEPT ![r] = c.ver],
                 Writes(url[r], Entry(c.ver))
          PROVE  PageInv'
        <3>1. c.ver \in Versions /\ c.ver <= version[url[r]]
            BY <1>1, <2>1, <2>4 DEF NothingFromTheFuture, Copy
        <3>2. \A k \in Urls, d \in Copy : Has(mem, disk, k, d)' => d.ver <= version'[k]
            BY <2>1, <2>4, <3>1, CopiesFromThePast
        <3>3. CacheTypeOK' /\ NothingFromTheFuture'
            BY <1>1, <2>1, <2>2, <2>4, <3>1, <3>2 DEF CacheTypeOK, CacheOK, NothingFromTheFuture
        <3> QED BY <1>2, <2>2, <3>3
    <2> QED BY <1>10, <2>3, <2>4, NotModifiedWrites
<1>11. ASSUME NEW r \in Readers, NEW w \in Works, Store(r, w) PROVE PageInv'
    <2>1. /\ UNCHANGED <<orphans, version, retired, url, etag, got, elapsed>>
          /\ url[r] \in Urls /\ got[r] \in Versions /\ got[r] <= version[url[r]]
          /\ pc[r] = "200" /\ pc' = [pc EXCEPT ![r] = "reply"]
        BY <1>1, <1>11 DEF Store, origin, CacheTypeOK, NothingFromTheFuture, Go
    <2>2. CacheOK' /\ (Loses \/ Writes(url[r], Entry(got[r])))
        BY <1>11, StoreWrites
    <2>3. \A k \in Urls, c \in Copy : Has(mem, disk, k, c)' => c.ver <= version'[k]
        BY <2>1, <2>2, CopiesFromThePast
    <2>4. CacheTypeOK' /\ NothingFromTheFuture'
        BY <1>1, <2>1, <2>2, <2>3 DEF CacheTypeOK, CacheOK, NothingFromTheFuture
    <2> QED BY <1>2, <2>2, <2>4
<1> QED BY <1>3, <1>4, <1>5, <1>6, <1>7, <1>8, <1>9, <1>10, <1>11 DEF Next

(***************************************************************************)
(* Copies, validators and answers are of versions the origin has served,   *)
(* and every budget holds.                                                 *)
(***************************************************************************)
THEOREM PageInvariant == Spec => []PageInv
BY PageInvInit, PageInvStep, PTL DEF Spec

(***************************************************************************)
(* The entry, byte and file budgets hold whatever is stored, loaded,       *)
(* pruned or lost in a crash.                                              *)
(***************************************************************************)
THEOREM BudgetsAlwaysHold == Spec => []BudgetsHold
<1>1. PageInv => BudgetsHold
    BY DEF PageInv, Budgets, InBudget, BudgetsHold
<1> QED BY PageInvariant, <1>1, PTL

-----------------------------------------------------------------------------
(***************************************************************************)
(* How old what is cached may be, while the disk works. Memory and disk    *)
(* agree; a copy that is fresh has used up at most its share of Lag; what  *)
(* a running read has received, or had confirmed, is no older than the     *)
(* read; and the copy a 304 will refresh is the confirmed version or one   *)
(* that a read still running then has stored.                              *)
(***************************************************************************)
CopiesAgree ==
    \A u \in Urls, c, d \in Copy : Has(mem, disk, u, c) /\ Has(mem, disk, u, d) => c.ver = d.ver

FreshIsRecent ==
    \A u \in Urls, c \in Copy :
        Has(mem, disk, u, c) /\ c.left > 0 => retired[u][c.ver] + c.left <= Lag

AnswersAreRecent ==
    \A r \in Readers :
        /\ pc[r] = "200" => retired[url[r]][got[r]] <= elapsed[r]
        /\ pc[r] = "304" => etag[r] \in Versions /\ retired[url[r]][etag[r]] <= elapsed[r]

ConfirmedOrNewer ==
    \A r \in Readers : pc[r] \in {"sent", "304"} /\ etag[r] \in Versions =>
        \A c \in Copy : Has(mem, disk, url[r], c) =>
            \/ c.ver = etag[r]
            \/ retired[url[r]][c.ver] <= MaxLatency + elapsed[r]

StaleInv == CopiesAgree /\ FreshIsRecent /\ AnswersAreRecent /\ ConfirmedOrNewer

\* The numbers a bound on an age is made of.
LEMMA Ages ==
    ASSUME CacheTypeOK
    PROVE  /\ \A u \in Urls, v \in Versions : retired[u][v] \in Nat
           /\ \A r \in Readers : elapsed[r] \in Nat /\ elapsed[r] <= MaxLatency /\ url[r] \in Urls
           /\ MaxLatency \in Nat /\ TTL \in Nat /\ Lag = TTL + MaxLatency + MaxLatency
           /\ \A c \in Copy : c.ver \in Versions /\ c.left \in Nat /\ c.left <= TTL
BY Numbers DEF CacheTypeOK, Copy, Lag

LEMMA StaleInvInit == Init => StaleInv
<1> SUFFICES ASSUME Init PROVE StaleInv
    OBVIOUS
<1>1. DOMAIN mem = {} /\ DOMAIN disk = {} /\ \A r \in Readers : pc[r] = "idle"
    BY DEF Init
<1> QED BY <1>1 DEF StaleInv, CopiesAgree, FreshIsRecent, AnswersAreRecent, ConfirmedOrNewer, Has

\* The copies that are left still agree, and a new one replaces the others.
LEMMA CopiesStayRecent ==
    ASSUME PageInv, StaleInv, DiskWorks, UNCHANGED retired,
           \/ Loses
           \/ \E u \in Urls, v \in Versions :
                retired[u][v] <= MaxLatency + MaxLatency /\ Writes(u, Entry(v))
    PROVE  CopiesAgree' /\ FreshIsRecent'
<1>1. CASE Loses
    BY <1>1 DEF Loses, StaleInv, CopiesAgree, FreshIsRecent
<1>2. ASSUME NEW u \in Urls, NEW v \in Versions,
             retired[u][v] <= MaxLatency + MaxLatency, Writes(u, Entry(v))
      PROVE  CopiesAgree' /\ FreshIsRecent'
    <2>1. \A k, c : Has(mem, disk, k, c)' =>
            (k = u /\ c = Entry(v)) \/ (k # u /\ Has(mem, disk, k, c))
        BY <1>2 DEF Writes
    <2>2. retired[u][v] + TTL <= Lag
        BY <1>2, Ages DEF PageInv
    <2>3. CopiesAgree'
        BY <2>1 DEF StaleInv, CopiesAgree
    <2>4. FreshIsRecent'
        BY <2>1, <2>2 DEF StaleInv, FreshIsRecent, Entry
    <2> QED BY <2>3, <2>4
<1> QED BY <1>1, <1>2

\* For a read whose validators are out, a copy another read writes is newer.
LEMMA StillConfirmedOrNewer ==
    ASSUME PageInv, StaleInv, UNCHANGED retired,
           \/ Loses
           \/ \E u \in Urls, v \in Versions :
                /\ \/ retired[u][v] <= MaxLatency
                   \/ \E c \in Copy : v = c.ver /\ Has(mem, disk, u, c)
                /\ Writes(u, Entry(v)),
           NEW r \in Readers, pc[r] \in {"sent", "304"}, etag[r] \in Versions, url'[r] = url[r],
           NEW d \in Copy, Has(mem, disk, url[r], d)'
    PROVE  d.ver = etag[r] \/ retired'[url[r]][d.ver] <= MaxLatency + elapsed[r]
<1>1. CASE Has(mem, disk, url[r], d)
    BY <1>1 DEF StaleInv, ConfirmedOrNewer
<1>2. ASSUME NEW v \in Versions, retired[url[r]][v] <= MaxLatency, d = Entry(v)
      PROVE  retired'[url[r]][d.ver] <= MaxLatency + elapsed[r]
    BY <1>2, Ages DEF PageInv, Entry
<1>3. ASSUME NEW c \in Copy, Has(mem, disk, url[r], c), d = Entry(c.ver)
      PROVE  d.ver = etag[r] \/ retired'[url[r]][d.ver] <= MaxLatency + elapsed[r]
    <2>1. d.ver = c.ver
        BY <1>3 DEF Entry
    <2> QED BY <1>3, <2>1 DEF StaleInv, ConfirmedOrNewer
<1>4. CASE Loses
    BY <1>1, <1>4 DEF Loses
<1>5. ASSUME NEW u \in Urls, NEW v \in Versions, Writes(u, Entry(v)),
             \/ retired[u][v] <= MaxLatency
             \/ \E c \in Copy : v = c.ver /\ Has(mem, disk, u, c)
      PROVE  d.ver = etag[r] \/ retired'[url[r]][d.ver] <= MaxLatency + elapsed[r]
    <2>1. (url[r] = u /\ d = Entry(v)) \/ Has(mem, disk, url[r], d)
        BY <1>5 DEF Writes
    <2> QED BY <1>1, <1>2, <1>3, <1>5, <2>1
<1> QED BY <1>4, <1>5

\* What a 304 refreshes is at most two reads' durations old.
LEMMA RefreshedIsRecent ==
    ASSUME PageInv, StaleInv, NEW r \in Readers, pc[r] = "304",
           NEW c \in Copy, Has(mem, disk, url[r], c)
    PROVE  retired[url[r]][c.ver] <= MaxLatency + MaxLatency
<1>1. etag[r] \in Versions /\ retired[url[r]][etag[r]] <= elapsed[r]
    BY DEF StaleInv, AnswersAreRecent
<1>2. c.ver = etag[r] \/ retired[url[r]][c.ver] <= MaxLatency + elapsed[r]
    BY <1>1 DEF StaleInv, ConfirmedOrNewer
<1>3. /\ elapsed[r] \in Nat /\ elapsed[r] <= MaxLatency /\ MaxLatency \in Nat
      /\ retired[url[r]][c.ver] \in Nat
    BY Ages DEF PageInv
<1> QED BY <1>1, <1>2, <1>3

\* What a 200 brought is at most one read's duration old.
LEMMA ReceivedIsRecent ==
    ASSUME PageInv, StaleInv, NEW r \in Readers, pc[r] = "200"
    PROVE  /\ got[r] \in Versions
           /\ retired[url[r]][got[r]] <= MaxLatency
           /\ retired[url[r]][got[r]] <= MaxLatency + MaxLatency
<1>1. retired[url[r]][got[r]] <= elapsed[r] /\ got[r] \in Versions
    BY DEF StaleInv, AnswersAreRecent, PageInv, CacheTypeOK
<1>2. /\ elapsed[r] \in Nat /\ elapsed[r] <= MaxLatency /\ MaxLatency \in Nat
      /\ retired[url[r]][got[r]] \in Nat
    BY <1>1, Ages DEF PageInv
<1> QED BY <1>1, <1>2

\* A step of read r leaves the ages of the other reads alone.
LEMMA OthersStayRecent ==
    ASSUME PageInv, StaleInv, UNCHANGED retired,
           \/ Loses
           \/ \E u \in Urls, v \in Versions :
                /\ \/ retired[u][v] <= MaxLatency
                   \/ \E c \in Copy : v = c.ver /\ Has(mem, disk, u, c)
                /\ Writes(u, Entry(v)),
           NEW r \in Readers,
           \A k \in Readers \ {r} :
                /\ pc'[k] = pc[k] /\ url'[k] = url[k] /\ etag'[k] = etag[k]
                /\ got'[k] = got[k] /\ elapsed'[k] = elapsed[k],
           pc'[r] \notin {"sent", "200", "304"}
    PROVE  AnswersAreRecent' /\ ConfirmedOrNewer'
<1>1. AnswersAreRecent'
    BY DEF StaleInv, AnswersAreRecent
<1>2. ASSUME NEW k \in Readers, pc'[k] \in {"sent", "304"}, etag'[k] \in Versions,
             NEW d \in Copy, Has(mem, disk, url[k], d)'
      PROVE  d.ver = etag[k] \/ retired'[url[k]][d.ver] <= MaxLatency + elapsed[k]
    <2>1. k # r /\ pc[k] \in {"sent", "304"} /\ etag[k] \in Versions
        BY <1>2
    <2> QED BY <1>2, <2>1, StillConfirmedOrNewer
<1>3. ConfirmedOrNewer'
    BY <1>2 DEF ConfirmedOrNewer
<1> QED BY <1>1, <1>3

LEMMA StaleInvStep == DiskWorks /\ PageInv /\ PageInv' /\ StaleInv /\ [Next]_vars => StaleInv'
<1> SUFFICES ASSUME DiskWorks, PageInv, PageInv', StaleInv, [Next]_vars PROVE StaleInv'
    OBVIOUS
<1>1. CacheTypeOK /\ NothingFromTheFuture /\ CacheTypeOK' /\ NothingFromTheFuture'
    BY DEF PageInv
<1>2. CASE UNCHANGED vars
    BY <1>2 DEF StaleInv, CopiesAgree, FreshIsRecent, AnswersAreRecent, ConfirmedOrNewer, Has, vars
<1>3. CASE Tick
    <2>1. \A u \in Urls, v \in Versions :
            retired[u][v] \in Nat /\ retired'[u][v] \in Nat /\ retired'[u][v] <= retired[u][v] + 1
        <3>1. \A u \in Urls, v \in Versions :
                retired'[u][v] = IF v >= version[u] THEN 0
                                 ELSE IF retired[u][v] < Old THEN retired[u][v] + 1 ELSE Old
            BY <1>3 DEF Tick
        <3>2. \A u \in Urls, v \in Versions : retired[u][v] \in 0 .. Old
            BY <1>1 DEF CacheTypeOK
        <3> QED BY <3>1, <3>2, Numbers
    <2>2. /\ UNCHANGED <<pc, url, etag, got>>
          /\ \A r \in Readers : pc[r] # "idle" => elapsed'[r] = elapsed[r] + 1
        BY <1>3 DEF Tick, Running
    <2>3. \A k, c : Has(mem, disk, k, c)' =>
            \E old \in Copy : Has(mem, disk, k, old) /\ c = [old EXCEPT !.left = Dec(@)]
        BY <1>3, TickAges
    <2>4. \A u \in Urls, c \in Copy : Has(mem, disk, u, c)' =>
            \E old \in Copy :
                /\ Has(mem, disk, u, old) /\ c.ver = old.ver
                /\ c.left > 0 => old.left = c.left + 1
        BY <2>3, Numbers DEF Copy, Dec
    <2>5. CopiesAgree'
        BY <2>4 DEF StaleInv, CopiesAgree
    <2>6. FreshIsRecent'
        <3> SUFFICES ASSUME NEW u \in Urls, NEW c \in Copy, Has(mem, disk, u, c)', c.left > 0
                     PROVE  retired'[u][c.ver] + c.left <= Lag
            BY DEF FreshIsRecent
        <3>1. PICK old \in Copy :
                Has(mem, disk, u, old) /\ c.ver = old.ver /\ old.left = c.left + 1
            BY <2>4
        <3>2. retired[u][c.ver] + old.left <= Lag
            BY <1>1, <3>1, Ages DEF StaleInv, FreshIsRecent
        <3>3. c.ver \in Versions /\ c.left \in Nat /\ Lag \in Nat
            BY <1>1, Ages, Numbers
        <3> QED BY <2>1, <3>1, <3>2, <3>3
    <2>7. AnswersAreRecent'
        <3>1. \A r \in Readers : url[r] \in Urls /\ got[r] \in Versions /\ elapsed[r] \in Nat
            BY <1>1, Ages DEF CacheTypeOK
        <3> QED BY <2>1, <2>2, <3>1 DEF StaleInv, AnswersAreRecent
    <2>8. ConfirmedOrNewer'
        <3> SUFFICES ASSUME NEW r \in Readers, pc'[r] \in {"sent", "304"}, etag'[r] \in Versions,
                            NEW c \in Copy, Has(mem, disk, url[r], c)'
                     PROVE  c.ver = etag'[r] \/ retired'[url'[r]][c.ver] <= MaxLatency + elapsed'[r]
            BY DEF ConfirmedOrNewer
        <3>1. url[r] \in Urls /\ elapsed[r] \in Nat /\ MaxLatency \in Nat /\ c.ver \in Versions
            BY <1>1, Ages
        <3>2. PICK old \in Copy : Has(mem, disk, url[r], old) /\ c.ver = old.ver
            BY <2>2, <2>4, <3>1 DEF Has
        <3>3. c.ver = etag[r] \/ retired[url[r]][c.ver] <= MaxLatency + elapsed[r]
            BY <2>2, <3>2 DEF StaleInv, ConfirmedOrNewer
        <3>4. elapsed'[r] = elapsed[r] + 1
            BY <2>2
        <3> QED BY <2>1, <2>2, <3>1, <3>3, <3>4
    <2> QED BY <2>5, <2>6, <2>7, <2>8 DEF StaleInv
<1>4. ASSUME NEW u \in Urls, OriginChanges(u) PROVE StaleInv'
    BY <1>4 DEF OriginChanges, reads, StaleInv, CopiesAgree, FreshIsRecent, AnswersAreRecent,
        ConfirmedOrNewer, Has
<1>5. CASE Crash \/ \E r \in Readers : CrashBeforeRename(r) \/ CrashAfterRename(r)
    <2>1. retired' = retired /\ pc' = [r \in Readers |-> "idle"]
        BY <1>5 DEF Crash, CrashBeforeRename, CrashAfterRename, Restart, origin
    <2>2. \/ Loses
          \/ \E u \in Urls, v \in Versions :
                retired[u][v] <= MaxLatency + MaxLatency /\ Writes(u, Entry(v))
        <3>1. CASE Loses
            BY <3>1
        <3>2. ASSUME NEW r \in Readers, NEW v \in Versions, Writes(url[r], Entry(v)),
                     \/ pc[r] = "200" /\ v = got[r]
                     \/ pc[r] = "304" /\ \E c \in Copy : v = c.ver /\ Has(mem, disk, url[r], c)
              PROVE  \E u \in Urls : retired[u][v] <= MaxLatency + MaxLatency /\ Writes(u, Entry(v))
            BY <1>1, <3>2, RefreshedIsRecent, ReceivedIsRecent DEF CacheTypeOK
        <3> QED BY <1>5, <3>1, <3>2, RestartWrites
    <2>3. CopiesAgree' /\ FreshIsRecent'
        BY <2>1, <2>2, CopiesStayRecent
    <2>4. AnswersAreRecent' /\ ConfirmedOrNewer'
        BY <2>1 DEF AnswersAreRecent, ConfirmedOrNewer
    <2> QED BY <2>3, <2>4 DEF StaleInv
<1>6. ASSUME NEW r \in Readers, NEW u \in Urls, NEW b \in Works, GetFresh(r, u, b) PROVE StaleInv'
    <2>1. Loses
        BY <1>6, LookupLoses, Numbers DEF Works
    <2>2. /\ retired' = retired
          /\ pc'[r] \in {"reply", "miss"}
          /\ \A k \in Readers \ {r} :
                /\ pc'[k] = pc[k] /\ url'[k] = url[k] /\ etag'[k] = etag[k]
                /\ got'[k] = got[k] /\ elapsed'[k] = elapsed[k]
        BY <1>1, <1>6 DEF GetFresh, Go, origin, CacheTypeOK
    <2>3. CopiesAgree' /\ FreshIsRecent'
        BY <2>1, <2>2, CopiesStayRecent
    <2>4. AnswersAreRecent' /\ ConfirmedOrNewer'
        BY <2>1, <2>2, OthersStayRecent
    <2> QED BY <2>3, <2>4 DEF StaleInv
<1>7. ASSUME NEW r \in Readers, NEW b \in Works, Validators(r, b) PROVE StaleInv'
    <2> DEFINE m == lookup(mem, url[r], b)
    <2>1. Loses
        BY <1>7, LookupLoses, Numbers DEF Works
    <2>2. /\ UNCHANGED <<retired, url, got, elapsed>>
          /\ pc' = [pc EXCEPT ![r] = "sent"]
          /\ \/ TTL > 0 /\ url[r] \in DOMAIN m /\ mem' = m /\ etag' = [etag EXCEPT ![r] = m[url[r]].ver]
             \/ etag' = [etag EXCEPT ![r] = NoTag]
        BY <1>7 DEF Validators, Go, origin
    <2> HIDE DEF m
    <2>3. CopiesAgree' /\ FreshIsRecent'
        BY <2>1, <2>2, CopiesStayRecent
    <2>4. AnswersAreRecent'
        BY <1>1, <2>2 DEF StaleInv, AnswersAreRecent, CacheTypeOK
    <2>5. ASSUME NEW k \in Readers, pc'[k] \in {"sent", "304"}, etag'[k] \in Versions,
                 NEW d \in Copy, Has(mem, disk, url[k], d)'
          PROVE  d.ver = etag'[k] \/ retired'[url[k]][d.ver] <= MaxLatency + elapsed[k]
        <3>1. CASE k # r
            <4>1. pc[k] \in {"sent", "304"} /\ etag[k] \in Versions /\ etag'[k] = etag[k]
                BY <1>1, <2>2, <2>5, <3>1 DEF CacheTypeOK
            <4> QED BY <2>1, <2>2, <2>5, <4>1, StillConfirmedOrNewer
        <3>2. CASE k = r
            <4>1. url[r] \in DOMAIN mem' /\ etag'[r] = mem'[url[r]].ver
                BY <1>1, <2>2, <2>5, <3>2, Numbers, ZenonT(60) DEF CacheTypeOK
            <4>2. mem'[url[r]] \in Copy /\ Has(mem, disk, url[r], mem[url[r]])' /\ url[r] \in Urls
                BY <1>1, <2>2, <4>1 DEF CacheTypeOK, Cached, Has
            <4> QED BY <2>2, <2>3, <2>5, <3>2, <4>1, <4>2 DEF CopiesAgree
        <3> QED BY <3>1, <3>2
    <2>6. ConfirmedOrNewer'
        BY <2>2, <2>5 DEF ConfirmedOrNewer
    <2> QED BY <2>3, <2>4, <2>6 DEF StaleInv
<1>8. ASSUME NEW r \in Readers, OriginAnswers(r) PROVE StaleInv'
    <2>1. /\ UNCHANGED <<mem, disk, retired, url, etag, elapsed>> /\ pc[r] = "sent"
          /\ \/ /\ etag[r] = version[url[r]]
                /\ pc' = [pc EXCEPT ![r] = "304"] /\ got' = [got EXCEPT ![r] = 0]
             \/ pc' = [pc EXCEPT ![r] = "200"] /\ got' = [got EXCEPT ![r] = version[url[r]]]
        BY <1>8 DEF OriginAnswers, Go, origin
    <2>2. /\ url[r] \in Urls /\ version[url[r]] \in Versions /\ elapsed[r] \in Nat
          /\ retired[url[r]][version[url[r]]] = 0
        <3>1. url[r] \in Urls /\ version[url[r]] \in Versions /\ version[url[r]] >= version[url[r]]
              /\ elapsed[r] \in Nat
            BY <1>1, Numbers DEF CacheTypeOK
        <3> QED BY <1>1, <3>1 DEF NothingFromTheFuture
    <2>3. Loses
        BY <2>1 DEF Loses, Has
    <2>4. CopiesAgree' /\ FreshIsRecent'
        BY <2>1, <2>3, CopiesStayRecent
    <2>5. AnswersAreRecent'
        BY <1>1, <2>1, <2>2 DEF StaleInv, AnswersAreRecent, CacheTypeOK
    <2>6. ConfirmedOrNewer'
        BY <1>1, <2>1 DEF StaleInv, ConfirmedOrNewer, CacheTypeOK, Has
    <2> QED BY <2>4, <2>5, <2>6 DEF StaleInv
<1>9. ASSUME NEW r \in Readers, ReadFails(r) \/ Finish(r) PROVE StaleInv'
    <2>1. /\ UNCHANGED <<mem, disk, retired>>
          /\ pc'[r] \in {"failed", "idle"}
          /\ \A k \in Readers \ {r} :
                /\ pc'[k] = pc[k] /\ url'[k] = url[k] /\ etag'[k] = etag[k]
                /\ got'[k] = got[k] /\ elapsed'[k] = elapsed[k]
        BY <1>1, <1>9 DEF ReadFails, Finish, Go, origin, CacheTypeOK
    <2>2. Loses
        BY <2>1 DEF Loses, Has
    <2>3. CopiesAgree' /\ FreshIsRecent'
        BY <2>1, <2>2, CopiesStayRecent
    <2>4. AnswersAreRecent' /\ ConfirmedOrNewer'
        BY <2>1, <2>2, OthersStayRecent
    <2> QED BY <2>3, <2>4 DEF StaleInv
<1>10. ASSUME NEW r \in Readers, NEW b \in Works, NEW w \in Works, NotModified(r, b, w) PROVE StaleInv'
    <2>1. /\ retired' = retired /\ pc[r] = "304" /\ url[r] \in Urls
          /\ pc'[r] \in {"reply", "no-copy"}
          /\ \A k \in Readers \ {r} :
                /\ pc'[k] = pc[k] /\ url'[k] = url[k] /\ etag'[k] = etag[k]
                /\ got'[k] = got[k] /\ elapsed'[k] = elapsed[k]
        BY <1>1, <1>10 DEF NotModified, Go, origin, CacheTypeOK
    <2>2. CASE Loses
        <3>1. CopiesAgree' /\ FreshIsRecent'
            BY <2>1, <2>2, CopiesStayRecent
        <3>2. AnswersAreRecent' /\ ConfirmedOrNewer'
            BY <2>1, <2>2, OthersStayRecent
        <3> QED BY <3>1, <3>2 DEF StaleInv
    <2>3. ASSUME NEW c \in Copy, Has(mem, disk, url[r], c), Writes(url[r], Entry(c.ver)) PROVE StaleInv'
        <3>1. c.ver \in Versions /\ retired[url[r]][c.ver] <= MaxLatency + MaxLatency
            BY <1>1, <2>1, <2>3, RefreshedIsRecent, Ages
        <3>2. CopiesAgree' /\ FreshIsRecent'
            BY <2>1, <2>3, <3>1, CopiesStayRecent
        <3>3. AnswersAreRecent' /\ ConfirmedOrNewer'
            BY <2>1, <2>3, <3>1, OthersStayRecent
        <3> QED BY <3>2, <3>3 DEF StaleInv
    <2> QED BY <1>10, <2>2, <2>3, NotModifiedWrites
<1>11. ASSUME NEW r \in Readers, NEW w \in Works, Store(r, w) PROVE StaleInv'
    <2>1. /\ retired' = retired /\ pc[r] = "200" /\ url[r] \in Urls
          /\ pc'[r] = "reply"
          /\ \A k \in Readers \ {r} :
                /\ pc'[k] = pc[k] /\ url'[k] = url[k] /\ etag'[k] = etag[k]
                /\ got'[k] = got[k] /\ elapsed'[k] = elapsed[k]
        BY <1>1, <1>11 DEF Store, Go, origin, CacheTypeOK
    <2>2. /\ got[r] \in Versions
          /\ retired[url[r]][got[r]] <= MaxLatency
          /\ retired[url[r]][got[r]] <= MaxLatency + MaxLatency
        BY <2>1, ReceivedIsRecent
    <2>3. Loses \/ Writes(url[r], Entry(got[r]))
        BY <1>11, StoreWrites
    <2>4. CopiesAgree' /\ FreshIsRecent'
        BY <2>1, <2>2, <2>3, CopiesStayRecent
    <2>5. AnswersAreRecent' /\ ConfirmedOrNewer'
        BY <2>1, <2>2, <2>3, OthersStayRecent
    <2> QED BY <2>4, <2>5 DEF StaleInv
<1> QED BY <1>2, <1>3, <1>4, <1>5, <1>6, <1>7, <1>8, <1>9, <1>10, <1>11 DEF Next

(***************************************************************************)
(* While the disk works, memory and disk agree and what is fresh, received *)
(* or confirmed is as recent as StaleInv says.                             *)
(***************************************************************************)
THEOREM StaleInvariant == ASSUME DiskWorks PROVE Spec => []StaleInv
<1>1. PageInv /\ PageInv' /\ StaleInv /\ [Next]_vars => StaleInv'
    BY StaleInvStep
<1> QED BY PageInvariant, StaleInvInit, <1>1, PTL DEF Spec

-----------------------------------------------------------------------------
(* The answers of reads, and the abstract cache.                            *)

\* An answer that is given is recent, whichever way it was found.
LEMMA ReplyIsRecent ==
    ASSUME DiskWorks, PageInv, PageInv', StaleInv, Next,
           NEW r \in Readers, pc'[r] = "reply", pc[r] # "reply"
    PROVE  retired[url'[r]][got'[r]] <= Lag
<1>1. CacheTypeOK /\ CacheTypeOK'
    BY DEF PageInv
<1>2. \A u \in Urls, v \in Versions :
        retired[u][v] <= MaxLatency + MaxLatency => retired[u][v] <= Lag
    BY <1>1, Ages
<1>3. ASSUME NEW k \in Readers, NEW u \in Urls, NEW b \in Works, GetFresh(k, u, b)
      PROVE  retired[url'[r]][got'[r]] <= Lag
    <2> DEFINE m == lookup(mem, u, b)
    <2>1. k = r /\ u \in DOMAIN m /\ m[u].left > 0 /\ url'[r] = u /\ got'[r] = m[u].ver
        BY <1>1, <1>3 DEF GetFresh, isFresh, Go, CacheTypeOK
    <2>2. Cached(m) /\ \A i, c : Has(m, disk, i, c) => Has(mem, disk, i, c)
        BY LookupKeeps, Numbers DEF PageInv, CacheTypeOK, Budgets, Works
    <2>3. m[u] \in Copy /\ Has(mem, disk, u, m[u])
        BY <2>1, <2>2 DEF Cached, Has
    <2>4. retired[u][m[u].ver] + m[u].left <= Lag
        BY <2>1, <2>3 DEF StaleInv, FreshIsRecent
    <2> HIDE DEF m
    <2>5. retired[u][m[u].ver] \in Nat /\ m[u].left \in Nat /\ Lag \in Nat
        BY <1>1, <2>3, Ages, Numbers
    <2> QED BY <2>1, <2>4, <2>5
<1>4. ASSUME NEW k \in Readers, NEW b \in Works, NEW w \in Works, NotModified(k, b, w)
      PROVE  retired[url'[r]][got'[r]] <= Lag
    <2>1. k = r /\ pc[r] = "304" /\ url' = url /\ url[r] \in Urls
        BY <1>1, <1>4 DEF NotModified, Go, CacheTypeOK
    <2>2. PICK c \in Copy : Has(mem, disk, url[r], c) /\ got' = [got EXCEPT ![r] = c.ver]
        <3>1. pc' # [pc EXCEPT ![r] = "no-copy"]
            BY <1>1 DEF CacheTypeOK
        <3> QED BY <1>4, <2>1, <3>1, NotModifiedWrites
    <2>3. retired[url[r]][c.ver] <= MaxLatency + MaxLatency /\ c.ver \in Versions
        BY <2>1, <2>2, RefreshedIsRecent DEF Copy
    <2> QED BY <1>1, <1>2, <2>1, <2>2, <2>3 DEF CacheTypeOK
<1>5. ASSUME NEW k \in Readers, NEW w \in Works, Store(k, w)
      PROVE  retired[url'[r]][got'[r]] <= Lag
    <2>1. k = r /\ pc[r] = "200" /\ UNCHANGED <<url, got>> /\ url[r] \in Urls
        BY <1>1, <1>5 DEF Store, Go, CacheTypeOK
    <2> QED BY <1>2, <2>1, ReceivedIsRecent
<1>6. CASE Crash \/ \E k \in Readers : CrashBeforeRename(k) \/ CrashAfterRename(k)
    BY <1>6 DEF Crash, CrashBeforeRename, CrashAfterRename, Restart
<1>7. CASE Tick \/ \E u \in Urls : OriginChanges(u)
    BY <1>7 DEF Tick, OriginChanges, reads
<1>8. ASSUME NEW k \in Readers,
             \/ \E b \in Works : Validators(k, b)
             \/ OriginAnswers(k) \/ ReadFails(k) \/ Finish(k)
      PROVE  FALSE
    BY <1>1, <1>8 DEF Validators, OriginAnswers, ReadFails, Finish, Go, CacheTypeOK
<1> QED BY <1>3, <1>4, <1>5, <1>6, <1>7, <1>8 DEF Next

(***************************************************************************)
(* While the disk works, no page that is returned had been replaced at its *)
(* origin for longer than the TTL and two reads' durations.                *)
(***************************************************************************)
THEOREM StalenessIsBounded == ASSUME DiskWorks PROVE Spec => BoundedStaleness
<1>1. PageInv /\ PageInv' /\ StaleInv /\ [Next]_vars =>
        [\A r \in Readers : pc'[r] = "reply" /\ pc[r] # "reply" =>
            retired[url'[r]][got'[r]] <= Lag]_vars
    BY ReplyIsRecent
<1> QED BY PageInvariant, StaleInvariant, <1>1, PTL DEF Spec, BoundedStaleness

\* What PageReads sees of a read.
Asked == [r \in Readers |-> IF pc[r] = "idle" THEN "nothing" ELSE url[r]]
Answered ==
    [r \in Readers |->
        CASE pc[r] = "reply" -> <<got[r]>>
          [] pc[r] \in {"failed", "no-copy"} -> <<MaxVersion + 1>>
          [] OTHER -> <<>>]

LEMMA AnsweredIs ==
    ASSUME NEW r \in Readers
    PROVE  /\ pc[r] = "reply" => Answered[r] = <<got[r]>>
           /\ pc[r] \in {"failed", "no-copy"} => Answered[r] = <<MaxVersion + 1>>
           /\ pc[r] \notin {"reply", "failed", "no-copy"} => Answered[r] = <<>>
BY DEF Answered

\* One read moves: what it shows changes, what the others show does not.
LEMMA OneReadMoves ==
    ASSUME CacheTypeOK, NEW r \in Readers,
           \A k \in Readers \ {r} : pc'[k] = pc[k] /\ url'[k] = url[k] /\ got'[k] = got[k]
    PROVE  /\ Asked' = [Asked EXCEPT ![r] = IF pc'[r] = "idle" THEN "nothing" ELSE url'[r]]
           /\ pc'[r] = "reply" => Answered' = [Answered EXCEPT ![r] = <<got'[r]>>]
           /\ pc'[r] \in {"failed", "no-copy"} =>
                Answered' = [Answered EXCEPT ![r] = <<MaxVersion + 1>>]
           /\ pc'[r] \notin {"reply", "failed", "no-copy"} =>
                Answered' = [Answered EXCEPT ![r] = <<>>]
<1>1. Asked' = [Asked EXCEPT ![r] = IF pc'[r] = "idle" THEN "nothing" ELSE url'[r]]
    BY DEF Asked
<1>2. Answered' = [Answered EXCEPT ![r] =
        CASE pc'[r] = "reply" -> <<got'[r]>>
          [] pc'[r] \in {"failed", "no-copy"} -> <<MaxVersion + 1>>
          [] OTHER -> <<>>]
    BY DEF Answered
<1> QED BY <1>1, <1>2

LEMMA RefinesInit == Init => Reads!Init
<1> SUFFICES ASSUME Init PROVE Reads!Init
    OBVIOUS
<1>1. Asked = [r \in Readers |-> "nothing"] /\ Answered = [r \in Readers |-> <<>>]
    BY DEF Init, Asked, Answered
<1> QED BY <1>1 DEF Init, Asked, Answered, Versions, Reads!Init, Reads!Nothing, Reads!Versions

\* Each action is an abstract one or a stutter.
LEMMA RefinesStep ==
    DiskWorks /\ PageInv /\ PageInv' /\ StaleInv /\ [Next]_vars => [Reads!Next]_(Reads!vars)
<1> SUFFICES ASSUME DiskWorks, PageInv, PageInv', StaleInv, [Next]_vars
             PROVE  [Reads!Next]_(Reads!vars)
    OBVIOUS
<1>1. CacheTypeOK /\ NothingFromTheFuture /\ CacheTypeOK' /\ NothingFromTheFuture'
    BY DEF PageInv
<1>2. \A r \in Readers : url[r] \in Urls /\ url[r] # "nothing" /\ url'[r] # "nothing"
    BY <1>1, PageCacheAssumption DEF CacheTypeOK
<1>3. \A r \in Readers :
        /\ Asked[r] = IF pc[r] = "idle" THEN "nothing" ELSE url[r]
        /\ pc[r] = "reply" => Answered[r] = <<got[r]>>
        /\ pc[r] \in {"failed", "no-copy"} => Answered[r] = <<MaxVersion + 1>>
        /\ pc[r] \notin {"reply", "failed", "no-copy"} => Answered[r] = <<>>
    BY AnsweredIs DEF Asked
<1>4. ASSUME UNCHANGED <<version, retired, Asked, Answered>> PROVE [Reads!Next]_(Reads!vars)
    BY <1>4 DEF Reads!vars, Asked, Answered
<1>5. ASSUME NEW r \in Readers, pc'[r] = "reply", pc[r] # "reply", Next
      PROVE  got'[r] \in 0 .. version'[url'[r]] /\ retired[url'[r]][got'[r]] <= Lag
    <2>1. got'[r] <= version'[url'[r]] /\ got'[r] \in Versions /\ version'[url'[r]] \in Versions
        BY <1>1, <1>5 DEF NothingFromTheFuture, CacheTypeOK
    <2> QED BY <1>5, <2>1, ReplyIsRecent, Numbers
<1>6. CASE UNCHANGED vars
    BY <1>4, <1>6 DEF vars, Asked, Answered
<1>7. CASE Tick
    <2>1. UNCHANGED <<version, Asked, Answered>>
        BY <1>7 DEF Tick, Asked, Answered
    <2>2. retired' = [u \in Urls |-> [v \in Versions |->
                        IF v >= version[u] THEN 0
                        ELSE IF retired[u][v] > Lag THEN retired[u][v] ELSE retired[u][v] + 1]]
        <3>1. \A u \in Urls, v \in Versions :
                (IF retired[u][v] < Old THEN retired[u][v] + 1 ELSE Old) =
                (IF retired[u][v] > Lag THEN retired[u][v] ELSE retired[u][v] + 1)
            <4>1. \A u \in Urls, v \in Versions : retired[u][v] \in 0 .. Old
                BY <1>1 DEF CacheTypeOK
            <4>2. Lag \in Nat /\ Old = Lag + 1
                BY Numbers
            <4> QED BY <4>1, <4>2
        <3> QED BY <1>7, <3>1 DEF Tick
    <2>3. Reads!Tick
        BY <2>1, <2>2 DEF Reads!Tick, Reads!Versions, Versions, Asked, Answered
    <2> QED BY <2>3 DEF Reads!Next
<1>8. ASSUME NEW u \in Urls, OriginChanges(u) PROVE [Reads!Next]_(Reads!vars)
    <2>1. UNCHANGED <<retired, Asked, Answered>>
        BY <1>8 DEF OriginChanges, reads, Asked, Answered
    <2>2. Reads!OriginChanges(u) /\ u \in Changing
        BY <1>8, <2>1 DEF OriginChanges, Reads!OriginChanges, Asked, Answered
    <2> QED BY <2>2 DEF Reads!Next
<1>9. CASE Crash \/ \E r \in Readers : CrashBeforeRename(r) \/ CrashAfterRename(r)
    <2>1. UNCHANGED <<version, retired>> /\ pc' = [r \in Readers |-> "idle"]
        BY <1>9 DEF Crash, CrashBeforeRename, CrashAfterRename, Restart, origin
    <2>2. Asked' = [r \in Readers |-> "nothing"] /\ Answered' = [r \in Readers |-> <<>>]
        BY <2>1 DEF Asked, Answered
    <2>3. Reads!Restart
        BY <2>1, <2>2 DEF Reads!Restart, Reads!Nothing, Asked, Answered
    <2> QED BY <2>3 DEF Reads!Next
<1>10. ASSUME NEW r \in Readers, NEW u \in Urls, NEW b \in Works, GetFresh(r, u, b)
       PROVE  [Reads!Next]_(Reads!vars)
    <2>1. /\ pc[r] = "idle" /\ UNCHANGED <<version, retired>> /\ url'[r] = u
          /\ pc'[r] \in {"reply", "miss"}
          /\ \A k \in Readers \ {r} : pc'[k] = pc[k] /\ url'[k] = url[k] /\ got'[k] = got[k]
        BY <1>1, <1>10 DEF GetFresh, Go, origin, CacheTypeOK
    <2>2. Asked[r] = "nothing" /\ Answered[r] = <<>> /\ Asked' = [Asked EXCEPT ![r] = u]
        BY <1>1, <1>3, <2>1, OneReadMoves
    <2>3. CASE pc'[r] = "reply"
        <3>1. Answered' = [Answered EXCEPT ![r] = <<got'[r]>>]
            BY <1>1, <2>1, <2>3, OneReadMoves
        <3>2. got'[r] \in Reads!Recent(u)
            BY <1>5, <1>10, <2>1, <2>3 DEF Reads!Recent, Next
        <3>3. Reads!ReplyAtOnce(r, u)
            BY <2>1, <2>2, <3>1, <3>2 DEF Reads!ReplyAtOnce, Reads!Nothing, Asked, Answered
        <3> QED BY <3>3 DEF Reads!Next
    <2>4. CASE pc'[r] = "miss"
        <3>1. Answered' = [Answered EXCEPT ![r] = <<>>]
            BY <1>1, <2>1, <2>4, OneReadMoves
        <3>2. Answered' = Answered
            BY <2>2, <3>1 DEF Answered
        <3>3. Reads!Ask(r, u)
            BY <2>1, <2>2, <3>2 DEF Reads!Ask, Reads!Nothing, Asked, Answered
        <3> QED BY <3>3 DEF Reads!Next
    <2> QED BY <2>1, <2>3, <2>4
<1>11. ASSUME NEW r \in Readers, OriginAnswers(r) \/ \E b \in Works : Validators(r, b)
       PROVE  [Reads!Next]_(Reads!vars)
    <2>1. /\ pc[r] \in {"miss", "sent"} /\ pc'[r] \in {"sent", "304", "200"} /\ url' = url
          /\ UNCHANGED <<version, retired>>
          /\ \A k \in Readers \ {r} : pc'[k] = pc[k] /\ url'[k] = url[k] /\ got'[k] = got[k]
        BY <1>1, <1>11 DEF OriginAnswers, Validators, Go, origin, CacheTypeOK
    <2>2. Asked' = [Asked EXCEPT ![r] = Asked[r]] /\ Answered' = [Answered EXCEPT ![r] = Answered[r]]
        BY <1>1, <1>3, <2>1, OneReadMoves
    <2>3. Asked' = Asked /\ Answered' = Answered
        BY <2>2 DEF Asked, Answered
    <2> QED BY <1>4, <2>1, <2>3
<1>12. ASSUME NEW r \in Readers, pc[r] \in {"sent", "304", "200"}, UNCHANGED <<version, retired, url>>,
              pc'[r] \in {"reply", "failed", "no-copy"}, Next,
              \A k \in Readers \ {r} : pc'[k] = pc[k] /\ got'[k] = got[k]
       PROVE  [Reads!Next]_(Reads!vars)
    <2>1. Asked[r] # "nothing" /\ Answered[r] = <<>> /\ Asked' = [Asked EXCEPT ![r] = Asked[r]]
          /\ Asked[r] = url[r]
        BY <1>1, <1>2, <1>3, <1>12, OneReadMoves
    <2>2. Asked' = Asked
        BY <2>1 DEF Asked
    <2>3. CASE pc'[r] = "reply"
        <3>1. Answered' = [Answered EXCEPT ![r] = <<got'[r]>>]
            BY <1>1, <1>12, <2>3, OneReadMoves
        <3>2. got'[r] \in Reads!Recent(url[r])
            BY <1>5, <1>12, <2>3 DEF Reads!Recent
        <3>3. Reads!Reply(r)
            BY <1>12, <2>1, <2>2, <3>1, <3>2 DEF Reads!Reply, Reads!Nothing, Asked, Answered
        <3> QED BY <3>3 DEF Reads!Next
    <2>4. CASE pc'[r] \in {"failed", "no-copy"}
        <3>1. Answered' = [Answered EXCEPT ![r] = <<MaxVersion + 1>>]
            BY <1>1, <1>12, <2>4, OneReadMoves
        <3>2. Reads!Fail(r)
            BY <1>12, <2>1, <2>2, <3>1 DEF Reads!Fail, Reads!Nothing, Reads!Failure, Asked, Answered
        <3> QED BY <3>2 DEF Reads!Next
    <2> QED BY <1>12, <2>3, <2>4
<1>13. ASSUME NEW r \in Readers, ReadFails(r) PROVE [Reads!Next]_(Reads!vars)
    BY <1>1, <1>12, <1>13 DEF ReadFails, Go, origin, CacheTypeOK, Next
<1>14. ASSUME NEW r \in Readers, NEW b \in Works, NEW w \in Works, NotModified(r, b, w)
       PROVE  [Reads!Next]_(Reads!vars)
    BY <1>1, <1>12, <1>14 DEF NotModified, Go, origin, CacheTypeOK, Next
<1>15. ASSUME NEW r \in Readers, NEW w \in Works, Store(r, w) PROVE [Reads!Next]_(Reads!vars)
    BY <1>1, <1>12, <1>15 DEF Store, Go, origin, CacheTypeOK, Next
<1>16. ASSUME NEW r \in Readers, Finish(r) PROVE [Reads!Next]_(Reads!vars)
    <2>1. /\ pc[r] \in {"reply", "failed", "no-copy"} /\ pc'[r] = "idle"
          /\ UNCHANGED <<version, retired>>
          /\ \A k \in Readers \ {r} : pc'[k] = pc[k] /\ url'[k] = url[k] /\ got'[k] = got[k]
        BY <1>1, <1>16 DEF Finish, Go, origin, CacheTypeOK
    <2>2. /\ Answered[r] # <<>> /\ Asked' = [Asked EXCEPT ![r] = "nothing"]
          /\ Answered' = [Answered EXCEPT ![r] = <<>>]
        BY <1>1, <1>3, <2>1, OneReadMoves
    <2>3. Reads!Return(r)
        BY <2>1, <2>2 DEF Reads!Return, Reads!Nothing, Asked, Answered
    <2> QED BY <2>3 DEF Reads!Next
<1> QED BY <1>6, <1>7, <1>8, <1>9, <1>10, <1>11, <1>13, <1>14, <1>15, <1>16 DEF Next

(***************************************************************************)
(* While the disk works, the cache implements PageReads: to their callers  *)
(* the concurrent reads, revalidations and restarts are atomic reads of    *)
(* pages of bounded age.                                                   *)
(***************************************************************************)
THEOREM CacheImplementsReads == ASSUME DiskWorks PROVE Spec => ReadsAreRecent
<1>1. PageInv /\ PageInv' /\ StaleInv /\ [Next]_vars => [Reads!Next]_(Reads!vars)
    BY RefinesStep
<1> QED BY PageInvariant, StaleInvariant, RefinesInit, <1>1, PTL DEF Spec, ReadsAreRecent, Reads!Spec
=============================================================================
