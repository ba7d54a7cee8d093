------------------------------ MODULE PageCache ------------------------------
(***************************************************************************)
(* internal/reader/cache.go, diskcache.go and the caching half of          *)
(* fetchGenericHTMLAsMarkdown: rendered pages kept in memory and, when a    *)
(* cache directory is set, in files that survive the process.              *)
(*                                                                         *)
(* Each pageCache method runs under c.mu, disk access included, so it is   *)
(* one action; between getFresh, validators, the conditional GET and       *)
(* refresh or store no lock is held. Only one process uses the directory.  *)
(*                                                                         *)
(* A page is its version at the origin, which is also its validator (ETag  *)
(* or Last-Modified). An entry's `left` is the time until `expires`, 0     *)
(* once it has passed. Every write of a page file sets its `left` to TTL,  *)
(* so of the live files the oldest are those with the least left.          *)
(***************************************************************************)
EXTENDS Naturals, FiniteSets, Functions

CONSTANTS
    Urls,
    SizeOf,       \* rendered size of each URL's page
    Readers,      \* concurrent reads
    TTL,          \* c.ttl in ticks; 0 disables the cache
    MaxEntries,   \* maxPageCacheEntries
    MaxBytes,     \* maxPageCacheBytes
    UseDir,       \* whether a cache directory is set
    MaxDisk,      \* maxDiskCacheEntries
    DiskFaults,   \* whether reading, writing and pruning the disk may fail
    Changing,     \* the URLs whose page changes at the origin
    MaxVersion,   \* bound: changes of such a page
    MaxLatency,   \* read_timeout in ticks: no read lasts longer
    MaxRestarts   \* bound: process restarts in one behaviour

ASSUME PageCacheAssumption ==
    /\ Urls # {} /\ "nothing" \notin Urls /\ \A u \in Urls : SizeOf[u] \in Nat
    /\ TTL \in Nat /\ MaxEntries \in Nat \ {0} /\ MaxBytes \in Nat
    /\ {UseDir, DiskFaults} \subseteq BOOLEAN /\ Changing \subseteq Urls
    /\ MaxDisk \in Nat \ {0}
    /\ MaxVersion \in Nat /\ MaxLatency \in Nat /\ MaxRestarts \in Nat

VARIABLES
    mem,       \* c.entries: URL -> [ver, left]
    disk,      \* page files: URL -> [ver, left]
    orphans,   \* .page-cache-*.tmp files left by a crash inside persist
    version,   \* what the origin serves now
    retired,   \* time since each version was replaced, capped at Old
    pc,        \* control point of each read
    url,       \* the URL it reads
    etag,      \* the validator it sent, or NoTag
    got,       \* the version it returns, or received
    elapsed,   \* how long it has been running
    restarts

vars == <<mem, disk, orphans, version, retired, pc, url, etag, got, elapsed, restarts>>
reads == <<pc, url, etag, got, elapsed>>
origin == <<version, retired>>

Versions == 0 .. MaxVersion
NoTag == MaxVersion + 1
NoUrl == CHOOSE u \in Urls : TRUE  \* of a reader that reads nothing
Lag == TTL + 2 * MaxLatency
Old == Lag + 1

Init ==
    /\ mem = <<>> \* the function with an empty domain
    /\ disk = <<>>
    /\ orphans = 0
    /\ version = [u \in Urls |-> 0]
    /\ retired = [u \in Urls |-> [v \in Versions |-> 0]]
    /\ pc = [r \in Readers |-> "idle"]
    /\ url = [r \in Readers |-> NoUrl]
    /\ etag = [r \in Readers |-> NoTag]
    /\ got = [r \in Readers |-> 0]
    /\ elapsed = [r \in Readers |-> 0]
    /\ restarts = 0

-----------------------------------------------------------------------------
(* The cache's own operations.                                             *)

\* The bytes of the pages at urls.
BytesOf(urls) == UNION {{u} \X (1 .. SizeOf[u]) : u \in urls}
Bytes(urls) == Cardinality(BytesOf(urls))

\* Mutant: the new page's own size is not counted.
makeRoom_ForgetsNew(m, u) ==
    LET kept == {k \in DOMAIN m \ {u} : m[k].left > 0} IN
    IF Cardinality(kept) >= MaxEntries \/ Bytes(kept) > MaxBytes
    THEN {} ELSE kept

\* makeRoom: the entries of m that stay when u is about to be inserted.
makeRoom(m, u) ==
    LET kept == {k \in DOMAIN m \ {u} : m[k].left > 0} IN
    IF Cardinality(kept) >= MaxEntries \/ SizeOf[u] + Bytes(kept) > MaxBytes
    THEN {} ELSE kept

\* f with entry for u.
Put(f, u, entry) == [k \in DOMAIN f \cup {u} |-> IF k = u THEN entry ELSE f[k]]

Insert(m, u, entry) == Put(Restrict(m, makeRoom(m, u)), u, entry)

\* loadFromDisk: pull a persisted page, fresh or stale, into memory. Reading
\* is best-effort: `readable` says whether it works this time.
loadFromDisk(m, u, readable) ==
    IF UseDir /\ readable /\ u \in DOMAIN disk /\ SizeOf[u] <= MaxBytes
    THEN Insert(m, u, disk[u])
    ELSE m

\* lookup: the in-memory map after looking u up.
lookup(m, u, readable) ==
    IF u \in DOMAIN m THEN m ELSE loadFromDisk(m, u, readable)

Live(d) == {u \in DOMAIN d : d[u].left > 0}

\* Mutant: pruning only drops expired files.
pruneDiskCache_ExpiredOnly(d) == {Restrict(d, Live(d))}

\* pruneDiskCache: the files of d that may be left once the expired ones and
\* then the oldest over the cap are removed; files of one tick tie.
pruneDiskCache(d) ==
    LET Kept == IF Cardinality(Live(d)) <= MaxDisk THEN {Live(d)}
                ELSE {S \in SUBSET Live(d) :
                        /\ Cardinality(S) = MaxDisk
                        /\ \A u \in S, old \in Live(d) \ S : d[old].left <= d[u].left}
    IN  {Restrict(d, S) : S \in Kept} \cup (IF DiskFaults THEN {d} ELSE {})

\* persist, up to what may be on disk: the new file replaces the old one;
\* over the cap (leftover temporary files count) the directory is pruned.
persist(u, entry, writable) ==
    LET d == Put(disk, u, entry) IN
    IF ~UseDir \/ ~writable THEN {disk}
    ELSE IF Cardinality(DOMAIN d) + orphans > MaxDisk THEN pruneDiskCache(d) ELSE {d}

-----------------------------------------------------------------------------
(* fetchGenericHTMLAsMarkdown.                                             *)

Go(r, to) == pc' = [pc EXCEPT ![r] = to]

\* Mutant: expiry is not looked at.
isFresh_AnyAge(m, u) == u \in DOMAIN m

isFresh(m, u) == u \in DOMAIN m /\ m[u].left > 0

\* getFresh.
GetFresh(r, u, readable) ==
    LET m == lookup(mem, u, readable) IN
    /\ pc[r] = "idle"
    /\ url' = [url EXCEPT ![r] = u]
    /\ IF TTL > 0 /\ isFresh(m, u)
       THEN Go(r, "reply") /\ got' = [got EXCEPT ![r] = m[u].ver]
       ELSE Go(r, "miss") /\ UNCHANGED got
    /\ mem' = IF TTL > 0 THEN m ELSE mem
    /\ UNCHANGED <<disk, orphans, origin, etag, elapsed, restarts>>

\* validators, then the request goes out.
Validators(r, readable) ==
    LET m == lookup(mem, url[r], readable) IN
    /\ pc[r] = "miss"
    /\ Go(r, "sent")
    /\ etag' = [etag EXCEPT ![r] =
                    IF TTL > 0 /\ url[r] \in DOMAIN m THEN m[url[r]].ver ELSE NoTag]
    /\ mem' = IF TTL > 0 THEN m ELSE mem
    /\ UNCHANGED <<disk, orphans, origin, url, got, elapsed, restarts>>

\* The origin answers: 304 when the validator is current, 200 otherwise.
OriginAnswers(r) ==
    /\ pc[r] = "sent"
    /\ Go(r, IF etag[r] = version[url[r]] THEN "304" ELSE "200")
    /\ got' = [got EXCEPT ![r] = IF etag[r] = version[url[r]] THEN 0 ELSE version[url[r]]]
    /\ UNCHANGED <<mem, disk, orphans, origin, url, etag, elapsed, restarts>>

\* The request fails, or its status or body is refused.
ReadFails(r) ==
    /\ pc[r] \in {"sent", "200"}
    /\ Go(r, "failed")
    /\ UNCHANGED <<mem, disk, orphans, origin, url, etag, got, elapsed, restarts>>

\* A 304: refresh, or "server answered 304 but no cached copy exists".
NotModified(r, readable, writable) ==
    LET u == url[r]
        m == lookup(mem, u, readable)
        entry == [ver |-> m[u].ver, left |-> TTL]
    IN
    /\ pc[r] = "304"
    /\ IF TTL > 0 /\ u \in DOMAIN m
       THEN /\ mem' = [m EXCEPT ![u] = entry]
            /\ disk' \in persist(u, entry, writable)
            /\ got' = [got EXCEPT ![r] = entry.ver]
            /\ Go(r, "reply")
       ELSE /\ Go(r, "no-copy")
            /\ UNCHANGED <<mem, disk, got>>
    /\ UNCHANGED <<orphans, origin, url, etag, elapsed, restarts>>

\* A 200: render and store.
Store(r, writable) ==
    LET u == url[r]
        entry == [ver |-> got[r], left |-> TTL]
    IN
    /\ pc[r] = "200"
    /\ IF TTL > 0 /\ SizeOf[u] <= MaxBytes
       THEN /\ mem' = Insert(mem, u, entry)
            /\ disk' \in persist(u, entry, writable)
       ELSE UNCHANGED <<mem, disk>>
    /\ Go(r, "reply")
    /\ UNCHANGED <<orphans, origin, url, etag, got, elapsed, restarts>>

\* The read returns to its caller; its locals are gone.
Finish(r) ==
    /\ pc[r] \in {"reply", "failed", "no-copy"}
    /\ Go(r, "idle")
    /\ url' = [url EXCEPT ![r] = NoUrl]
    /\ etag' = [etag EXCEPT ![r] = NoTag]
    /\ got' = [got EXCEPT ![r] = 0]
    /\ elapsed' = [elapsed EXCEPT ![r] = 0]
    /\ UNCHANGED <<mem, disk, orphans, origin, restarts>>

-----------------------------------------------------------------------------
(* The environment.                                                        *)

OriginChanges(u) ==
    /\ u \in Changing
    /\ version[u] < MaxVersion
    /\ version' = [version EXCEPT ![u] = @ + 1]
    /\ UNCHANGED <<mem, disk, orphans, retired, reads, restarts>>

\* The process dies and a new one starts with an empty map: every read is
\* gone, and SetPageCacheDir prunes what the directory holds, d.
Restart(d) ==
    /\ restarts < MaxRestarts
    /\ restarts' = restarts + 1
    /\ mem' = <<>>
    /\ disk' \in IF UseDir THEN pruneDiskCache(d) ELSE {d}
    /\ pc' = [r \in Readers |-> "idle"]
    /\ url' = [r \in Readers |-> NoUrl]
    /\ etag' = [r \in Readers |-> NoTag]
    /\ got' = [r \in Readers |-> 0]
    /\ elapsed' = [r \in Readers |-> 0]
    /\ UNCHANGED origin

\* It dies outside persist.
Crash == Restart(disk) /\ UNCHANGED orphans

\* It dies inside persist before the rename: the temporary file stays.
CrashBeforeRename(r) ==
    /\ UseDir /\ TTL > 0 /\ pc[r] \in {"304", "200"}
    /\ orphans' = orphans + 1
    /\ Restart(disk)

\* It dies inside persist after the rename: the new file is there, unpruned.
CrashAfterRename(r) ==
    LET u == url[r]
        ver == IF pc[r] = "200" THEN got[r] ELSE lookup(mem, u, TRUE)[u].ver
    IN
    /\ UseDir /\ TTL > 0
    /\ \/ pc[r] = "200" /\ SizeOf[u] <= MaxBytes
       \/ pc[r] = "304" /\ u \in DOMAIN lookup(mem, u, TRUE)
    /\ Restart(Put(disk, u, [ver |-> ver, left |-> TTL]))
    /\ UNCHANGED orphans

Dec(n) == IF n > 0 THEN n - 1 ELSE 0
Running == {r \in Readers : pc[r] # "idle"}

\* Time passes, but no read outlives its timeout.
Tick ==
    /\ \A r \in Running : elapsed[r] < MaxLatency
    /\ mem' = [u \in DOMAIN mem |-> [mem[u] EXCEPT !.left = Dec(@)]]
    /\ disk' = [u \in DOMAIN disk |-> [disk[u] EXCEPT !.left = Dec(@)]]
    /\ retired' = [u \in Urls |-> [v \in Versions |->
                    IF v >= version[u] THEN 0
                    ELSE IF retired[u][v] < Old THEN retired[u][v] + 1 ELSE Old]]
    /\ elapsed' = [r \in Readers |-> IF r \in Running THEN elapsed[r] + 1 ELSE 0]
    /\ UNCHANGED <<orphans, version, pc, url, etag, got, restarts>>

\* The outcomes of one best-effort disk access.
Works == IF DiskFaults THEN BOOLEAN ELSE {TRUE}

Next ==
    \/ Tick
    \/ \E u \in Urls : OriginChanges(u)
    \/ Crash
    \/ \E r \in Readers : CrashBeforeRename(r) \/ CrashAfterRename(r)
    \/ \E r \in Readers :
        \/ \E u \in Urls, b \in Works : GetFresh(r, u, b)
        \/ \E b \in Works : Validators(r, b)
        \/ OriginAnswers(r)
        \/ ReadFails(r)
        \/ \E b, w \in Works : NotModified(r, b, w)
        \/ \E w \in Works : Store(r, w)
        \/ Finish(r)

Spec == Init /\ [][Next]_vars

-----------------------------------------------------------------------------
(***************************************************************************)
(* Every budget holds whatever mix of network stores and disk loads filled  *)
(* the map, and however many crashes cut a write short or left a temporary  *)
(* file behind: entries and bytes in memory, page files in the directory.   *)
(***************************************************************************)
BudgetsHold ==
    /\ Cardinality(DOMAIN mem) <= MaxEntries
    /\ Bytes(DOMAIN mem) <= MaxBytes
    /\ ~DiskFaults => Cardinality(DOMAIN disk) <= MaxDisk

(***************************************************************************)
(* A page that is returned was current at its origin at most TTL plus two  *)
(* reads' durations ago: caching, revalidation and persistence together    *)
(* never make it older (cache.go:8). Two, because a 304 may refresh the    *)
(* page a slower read has stored since its validators were sent.           *)
(***************************************************************************)
BoundedStaleness ==
    [][\A r \in Readers : pc'[r] = "reply" /\ pc[r] # "reply" =>
        retired[url'[r]][got'[r]] <= Lag]_vars

(***************************************************************************)
(* The cache, its disk, the conditional requests and the crashes are hidden *)
(* from callers: to them the reads are those of PageReads, each an atomic   *)
(* read of a version at most Lag old, failed disk accesses aside (cache.go:8,*)
(* the entry's expiry; reader.go:253-287, the read that uses it).           *)
(***************************************************************************)
Reads == INSTANCE PageReads WITH
    asked <- [r \in Readers |-> IF pc[r] = "idle" THEN "nothing" ELSE url[r]],
    answer <- [r \in Readers |->
        CASE pc[r] = "reply" -> <<got[r]>>
          [] pc[r] \in {"failed", "no-copy"} -> <<MaxVersion + 1>>
          [] OTHER -> <<>>]

ReadsAreRecent == Reads!Spec
=============================================================================
