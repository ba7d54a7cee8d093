# A TLA+ development of search-mcp

search-mcp (`src/`) is a Go MCP server and CLI that searches the web through some
seventeen backends and reads pages as Markdown. Its interesting logic is what
stands between a tool call and the web: per-provider circuit breakers, retries and
caches, a fallback chain and a concurrent fan-out, paging and block detection in
the backends, site readers that assemble a page from several APIs, a page cache
that survives restarts, a transport that shares HTTP/2 connections, and a proof-of-work
solver that races goroutines.

This directory models that logic in TLA+, checks it with TLC on small instances, and proves
with TLAPS, for every instance, the safety of the circuit breaker and of the decorator stack around
it, of the search service, the batch tool, the backends, the page cache, the readers with their challenge solver, and the
transport; that the page cache is, to its callers, an atomic read; that a read
with its solver's goroutines is a read without; and, of the pure functions, that the delay of a retry (unless its `Retry-After` overflows) and the reading of a
text in chunks are right for every input. Paths below are relative to `src/`.

    tlc -workers 2 -config CircuitBreaker.cfg MCCircuitBreaker.tla
    tlapm ResilienceProofs.tla

and so on for each run of `PROJECT.json` and each of the eight modules named `…Proofs`.

## 1. Inventory

| Component | Source | State | Operations | Module |
|---|---|---|---|---|
| Circuit breaker | `internal/resilience/breaker.go`, `status.go` | state, failure streak, opening time, half-open slot, generation, last error; under one mutex | `Search` = `beforeCall`, inner call, `afterCall`; `Status` | `CircuitBreaker` |
| Retry layer | `internal/resilience/retry.go` | none but the attempt loop and one shared random source | `Search`, `backoff`, `fullJitter` | `Resilience`, `RetryDelay`, `RetryBackoff` |
| Search result cache | `internal/resilience/cache.go` | map key → (response, expiry) under a mutex | `get`, `set` | `Resilience` |
| Decorator stack | `internal/resilience/resilience.go` | the three above | `Wrap` = cache(breaker(retry(provider))) | `Resilience` |
| Search service | `internal/search/service.go`, `merge.go` | one rate limiter per provider | `Search`: fallback chain, `searchAll` fan-out, `searchOne` | `SearchService` |
| Batch tool | `cmd/serve.go` | semaphore, one outcome slot per query | `search_batch`, `runBatchSearch` | `SearchBatch` |
| Paging backends | `internal/provider/{google,bing,yahoo,brave,searxng}` | per call: rows so far, seen set | `Search` | `ProviderSearch` |
| Single-request backends | `internal/provider/{duckduckgo,mojeek,arxiv,…}`, `internal/provider/common` | none | `Search`, block classification | `ProviderSearch` |
| Stack Exchange | `internal/provider/stackexchange`, `internal/provider/common` | request gate (a channel of one), cooldown deadline | `Search`, `decode` | `ProviderSearch` |
| Page cache | `internal/reader/cache.go`, `diskcache.go` | memory map and page files | `getFresh`, `validators`, `refresh`, `store`, `persist`, `prune` | `PageCache`, `PageReads` (abstract) |
| Generic page fetch | `internal/reader/reader.go` | none of its own | conditional GET, challenge handling, media types | `PageCache` (caching), `WebRead` (requests) |
| Anubis solver | `internal/reader/anubis.go` | stop flag, result channel, done channel, workers | `solveAnubisPoW`, submit and re-check | `AnubisPoW`, `WebRead`, composed in `ReadWithSolver` |
| Dispatch and Wayback fallback | `internal/reader/reader.go`, `links.go`, `wayback.go` | none | `Read`, `ExtractLinks`, `ReadPDF`, `fetchWithWaybackFallback` | `WebRead` |
| Site readers | `internal/reader/{github,gitlab,gerrit,…}.go` | per call: parts read so far | one function per site | `WebRead` |
| Rank fusion, selection | `internal/search/merge.go`, `selection.go` | none, pure | `fuseResults`, `selectResults`, `candidateCount` | `ResultMerge`, `PureCalls` |
| Pagination, in-page search | `internal/reader/paginate.go` | none, pure | `Validate`, `Apply`, `paginateContent`, `grepContent` | `ReadWindow`, `PureCalls` |
| PDF page selection | `internal/reader/reader.go` | none, pure | `parsePDFPageSpec`, `readPDFPages`, `formatPDFPages` | `ReadWindow`, `PureCalls` |
| Browser-like transport | `internal/browserhttp/transport.go` | per address: an HTTP/2 connection, an HTTP/1.1 flag; one mutex | `RoundTrip`, `CloseIdleConnections` | `BrowserTransport` |
| Metrics, observability, CLI and config, dial guard, PDF layout, feeds | see section 8 | – | – | not modelled |

**How they interact.** A tool handler in `cmd/` calls `search.Service.Search`, directly or
from one of the goroutines of a batch. The service asks one provider after another
(named provider first) or all at once, each under a deadline of its own and after
taking a token of the provider's rate limiter. A provider is a decorator stack: the
cache answers without going further, the breaker refuses or admits, the retry layer
calls the backend up to `MaxAttempts` times with backoff, the backend sends one or
more HTTP requests and classifies the answers as results, `ErrBlocked`,
`ErrRateLimited` or another error. The classification drives every layer above: a blocked
answer is never retried, a context error is no evidence against the provider, an
error makes the chain move on. `read`, `extract_links` and `read_pdf` go to
`internal/reader`, which routes by URL and, for ordinary pages, combines the page
cache, the challenge solver and the archive; a read makes an HTTP client of its own and
closes it, while a provider keeps its client. Both clients use the browser-like transport. What
was read is cut by `ReadOptions.Apply`, what was found is fused and selected from.

**What is hard.** The breaker's lock is not held during the inner call, so verdicts
of calls admitted in an earlier life of the breaker arrive in a later one. Contexts
end at any time, during sleeps, waits for tokens, selects and between pages. The
page cache is consulted, a request made without the lock, and the cache consulted
again; its files outlive the process. Solver goroutines race with each other, with
the collector and with cancellation. Paging loops have three or four ways to stop, and
a partial result competes with an error. The transport's lock is not held while a connection is
dialled or used. Windows, blocks of context and limits meet at the ends of a text. `PROJECT.json` lists these hazards line by line.

**What makes each part correct.**

* *Breaker*: one trial at a time, a slot that is never lost, no verdict from an
  earlier generation, no blame for cancelled calls, a consistent status, recovery.
* *Retry, cache*: a block is final, attempts stay bounded, only answers are cached,
  the map stays within its cap, every call returns whatever ends its context.
* *Service*: the answer says truthfully who served it and who failed; a provider's
  timeout does not end the request; every search returns.
* *Batch*: no more than the permitted concurrency, every query answered at its place.
* *Backends*: rows in upstream order, no duplicates, no wasted request, no error that
  takes back rows, no block page mistaken for "no results", the cooldown honoured.
* *Page cache*: byte, entry and file budgets; to its callers a read is one atomic read of a
  version that is not too old.
* *Solver*: one valid answer, no leaked goroutine, a solution that is found is returned.
* *Transport*: no connection closed in use, none forgotten, everything ends.
* *Fusion, windows*: one vote per provider and document, order by votes, the best rows within the
  filters; consecutive chunks rebuild the text; whatever an answer leaves out, it says so.
* *Readers*: no missing part in a document, lists cut only at their caps, the archive
  only for pages that are gone, no challenge page returned as content.

## 2. Plan

The modules, in the order of their importance to the program:

1. `CircuitBreaker`, then its proofs, in `ResilienceProofs` – done.
2. `Resilience` EXTENDS `CircuitBreaker`: the composed decorator stack – done. The
   breaker's actions are used as they are, the admission and the inner call being where
   the cache and the retry loop attach, so the breaker's
   liveness (`Recovers`) is checked again of the composition.
3. `RetryBackoff`: the shared random source – done.
4. `SearchService`, `SearchBatch` – done. The batch sees a search as "returns with
   results, without, with an error or because the context ended", which is what
   `EverySearchReturns` and the fan-out properties establish of the service.
5. `PageCache`, `AnubisPoW` – done.
6. `ProviderSearch`, `WebRead` – done.
7. The pure algorithms: `RetryDelay`, `ResultMerge`, `ReadWindow`, called by `PureCalls` with every
   input of a bounded set and compared with definitions that do not follow the code – done.
8. `ReadWithSolver`, the composition of `WebRead` and `AnubisPoW` – done, with a proof that it
   implements `WebRead`.
9. `PageReads`, what `PageCache` promises, and the refinement – done.
10. `BrowserTransport` and `BrowserTransportProofs` – done.
11. `ResilienceProofs`, `SearchServiceProofs`, `SearchBatchProofs`, `PageCacheProofs` and `ReadWithSolverProofs`: every safety
    property their runs check, and the refinement of `PageReads` – done.
12. `ProviderSearchProofs`, every safety property of the backends; the breaker's promises inside the stack; and
    `PureCallsProofs`, two of the four pure functions – done. Section 6 names the two that are left to TLC.

Modules that are proved about use no RECURSIVE operator: a loop of the code is a recursive function or explicit loop
state. Folds with an operator as their argument remain only in what is not proved, because the prover cannot unfold them.

## 3. Modules and their correspondence to the code

**`CircuitBreaker`.** Variables carry the names of the fields of `CircuitBreakerProvider`;
`age` stands for `now().Sub(openedAt)` capped at `Cooldown`, the only thing the code
compares. `pc`, `ctx`, `gen`, `err`, `canceled` are the local state of each concurrent `Search`.
`beforeCall` and `afterCall` hold the mutex, so each path through them is one action
(`AdmitClosed`, `AdmitTrial`, `AdmitRetrial`, `Reject`; `AfterStale`, `AfterCanceled`,
`AfterSuccess`, `AfterFailure`); the inner call is the gap between them.
`canceled` is read by the code before the lock is taken, so it is a separate step. `Abort`
is the caller's context ending; `Tick` is time.

**`Resilience`.** Adds the position of each call in the stack (`at`), its cache key, the attempt
index and last error of the retry loop, and the cache's entries with their remaining time.
`Arrive`, `Hit`, `Miss`, `Store`, `Quit` are `CachingProvider.Search`; `Guard` and `Verdict` are the
breaker; `LoopTop`, `Answer`, `Fail`, `Backoff` are the retry loop with its early returns. An attempt may fail with a
context error although the call's context is live: the HTTP client has a timeout of its own.

**`MachineInt`, `RetryDelay`.** `backoff` in two's-complement integers of `Width` bits, with the doubling,
the overflow guard and the cap of `Retry-After`, as operators; `delays` is the set of delays the jitter
may choose. A `Retry-After` is a number of seconds or a date; `ParseRetryAfter` multiplies the first without a check, so it
may wrap, and the difference to the second saturates. What the server `asked` for, and the `documented` delay, are
in exact arithmetic and do not mention `ParseRetryAfter`.

**`RetryBackoff`.** Uses them from concurrent goroutines, with `fullJitter`'s draw from
`math/rand` taken apart into the steps of its lagged-Fibonacci source
(decrement a cursor, check it, index the table), because no lock makes it one. The
random source is external code, modelled from how it is called.

**`SearchService`.** `target`, `pos`, `leg` are the loop index and the per-provider result slots.
`searchOne` is three steps: wait for a token (`TakeToken`, or `LimiterRefuses` when the
deadline cannot be met or has passed), then the provider's answer, at any time after that its
own deadline. `OtherTakesToken` is the traffic of all other searches.
A provider's answer is `full`, `empty` (nothing left after selection) or `err`; `hasResults` is the chain's test for the first.

**`SearchBatch`.** `Refuse` (no query, too many, or a count that `clampCount` rejects), `Launch`, then per query `Acquire` or `Skip` (the two cases of the select),
`SearchReturns`, `Release`; after `Joined` the outcomes are gathered one position at a time (`GatherError`,
`GatherResponse`) into the ordered items, the responses and the legacy map, until `Answer`.

**`PageCache`.** Each method of `pageCache` holds `c.mu`, disk access included, and is one action;
the request in between is not. Memory and disk are functions from the URLs they hold to a version and the time
`left` until it expires. Every write of a file sets `left` to the TTL, so the order by modification time
that `pruneDiskCache` sorts by is the order of `left`; files of one tick may be removed in any order, which is why
`pruneDiskCache` and `persist` return sets of directories. `CrashBeforeRename` and `CrashAfterRename` cut
`persist` at the two points that leave different files behind. A page is its version, which is its validator too;
`retired` records how long ago the origin replaced each version, so staleness can be stated.

**`PageReads`.** The abstract page cache has no cache: `Reply` returns some version the origin served no
longer than `Lag` ago, in one step. `PageCache` instantiates it (`Reads`) with `Lag` the TTL plus twice a read's longest
duration; a read is asked while its `pc` is not idle, and has its answer when `pc` is `reply`, `failed` or
`no-copy`. Twice, because a 304 refreshes whatever the cache holds when it arrives: after the validators were sent, a
slow read may store a page that it received almost one duration ago, and the 304 may come almost another duration
later. The page then counts as fresh for another TTL. Cache, disk, requests, validators and crashes are hidden.

**`AnubisPoW`.** `Check`, `Hash`, `Claim` (the compare-and-swap), `Send` per worker; `Close` by the goroutine
that waits for the group; `Select` and `Cancel` at the caller. Which nonces solve the challenge
is an arbitrary set.

**`ReadWithSolver`.** The read of `WebRead`, except that the step of `passAnubisChallenge` is three: `BeginSearch` starts the
goroutines of `AnubisPoW` (an INSTANCE whose `ctx` is the read's), its actions run, and `EndSearch` submits the result or
fails. A read may solve two challenges, of the page and of its archived copy; the goroutines of a search go on after the
read has what it needs. The two searches share nothing, and the second waits for the goroutines of the first to save variables.

**`ProviderSearch`.** One action per step that every backend's `Search` has: `Refuse`, `EnterGate`/`LeaveGate` (Stack Exchange),
`Send`, `Receive`, `DelayEnds` (Yahoo). What differs is data: `Class` is the order of checks each
backend applies to an answer, `Merge` (a page, row by row, with `AddRow`), `Stops` and `PageCap` its page loop. An answer is a status
plus a kind of body: rows, an absent results field (`nofield`) or an absent list within it (`nolist`), an error or throttle envelope,
a challenge, a foreign document, Bing's unrelated rows. `decode` is the cooldown after an envelope: the longest of its `backoff`, a
minute after error 502, and the time until midnight if the quota is used up (`midnight`), up to `MaxCooldown`.

**`WebRead`.** A control point is the endpoint to ask next; each site reader is the set of actions for its
endpoints. The variables record which parts answered, which the source does not have, pages
read of each listing, and the first error. Four endpoints are answered by a document instead of data (`TakenAsIs`: GitHub files and READMEs,
rendered Gitiles pages, pkg.go.dev); nobody looks whether what came is a challenge, an interstitial or only the beginning, and `content` says what it was.

**`ResultMerge`.** `fuseResults` folds the legs' rows into documents (`addRow`: find or `complete` the document, `vote` once per leg), sorts
the keys by score, and cuts. Scores are sums of 1/(60+rank) over a common denominator, `Scale`, so that they are integers. `searchOne` and
`searchAll` are how the service applies it, twice, with `selectResults` behind. A URL is a host and a path; a host is its sequence
of labels, so that domains are suffixes.

**`ReadWindow`.** A text is its lines, of which the query matches some; an answer is the sequence of things the code writes. `paginateContent` works on
any sequence, with the comparison that keeps `start + maxLength` within an int; `content` is what it is given, the text or `grepContent`'s
answer, which finds the matches line by line and writes one block after the other; the PDF functions select pages, extract those that can be shown,
and fold them into the answer. `validLimits` are `ReadPDF`'s own refusals, `pdfSummary` its answer without pages and query.

**`PureCalls`.** One call per behaviour, except that a text is read again from the `start_index` of each marker until there is none.

**`BrowserTransport`.** One address, since addresses share only the lock. `Lookup` and `Publish` are the two critical sections of `RoundTrip`, `Remember` the
third; `dialTLS`, `NewClientConn`, `Send`, `Answer` lie outside. The connection a request dials bears its name. What fhttp2 does with a
connection (`CanTakeNewRequest`, going away, shutdown, loss) is external. `saturated` is a history variable: connections that left the pool at their limit.

## 4. What the runs show

| Run | Instance | Distinct states | What holds |
|---|---|---|---|
| `breaker` | 3 callers, threshold 2, cooldown 1, 3 faults, 1 cancellation | 26,787 | `TrialSlot`, `OpenIsQuiet`, `StatusIsExplained`; `TrialDecides`, `CancellationIsNoEvidence`; `Recovers` |
| `resilience` | 2 callers, 2 keys, threshold 1, 2 attempts, TTL 1, 1 entry | 131,838 | `UpstreamIsShielded`; `OnlyAnswersAreCached`; `EveryCallReturns`, `Recovers` |
| `pure_calls` | two legs of up to three and two rows over documents that normalise alike; texts of up to 5 lines; PDFs of up to 3 pages; every delay and every `Retry-After` on 4-bit durations | 315,265 | `MergeIsFair`, `ChunksRebuildTheText`, `CutsAreTold`, `DelayIsAsDocumented` |
| `service` | 3 providers, burst 1, competing searches, every target | 40,232 | `FallbackServesFirst`, `FanoutAccountsForAll`, `TimeoutIsProvidersFault`, `FailureIsTotal`; `EverySearchReturns` |
| `batch` | every batch of up to 4 queries over 2 texts and over-long ones, 2 at a time | 35,838 | `SemaphoreIsExact`, `BatchIsLossless`; `BatchReturns` |
| `page_cache` | 4 pages, of which two fit, or one if it is the large one; 2 entries, 1 file; 2 readers, TTL 1, latency 1, 1 change, 1 restart | 847,427 | `BudgetsHold`; `ReadsAreRecent`: while the disk works, the cache implements `PageReads` |
| `providers` | every backend, every answer, up to 3 pages of up to 2 rows; 2 Stack Exchange calls | 90,606 | `PagesAreMergedInOrder`, `EmptyMeansEmpty`, `LaterPagesAreBonus`; `NoPageIsWasted`, `CooldownIsHonoured`; `EveryCallReturns` |
| `reads` | every operation, every kind of URL, every answer of every endpoint; 3 workers, nonces 0–2, every set of solutions | 332,286 | `NothingIsMissing`, `ListsAreCutOnlyAtTheCap`, `ArchiveOnlyForGonePages`, `OnlyReadableContent`, `OneValidSolution`; `NothingLeaks`, `EveryReadReturns` |
| `transport` | 3 requests, 2 streams to a connection, a provider's or a read's Transport | 77,483 | `ConnectionsAreAccountedFor`; `EverythingEnds` |
| `backoff_shared_rng` | 2 goroutines draw twice | – | violates `JitterReturns`: finding 1 |
| `page_cache_stale_304` | the same cache with disk writes that may fail | – | violates `BoundedStaleness`: finding 2 |
| `anubis_finds` | 2 workers, nonces 0–2 | – | violates `FindsNonce`: finding 3 |

### Bounds and why they are enough

* *Breaker.* Three callers are a trial, a straggler of an earlier generation and one that is
  rejected or takes the slot over. Three faults open the breaker (two) and fail a trial
  (one); a fault is anything the upstream returns but an answer, and the bound also says that the
  provider stops failing eventually, which `Recovers` needs. Cooldown 1 keeps "over" and
  "not over". `MaxFaults` and `MaxAborts` are the only bounds; the generation is a number they limit.
* *Resilience.* With one entry and two keys, every store meets the cap. Two attempts are one retry.
* *Pure calls.* 4 bits overflow at the same places as 64, for the delays, for seconds times a `Second` of 3, and for `start + maxLength`; every base
  delay, and for windows the lengths and starts at either end of the range, are tried. Two legs, of up to three and two rows, have agreement, disagreement, ties, and one document under two spellings in one leg. Five lines with a context of one
  have blocks that overlap, touch and lie apart, at either end. PDFs have blank pages, pages beyond the limits, and repeated ranges.
* *Service.* One request is enough because requests meet only at the limiters, and
  `OtherTakesToken` takes tokens whenever anybody could. Three providers give a chain a
  first, a middle and a last member.
* *Batch.* Four queries are twice the concurrency, over two texts there must be duplicates.
* *Page cache.* Three of the pages fit the bytes together but not the entries, and the fourth fits the entries with one of them but not the bytes, so each budget
  is the one exceeded in some state. With one file each page drives the others out of the directory, and copies are lost, loaded
  back and refreshed. Readers, and the pages that nothing tells apart, are interchangeable; the run checks safety only, so symmetry is sound.
  With a latency of two ticks (two pages, 1.4 million states, no run of its own) answers of age TTL + 3 occur, so a bound of the TTL and one
  duration would be wrong; that two suffice is proved for every latency.
* *Solver.* Three workers give a winner, a loser and one that has not looked yet; nonces 0–2 are one for each. With 0–3 the
  properties hold too, in a run of over four minutes.
* *Transport.* Three requests are two that race to publish and one that finds the result at its stream limit of two.
* *Backends.* Two of three URLs normalise alike; pages may be short, full or duplicated;
  counts up to 3 need one, two or three pages. Cooldowns asked for are up to 3, beyond `MaxCooldown`.
* *Readers.* Three pages reach the cap after a page in the middle; four comments exceed both limits of two.

### Fairness

Fairness is weak and given only to what Go's scheduler or a timer guarantees.

* *Breaker, resilience*: `Tick`; each goroutine's next step, where the inner call returns because
  `searchOne` puts a deadline on it; and new searches keep arriving. The last one is an
  assumption about users: the breaker has no timer, so without traffic it stays open by design.
  Liveness is checked although any arrival may be a cache hit.
* *Service*: the request's own code, the passing of a leg's deadline, and the return of a leg whose
  context is dead. Nothing says that a provider answers or a token comes: `EverySearchReturns` holds without.
* *Batch*: each goroutine's step; the deadline is not assumed to pass.
* *Readers and solver*: a request ends, in an answer or in the client's timeout; workers, collector and caller are
  scheduled. `EveryReadReturns` is claimed only if every search has a solution to find; without one only cancellation ends
  it, and nothing forces that. `NothingLeaks` needs no such condition.
* *Backends*: a request ends as above.
* *Transport*: dials and streams end with the request's context, whose deadline the clients set; a read closes its
  Transport (a deferred call) once its requests are over. Nobody has to send a request, and a provider's Transport is never closed.

`CHECK_DEADLOCK FALSE` is set where a behaviour is one request or one batch that ends.

### Properties and mutants

`PROJECT.json` gives, for each property, a change to one definition of the model – a dropped guard,
a reset left out, an off-by-one – that violates it. The changed definitions stand in the
modules next to the originals, under "Mutant".

## 5. What is proved

`ResilienceProofs` proves, of the breaker alone, for every set of callers, threshold, cooldown, set of errors and bounds:

| Theorem | Statement |
|---|---|
| `BreakerTypeOK` | `Spec => []TypeOK`; in particular the failure streak never exceeds the threshold |
| `BreakerTrialSlot` | the half-open slot is taken exactly while one in-flight call of the current generation holds it |
| `BreakerOpenIsQuiet` | while open, no call of the current generation is in flight |
| `BreakerStatusIsExplained` | health, state, streak and last error of a status snapshot agree |
| `BreakerTrialDecides` | half-open is left only by the trial's own verdict |
| `BreakerCancellationIsNoEvidence` | a cancelled call changes neither verdict nor statistics |

Assumptions: `ThresholdAssumption` and `CooldownAssumption` (both positive, as the constructor
clamps them), `BoundsAssumption` (the bounds are numbers), `ErrsAssumption` (nil is no error).

The inductive invariant `BreakerInv` is the conjunction of `TypeOK`, `GenerationsArePast`,
`OpenIsQuiet`, `TrialSlot` and `StatusIsExplained`. `TrialSlot` alone is not inductive for two
reasons. A call still in flight could carry a generation the breaker has not reached yet and become
current when the counter moves on; `GenerationsArePast` excludes that. And a trial
begins by leaving the open state, where nobody may be current for the new trial to be the
only one; that is `OpenIsQuiet`. `StatusIsExplained` needs the streak to be exactly
at the threshold when the breaker is not closed, and in turn gives `TypeOK` its bound on the
streak: a failure counted while closed starts from a streak below the threshold.
The proof has one lemma per group of conjuncts (`TypeStep`, `SlotStep`, `StatusStep`), each with
one step per action. The two action properties follow from `BreakerInv` and the same case analysis.

It extends these proofs to the stack, for any callers, keys, attempts, TTL and capacity:

| Theorem | Statement |
|---|---|
| `OpenBreakerShieldsUpstream` | `UpstreamIsShielded`: open, only calls admitted earlier are upstream, retries included; half-open, one; a blocked call never again |
| `StackKeepsTheBreaker` | `TrialSlot`, `OpenIsQuiet`, `StatusIsExplained`, `TrialDecides` and `CancellationIsNoEvidence` hold inside the stack too |
| `OnlySuccessesAreCached` | `OnlyAnswersAreCached`: time to live is given by the success of a call with the same key, and the cap holds |

Every step of the stack is, to the breaker, one of its own, nothing, or the exit of a call that the cache served, so `BreakerInv` carries over
(`BreakerInvStep`). `WrapInv` adds where each call is: in the retry layer exactly while the breaker waits for it
(`LayersOK`), without which nothing relates `at` to the generation; and that no entry outlives the TTL and the
map fits (`EntriesOK`). Assumptions: the breaker's, `RetryAssumption`, `CacheAssumption`, `ErrKinds`.

`SearchServiceProofs` proves for any number of concurrent searches and providers, whatever the burst:

| Theorem | Statement |
|---|---|
| `FirstProviderServes` | `FallbackServesFirst`: the provider that answers has results, those before it were asked and had none, nobody after it was asked, and the degraded are those that failed; an empty response means that all answered without results |
| `FanoutMergesOrReports` | `FanoutAccountsForAll`: every provider is merged or degraded, not both |
| `TimeoutIsNeverTheCallers` | `TimeoutIsProvidersFault`: a context error means that the caller's context ended |
| `AllFailedMeansAll` | `FailureIsTotal`: "all failed" means that all were asked, none had results, one failed |

`ServiceInv` says for each search what its position means: the providers before it were asked in vain, those from it on not at all, and
only the one at it may be under way (`Named`). The last part is what makes a result stay true: a leg still running behind a finished
search could contradict it later. That a position names one provider needs `OrderIsPermutation`: the named provider
followed by the others is every configured provider, once. Assumption: `NamesAssumption`: there is a name (`NewServiceWithOptions` refuses an empty list), the names are
distinct (they are the keys of a map), and none is "all" or the model's name for an unknown provider, which the code does not check and
which holds of the providers it configures.

`SearchBatchProofs` proves for every batch, limit and concurrency:

| Theorem | Statement |
|---|---|
| `SemaphoreCounts` | `SemaphoreIsExact`: one token per query being searched, at most `MaxConcurrency`, the deferred receive never blocks |
| `BatchLosesNothing` | `BatchIsLossless`: items in input order, the answers in order, the first error of every text that failed |

`BatchInv` relates each slot to its goroutine (`SlotsFilled`: pending until it is done searching, its own outcome from then on) and what has been gathered to
the first `Len(reply.items)` outcomes (`GatheredOK`), an invariant of the loop by position, so that no induction over the queries
is needed. `SemaphoreIsExact` is inductive alone. Assumption: `BatchAssumption`.

`ProviderSearchProofs` proves for every set of calls and URLs, every page size, cap of pages, count and backoff:

| Theorem | Statement |
|---|---|
| `ProviderPagesAreMergedInOrder` | `PagesAreMergedInOrder`: the first rows with distinct keys, in the order they came; fewer than asked for only when there is no further page, its request failed, or the cap of pages is met |
| `ProviderEmptyMeansEmpty` | `EmptyMeansEmpty`: no block page, error or foreign document passes for a search without results, but for the exceptions it names (`Tolerated`): an absent list of the six lenient backends, or an error envelope that decodes to one; and of Wikipedia a query without a list |
| `ProviderLaterPagesAreBonus` | `LaterPagesAreBonus`: a failure after the first page costs no rows, but for the context ending in Yahoo's delay |
| `ProviderNoPageIsWasted` | `NoPageIsWasted`: a further page is sent for only while rows are missing, more are to be had and the cap of pages allows it |
| `ProviderCooldownIsHonoured` | `CooldownIsHonoured`: one Stack Exchange request at a time, none in the cooldown |

`ProviderIInv` says for each call what it has and what it lacks (`CallOK`): its rows are the merge of its pages (`Merged`), it goes on only while
it is short of rows (`StillShort`) and stops short only when no page is left (`ShortIsExhausted`), and how it ended agrees with its last answer (`EmptyIsTrue`, `RowsAreKept`); and who may be past Stack Exchange's gate
(`PastTheGate`). The work is in the lemmas about the loop. `PagesAreMergedInOrder` states the result without it, as the rows whose key no earlier row has;
`MergeIsDistinct` shows that adding rows one at a time and stopping at the count gives the same, through the rank of a
position in a set (`Rank`, `Nth`), and `ClassIs` that the first check that applies decides how an answer is classified. Induction over the rows is
replaced by the least row at which two functions differ (`LeastNumber`). Assumption: `ProviderAssumption`.

`PureCallsProofs` proves for every text, option, base delay, attempt and `Retry-After`, and every width of an int:

| Theorem | Statement |
|---|---|
| `PureChunksRebuildTheText` | `ChunksRebuildTheText`: the chunks, one after the other, are the whole text or answer to a query from `start_index` on |
| `PureDelayIsAsDocumented` | `DelayIsAsDocumented`: between half and all of the last `base * 2^attempt` that fits, or what the header asks for up to the cap if a Duration can hold it; whatever the header, within the cap or the guess |

`PureIInv` relates the chunks returned so far to the position of the next call (`Rebuilt`). That a window is never out of range rests on
`WrapIs`, what an overflow does to a sum, and that queries can be paginated like texts on `ContentIs`: whatever `grepContent` writes is a
sequence of items. For delays, `IsCapped` characterises the result of the guarded doubling and `CappedDoubles` carries it from one attempt to the next; that
a sum of two words which overflows is negative, so that the guard sees it, is where the width matters. The library has no theorem about powers: `PowersOfTwo` counts
the subsets of an interval. A header whose seconds a Duration cannot hold gets no more than the last clause: its
product wraps (section 7). `Recursion` gives the functions by which the loops are defined, `UpTo` their induction. Assumptions:
`PureCallsAssumption` (base delays are positive, as `NewRetryProvider` clamps them; options are ints, and the length of a text is one),
`WindowAssumption`, `DelayAssumption`, `WidthAssumption`.

`PageCacheProofs` proves for every set of URLs and readers, every TTL, latency, size and budget:

| Theorem | Statement |
|---|---|
| `BudgetsAlwaysHold` | `BudgetsHold`: entries and bytes always; files unless the disk fails |
| `StalenessIsBounded` | if the disk works, `BoundedStaleness`: no page returned had been replaced for longer than `Lag` |
| `CacheImplementsReads` | if the disk works, `ReadsAreRecent`: the cache implements `PageReads`, step by step |

The first rests on `PageInv`: types, the budgets, and that nobody knows a version before the origin serves it (`NothingFromTheFuture`).
`makeRoom` keeps the budgets because inserting a page adds at most its own size (`BytesGrow`, `InsertKeeps`); pruning keeps the cap by its definition as a set of
outcomes (`PruneKeeps`). The other two rest on `StaleInv` as well, whose four parts need one another: what a 304 refreshes is the version it confirms *or
one that a read still running then has stored* (`ConfirmedOrNewer`), hence at most two durations old, hence a fresh copy has used up its share of `Lag` at most
(`FreshIsRecent`), while memory and disk never disagree on the version (`CopiesAgree`), so that an eviction followed by a load changes nothing. The hypothesis
`DiskWorks` (`UseDir => ~DiskFaults`) cannot be dropped: with one failed write `CopiesAgree` is false, and run `page_cache_stale_304` shows what
follows (finding 2). It is no assumption about caches without a directory. Assumption: `PageCacheAssumption`.

`ReadWithSolverProofs` proves, of `WebRead`, for every cap of pages, limits of comments and number of comments:

| Theorem | Statement |
|---|---|
| `NothingIsEverMissing` | `NothingIsMissing`: a document has every part its reader must ask for, or the source has none |
| `ListsAreOnlyCutAtTheCap` | `ListsAreCutOnlyAtTheCap`: listings end at their end or their cap; of a thread all or at least the limit of comments are asked for, at most the limit kept |
| `ArchiveAnswersOnlyForGonePages` | `ArchiveOnlyForGonePages`: the archive answers for pages that are gone, and the first error is the one reported |
| `ContentIsReadable` | `OnlyReadableContent`: no challenge, interstitial or torn page, but for the exceptions it names: the four `TakenAsIs` documents, `ExtractLinks` behind a first proof, and the media type behind a proof |

None is inductive: each speaks of a read that is over. `ReadInv` adds what is known at every control point on the way there: the parts that
have answered by then (`Before`), the pages and comments counted (`PagesBounded`, `ThreadBounded`), why a second source is being asked
(`KnownError`), and that there is no content before the end (`Unread`). Assumption: `ReadAssumption`.

It proves of the composition, for any number of workers and nonces:

| Theorem | Statement |
|---|---|
| `SolvingImplementsWebRead` | `SolvingSpec => Spec`: the composed read is a read of `WebRead`, with the search as one step; a search that fails maps to a proof whose answer never came |
| `SolvingReadsAreWhole` | hence `WebRead`'s four properties hold of the composed read too, which is what run `reads` checks |
| `SolvingSendsOneSolution` | `OneValidSolution`: one worker sends at most, what it sends solves the challenge, and a page is accepted behind a challenge only for a solution |

The invariant of the last is `SolverInv`: the flag is set once anybody has won (`OneWinner`), a worker claims only what it has hashed as a solution
(`HashedSolutions`), and a read that has the page behind a challenge is over (`Submitted`), for which `PartsAreAsked` goes through every
site reader: the only part that can join a document is the one just asked for. Assumption: `SolverAssumption`, `ReadAssumption`.

`BrowserTransportProofs` proves for every set of requests and every stream limit that `ConnectionsAreAccountedFor` is an invariant
(`TransportAccountsForConnections`), with its type invariant (`TransportTypeOK`). It is not inductive alone: the loser of a race closes its own
connection, and that nobody was given it follows from `Given` (whatever is in the pool or in use has been published by the
request that dialled it) and `Dialling` (until then no other request knows it). Assumptions: `TransportAssumption`, `NoneAssumption`.

## 6. Only model-checked

* Liveness (`Recovers`, every `…Returns`, `NothingLeaks`, `EverythingEnds`) and anything about ENABLED: out of the prover's reach.
* `MergeIsFair`: `fuseResults` sorts with an operator as its argument, over scores whose denominator is a product over a set, and the property compares its
  order with one by ranks; the provers unfold neither the sort nor the product.
* `CutsAreTold`: the pages of a PDF are folded into the answer, and the property sorts what should be shown; the same holds of these.
* `RetryBackoff` and `AnubisPoW` alone: their runs are counterexamples; what holds of the solver is proved in `ReadWithSolverProofs`.

The step from the model to the code is a reading of the code; sections 3 and 8 say what was abstracted.

## 7. Where the code does otherwise than it says

1. **A shared random source panics** (`internal/resilience/retry.go:150`). All searches of a provider draw from one
   unsynchronised `*rand.Rand`. One goroutine has decremented its cursor to 0 and found it in range; another decrements it to -1; the
   first indexes the table before the second wraps it around, and the process dies. Run `backoff_shared_rng`.
2. **A 304 refreshes the wrong version** (`internal/reader/cache.go:100`). `refresh` looks the entry up again. If the
   newer version was never written (best-effort disk) and its memory entry was evicted meanwhile, the older
   file is loaded and declared fresh because of a 304 that was about the newer one. Run `page_cache_stale_304`.
3. **A solved challenge may be reported as failed** (`internal/reader/anubis.go:127`). The caller's `select` can find the
   buffered solution and the closed `done` both ready, and Go picks either. Run `anubis_finds`.
Smaller observations, which the models reproduce and no run is devoted to. The first four are promises of a
comment or of the repository's README that the code does not keep in full; the properties nearest to them hold because they
name what the code excepts:

* `ParseRetryAfter` multiplies seconds by `time.Second` without a check (`internal/search/errors.go:62`). Beyond some 9.2e9 seconds the
  product is negative, zero or small, and no longer "beats the blind exponential guess" (`internal/resilience/retry.go:92-93`).
  `DelayIsAsDocumented` holds the code to that for every header a Duration can hold (`tellable`), and otherwise only to the cap or the guess.
* A results list that is missing is an empty one to Brave, SearXNG, Marginalia, Kagi, Exa and arXiv, as is that of some error envelopes, and to
  Wikipedia if its `query` has no list (`wikipedia.go:115-122`). `README.md:218` says of all providers that they "treat a missing results
  container as a block too". `EmptyMeansEmpty` excepts exactly these (`Tolerated`).
* The limits of Hacker News cap the comments kept: those that fail, are dead or are no comments do not count
  (`hackernews.go:112`), so any number may be requested. Lines 19 and 27 say that the limits cap how many are fetched and
  rendered. `ListsAreCutOnlyAtTheCap` holds under either reading.
* `README.md:235-236` says that oversized documents and recognized challenge pages return errors. Four endpoints (`TakenAsIs`) return
  what they are sent: GitHub files (`githubfile.go:59`) and READMEs (`github.go:270`), rendered Gitiles pages (`gitiles.go:88`, 234) and the whole-page
  fallback of pkg.go.dev (`pkggodev.go:43`, 52); `limitedBody` cuts them at 10 MiB as if they ended there. `ExtractLinks` lists the links of
  a second challenge (`links.go:65`). `OnlyReadableContent` excepts exactly these, and the media type, which is not checked behind a challenge.
* The fan-out returns the context's error when the deadline passes while the last leg is awaited, and
  drops the answers it already has (`internal/search/merge.go:52`, against line 27).
* If the entry whose validators were sent has been evicted when the 304 arrives, the read fails
  (`internal/reader/reader.go:276`).
* Yahoo drops the rows of earlier pages when the context ends in the delay between two pages (`yahoo.go:80`), though it keeps
  them when the request itself fails (lines 87-88).
* A full Brave page with a duplicate row leads to a second billed request for a request that
  should stay a single call (`brave.go:122`, lines 88-89).
* Retries and further pages are requests the service's rate limiter does not see.
* GitLab notes that fail to load are rendered like an empty discussion (`gitlab.go:89`).
* A timeout between Hacker News comments yields a shorter thread without a note.
* GitHub comments are cut at ten pages without a note.
* The search cache resets its whole map at the cap even when it only replaces an entry.
* A crash inside `persist` leaves a temporary file that is never pruned (`orphans` in `PageCache`).
* A connection that another replaces in the pool while it is at its stream limit is never shut down by `CloseIdleConnections`, which only
  knows the pool (`transport.go:143-145`, 182); the set `saturated` names these. It stays open until the server or its idle limits close it.
* A connection chosen under the lock may be unusable when the request is sent; `RoundTrip` does not try another and the caller sees
  the error (`transport.go:151`).
* Which spelling of a document's URL a fan-out shows depends on the order of the providers, and domain filters and the cap per host look at the
  spelling shown (`merge.go:120-123`, `selection.go:65-90`).
* Chunked reads cut a freshly read document at the index of an earlier one: when the page has changed in between, the chunks are of
  two versions. `ChunksRebuildTheText` is about one text.
* A panic of the inner provider would leave the half-open slot taken; the model assumes inner calls return.

## 8. Not modelled, and why

* *Metrics, tracing, logging*: written, never read back.
* *CLI, MCP argument plumbing, configuration, rendering*: no state; `search_batch` and `provider_status` are
  modelled with the components they use.
* *Field extraction from HTML, JSON and XML, HTML-to-Markdown conversion, PDF layout, feeds*: data
  transformations; an answer's body is abstracted to what the code's control flow tells apart.
* *Domain policy and dial guard*: a stateless filter; its verdict on the requested URL is an input of `WebRead`, a
  rejected redirect a failed request.
* *Two processes sharing a cache directory*: `PageCache` has one process; the listing and the removals of two would
  interleave file by file.
* *TLS fingerprint, header order, HTTP/1.1 pooling*: data, or `net/http`.
* *Shutdown of the HTTP server* (`cmd/serve.go:465`): two library calls in a select.
