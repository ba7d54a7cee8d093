----------------------------- MODULE Resilience -----------------------------
(***************************************************************************)
(* resilience.Wrap: cache(breaker(retry(upstream))) around one provider,   *)
(* with concurrent Search calls.                                           *)
(*                                                                         *)
(* The breaker layer is CircuitBreaker, action for action: pc[c] says      *)
(* where the call is with respect to the breaker ("called" before          *)
(* beforeCall, "inner" in the retry layer, "after" before afterCall) and   *)
(* at[c] refines it for the two other layers.                              *)
(*                                                                         *)
(* A cached response is represented by the time it has left (`left`, 0     *)
(* when now is no longer before expiresAt); which response it is does not  *)
(* matter to any property, only its key and that it was a success.         *)
(***************************************************************************)
EXTENDS CircuitBreaker, Functions

CONSTANTS
    Keys,         \* cacheKey values: distinct requests
    MaxAttempts,  \* RetryOptions.MaxAttempts after clamping
    TTL,          \* CacheOptions.TTL in ticks; 0 disables the cache
    MaxEntries    \* CacheOptions.MaxEntries after clamping

ASSUME RetryAssumption == MaxAttempts \in Nat \ {0}
ASSUME CacheAssumption == TTL \in Nat /\ MaxEntries \in Nat \ {0}

\* Kinds of error isRetryable and the callers tell apart. "context" stands for
\* what is context.Canceled or context.DeadlineExceeded, of whatever context.
ASSUME ErrKinds == Errs = {"blocked", "transient", "context"}

VARIABLES
    at,       \* position of each call in the stack
    key,      \* request of each call
    attempt,  \* RetryProvider.Search: zero-based attempt index
    last,     \* RetryProvider.Search: lastErr
    entries   \* CachingProvider.entries: key -> time left

layers == <<at, key, attempt, last>>
allVars == <<vars, layers, entries>>

NoKey == CHOOSE k \in Keys : TRUE

WrapInit ==
    /\ Init
    /\ at = [c \in Callers |-> "idle"]
    /\ key = [c \in Callers |-> NoKey]
    /\ attempt = [c \in Callers |-> 0]
    /\ last = [c \in Callers |-> NoErr]
    /\ entries = <<>>

Go(c, place) == at' = [at EXCEPT ![c] = place]

\* The call returns to whoever made it; its request is forgotten.
Done(c) == Go(c, "idle") /\ key' = [key EXCEPT ![c] = NoKey]

-----------------------------------------------------------------------------
(* CachingProvider.                                                        *)

Arrive(c, k) ==
    /\ at[c] = "idle"
    /\ Begin(c)
    /\ Go(c, "lookup")
    /\ key' = [key EXCEPT ![c] = k]
    /\ UNCHANGED <<attempt, last, entries>>

Fresh == {k \in DOMAIN entries : entries[k] > 0}

\* get finds a fresh entry: the call is over, the breaker never sees it.
Hit(c) ==
    /\ at[c] = "lookup" /\ ctx[c] = "live" /\ TTL > 0
    /\ key[c] \in Fresh
    /\ Done(c)
    /\ Exit(c)
    /\ UNCHANGED <<shared, gen, err, canceled, budgets, attempt, last, entries>>

\* get finds nothing, or deletes an expired entry; or caching is disabled.
Miss(c) ==
    /\ at[c] = "lookup" /\ ctx[c] = "live"
    /\ TTL = 0 \/ key[c] \notin Fresh
    /\ Go(c, "breaker")
    /\ entries' = Restrict(entries, DOMAIN entries \ {key[c]})
    /\ UNCHANGED <<vars, key, attempt, last>>

\* Mutant: no reset when sweeping expired entries freed nothing.
roomFor_SweepOnly(k) ==
    IF Cardinality(DOMAIN entries) < MaxEntries THEN DOMAIN entries ELSE Fresh

\* set, size guard: the entries kept before k is written.
roomFor(k) ==
    IF Cardinality(DOMAIN entries) < MaxEntries THEN DOMAIN entries
    ELSE IF Cardinality(Fresh) < MaxEntries THEN Fresh
    ELSE {}

\* set: the stored response lives for TTL from now.
Store(c) ==
    /\ at[c] = "store"
    /\ entries' = [k \in roomFor(key[c]) \cup {key[c]} |->
                    IF k = key[c] THEN TTL ELSE entries[k]]
    /\ Done(c)
    /\ UNCHANGED <<vars, attempt, last>>

-----------------------------------------------------------------------------
(* CircuitBreaker around the retry layer.                                  *)

\* ctx.Err() at the top of CachingProvider.Search or CircuitBreaker.Search.
Quit(c) ==
    /\ at[c] \in {"lookup", "breaker"}
    /\ EarlyReturn(c)
    /\ Done(c)
    /\ UNCHANGED <<attempt, last, entries>>

Guard(c) ==
    /\ at[c] = "breaker"
    /\ beforeCall(c)
    /\ IF pc'[c] = "inner" THEN Go(c, "retry") /\ UNCHANGED key ELSE Done(c)
    /\ UNCHANGED <<attempt, last, entries>>

\* Mutant: a failed call is written to the cache too.
Verdict_StoresErrors(c) ==
    /\ at[c] = "after"
    /\ afterCall(c)
    /\ IF TTL > 0 THEN Go(c, "store") /\ UNCHANGED key ELSE Done(c)
    /\ UNCHANGED <<attempt, last, entries>>

\* afterCall; a success then goes up to the cache, an error to the caller.
Verdict(c) ==
    /\ at[c] = "after"
    /\ afterCall(c)
    /\ IF err[c] = NoErr /\ TTL > 0 THEN Go(c, "store") /\ UNCHANGED key ELSE Done(c)
    /\ UNCHANGED <<attempt, last, entries>>

-----------------------------------------------------------------------------
(* RetryProvider.                                                          *)

\* Mutant: a block page is retried like a transient failure.
isRetryable_Blocked(e) == e # "context"

isRetryable(e) == e \notin {"context", "blocked"}

\* RetryProvider.Search returns r to the breaker; its locals are gone.
GiveBack(c, r) ==
    /\ InnerReturn(c, r)
    /\ Go(c, "after")
    /\ attempt' = [attempt EXCEPT ![c] = 0]
    /\ last' = [last EXCEPT ![c] = NoErr]

\* Top of the loop: a dead context ends it, with the provider's last error if
\* there is one.
LoopTop(c) ==
    /\ at[c] = "retry"
    /\ \/ /\ ctx[c] = "live"
          /\ Go(c, "upstream")
          /\ UNCHANGED <<vars, attempt, last>>
       \/ /\ ctx[c] # "live"
          /\ GiveBack(c, IF last[c] # NoErr THEN last[c] ELSE "context")
    /\ UNCHANGED <<key, entries>>

Answer(c) ==
    /\ at[c] = "upstream"
    /\ GiveBack(c, NoErr)
    /\ UNCHANGED <<key, entries>>

\* The upstream call fails with e. The timeout of the provider's own HTTP client
\* is a context error too, although the context of the call is live.
Fail(c, e) ==
    /\ at[c] = "upstream"
    /\ \/ /\ ~isRetryable(e) \/ attempt[c] = MaxAttempts - 1
          /\ GiveBack(c, e)
       \/ /\ isRetryable(e) /\ attempt[c] < MaxAttempts - 1
          /\ Go(c, "backoff")
          /\ last' = [last EXCEPT ![c] = e]
          /\ UNCHANGED <<vars, attempt>>
    /\ UNCHANGED <<key, entries>>

\* Mutant: the attempt counter does not advance.
Backoff_Forever(c) ==
    /\ at[c] = "backoff"
    /\ Go(c, "retry")
    /\ UNCHANGED <<vars, key, attempt, last, entries>>

\* Mutant: a context that dies during the backoff drops the call without
\* going back through the breaker.
Backoff_SkipsBreaker(c) ==
    /\ at[c] = "backoff"
    /\ \/ /\ Go(c, "retry")
          /\ attempt' = [attempt EXCEPT ![c] = @ + 1]
          /\ UNCHANGED <<vars, key, last>>
       \/ /\ ctx[c] # "live"
          /\ Done(c)
          /\ Exit(c)
          /\ attempt' = [attempt EXCEPT ![c] = 0]
          /\ last' = [last EXCEPT ![c] = NoErr]
          /\ UNCHANGED <<shared, gen, err, canceled, budgets>>
    /\ UNCHANGED entries

\* sleepCtx: the timer fires, or the context dies first.
Backoff(c) ==
    /\ at[c] = "backoff"
    /\ \/ /\ Go(c, "retry")
          /\ attempt' = [attempt EXCEPT ![c] = @ + 1]
          /\ UNCHANGED <<vars, last>>
       \/ /\ ctx[c] # "live"
          /\ GiveBack(c, last[c])
    /\ UNCHANGED <<key, entries>>

-----------------------------------------------------------------------------
\* One clock for the breaker's cooldown and the cache's TTL.
Clock ==
    /\ (state = "open" /\ age < Cooldown) \/ Fresh # {}
    /\ age' = IF state = "open" /\ age < Cooldown THEN age + 1 ELSE age
    /\ entries' = [k \in DOMAIN entries |-> IF k \in Fresh THEN entries[k] - 1 ELSE 0]
    /\ UNCHANGED <<state, failures, halfOpenBusy, generation, lastErr, pc, ctx,
                   gen, err, canceled, budgets, layers>>

\* A caller's context dies while it is inside the decorators.
Hangup(c, why) == Abort(c, why) /\ UNCHANGED <<layers, entries>>

\* CachingProvider.Search as a whole, once a request has arrived.
Proceed(c) ==
    \/ Hit(c) \/ Miss(c) \/ Quit(c)
    \/ Guard(c)
    \/ LoopTop(c) \/ Answer(c) \/ Backoff(c)
    \/ \E e \in Errs : Fail(c, e)
    \/ Verdict(c) \/ Store(c)

WrapNext ==
    \/ Clock
    \/ \E c \in Callers :
        \/ \E k \in Keys : Arrive(c, k)
        \/ Proceed(c)
        \/ \E why \in {"canceled", "expired"} : Hangup(c, why)

WrapSpec == WrapInit /\ [][WrapNext]_allVars

(***************************************************************************)
(* Time passes, every goroutine is scheduled, the upstream call returns    *)
(* (its context has a deadline), and searches keep arriving.               *)
(***************************************************************************)
WrapFairSpec ==
    /\ WrapSpec
    /\ WF_allVars(Clock)
    /\ \A c \in Callers :
        /\ WF_allVars(Proceed(c))
        /\ WF_allVars(\E k \in Keys : Arrive(c, k))

-----------------------------------------------------------------------------
(***************************************************************************)
(* An entry appears, or is given more time, only by a call for that very   *)
(* key whose upstream answer was a success: errors, hits and other keys    *)
(* never extend it. Nor does the map outgrow MaxEntries, whatever mix of    *)
(* expired and fresh entries concurrent callers find when they store.       *)
(***************************************************************************)
OnlyAnswersAreCached ==
    [][/\ \A k \in DOMAIN entries' :
            k \notin DOMAIN entries \/ entries'[k] > entries[k] =>
                \E c \in Callers : at[c] = "store" /\ key[c] = k
       /\ \A c \in Callers :
            at'[c] = "store" /\ at[c] # "store" => at[c] = "after" /\ err[c] = NoErr
       /\ Cardinality(DOMAIN entries') <= MaxEntries]_allVars

(***************************************************************************)
(* An open breaker sheds load: whatever still reaches the upstream, retries *)
(* included, belongs to a call admitted before it opened; half-open lets   *)
(* exactly one call of its own generation reach it. A call that was blocked *)
(* never comes back for another attempt (retry.go:36).                     *)
(***************************************************************************)
UpstreamIsShielded ==
    LET using == {c \in Callers : at[c] \in {"retry", "upstream", "backoff"}} IN
    /\ state = "open" => \A c \in using : gen[c] < generation
    /\ state = "half-open" =>
        Cardinality({c \in using : gen[c] = generation}) <= 1
    /\ \A c \in using : last[c] \in {NoErr, "transient"}

\* Every Search call returns, however its retries and its context interleave.
EveryCallReturns == \A c \in Callers : (at[c] # "idle") ~> (at[c] = "idle")
=============================================================================
