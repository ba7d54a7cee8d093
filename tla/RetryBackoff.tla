---------------------------- MODULE RetryBackoff ----------------------------
(***************************************************************************)
(* Search calls of one RetryProvider that back off at the same time share  *)
(* its rng, a *rand.Rand over math/rand's rngSource, which keeps a cursor  *)
(* into a table and moves it without synchronisation. The steps that read  *)
(* and write `tap` are that library's (external); its second cursor, feed, *)
(* moves the same way and is left out.                                     *)
(***************************************************************************)
EXTENDS RetryDelay

CONSTANTS
    Goroutines,    \* Search calls that back off concurrently
    MaxAttempt,    \* largest attempt index explored
    RetryAfters,   \* seconds a server may put in Retry-After (0: no header)
    TableLen,      \* math/rand's rngLen
    MaxDraws       \* bound: backoffs per goroutine

VARIABLES
    base,     \* opts.BaseDelay, the same for everybody
    tap,      \* rngSource.tap
    phase,    \* where each goroutine is
    attempt,  \* its attempt index
    advised,  \* RateLimitedError.RetryAfter of the error it got
    delay,    \* the delay it computed
    draws     \* backoffs it has done

vars == <<base, tap, phase, attempt, advised, delay, draws>>

-----------------------------------------------------------------------------
Init ==
    /\ base \in 1 .. MaxInt
    /\ tap \in 0 .. TableLen - 1
    /\ phase = [g \in Goroutines |-> "idle"]
    /\ attempt = [g \in Goroutines |-> 0]
    /\ advised = [g \in Goroutines |-> 0]
    /\ delay = [g \in Goroutines |-> 0]
    /\ draws = [g \in Goroutines |-> 0]

Move(g, from, to) ==
    /\ phase[g] = from
    /\ phase' = [phase EXCEPT ![g] = to]

\* Search got a retryable error, with `seconds` in its Retry-After header,
\* and calls backoff(a).
Start(g, a, seconds) ==
    /\ Move(g, "idle", "decrement")
    /\ draws[g] < MaxDraws
    /\ draws' = [draws EXCEPT ![g] = @ + 1]
    /\ attempt' = [attempt EXCEPT ![g] = a]
    /\ advised' = [advised EXCEPT ![g] = ParseRetryAfter([kind |-> "seconds", n |-> seconds])]
    /\ UNCHANGED <<base, tap, delay>>

\* rng.tap--
Decrement(g) ==
    /\ Move(g, "decrement", "check")
    /\ tap' = tap - 1
    /\ UNCHANGED <<base, attempt, advised, delay, draws>>

\* if rng.tap < 0
Check(g) ==
    /\ Move(g, "check", IF tap < 0 THEN "wrap" ELSE "index")
    /\ UNCHANGED <<base, tap, attempt, advised, delay, draws>>

\* rng.tap += rngLen
WrapAround(g) ==
    /\ Move(g, "wrap", "index")
    /\ tap' = tap + TableLen
    /\ UNCHANGED <<base, attempt, advised, delay, draws>>

\* vec[rng.tap]: a runtime panic when the cursor is outside the table.
Panic(g) ==
    /\ Move(g, "index", "panicked")
    /\ tap \notin 0 .. TableLen - 1
    /\ UNCHANGED <<base, tap, attempt, advised, delay, draws>>

\* fullJitter returns, and Search lets a Retry-After override the result.
Return(g, d) ==
    /\ Move(g, "index", "sleeping")
    /\ tap \in 0 .. TableLen - 1
    /\ d \in delays(base, attempt[g], advised[g])
    /\ delay' = [delay EXCEPT ![g] = d]
    /\ UNCHANGED <<base, tap, attempt, advised, draws>>

\* The sleep is over and the goroutine is back in the retry loop.
Wake(g) ==
    /\ Move(g, "sleeping", "idle")
    /\ UNCHANGED <<base, tap, attempt, advised, delay, draws>>

Next == \E g \in Goroutines :
    \/ \E a \in 0 .. MaxAttempt, s \in RetryAfters : Start(g, a, s)
    \/ Decrement(g) \/ Check(g) \/ WrapAround(g) \/ Panic(g)
    \/ \E d \in 0 .. MaxInt : Return(g, d)
    \/ Wake(g)

Spec == Init /\ [][Next]_vars

-----------------------------------------------------------------------------
(***************************************************************************)
(* "fullJitter returns a random duration in [d/2, d]" (retry.go:144): it   *)
(* returns, whatever other Search calls of the same provider are doing.    *)
(***************************************************************************)
JitterReturns == \A g \in Goroutines : phase[g] # "panicked"
=============================================================================
