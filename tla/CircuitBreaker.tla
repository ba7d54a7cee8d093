--------------------------- MODULE CircuitBreaker ---------------------------
(***************************************************************************)
(* internal/resilience/breaker.go: one circuit breaker around one search   *)
(* provider, shared by any number of concurrent Search calls.              *)
(*                                                                         *)
(* beforeCall and afterCall run under c.mu, so each is one atomic action.  *)
(* Between the two the caller is inside the wrapped provider, with no lock *)
(* held, and anything may happen to the breaker meanwhile: that is what    *)
(* the generation counter is for.                                          *)
(*                                                                         *)
(* Time is kept as `age`, the value of now().Sub(openedAt) capped at       *)
(* Cooldown: beforeCall and Status only compare it with Cooldown, and Go's *)
(* monotonic clock never makes it smaller.                                 *)
(***************************************************************************)
EXTENDS Naturals, FiniteSets

CONSTANTS
    Callers,     \* goroutines that may be inside Search at the same time
    Errs,        \* errors the wrapped provider can return
    NoErr,       \* Go's nil error
    Threshold,   \* BreakerOptions.Threshold after clamping
    Cooldown,    \* BreakerOptions.Cooldown after clamping, in ticks
    MaxFaults,   \* bound: provider failures in one behaviour
    MaxAborts    \* bound: contexts cancelled or expired in one behaviour

ASSUME ThresholdAssumption == Threshold \in Nat \ {0}  \* clamped to >= 1
ASSUME CooldownAssumption  == Cooldown \in Nat \ {0}   \* clamped to > 0
ASSUME BoundsAssumption    == MaxFaults \in Nat /\ MaxAborts \in Nat
ASSUME ErrsAssumption      == NoErr \notin Errs

VARIABLES
    state,         \* c.state
    failures,      \* c.failures
    age,           \* now().Sub(c.openedAt), capped at Cooldown
    halfOpenBusy,  \* c.halfOpenBusy
    generation,    \* c.generation
    lastErr,       \* c.lastErr
    pc,            \* where each caller is in Search
    ctx,           \* state of the context each caller passed in
    gen,           \* the generation beforeCall gave each caller
    err,           \* what the wrapped provider returned to each caller
    canceled,      \* errors.Is(ctx.Err(), context.Canceled), read at return
    faults,        \* provider failures so far
    aborts         \* contexts cancelled or expired so far

shared  == <<state, failures, age, halfOpenBusy, generation, lastErr>>
budgets == <<faults, aborts>>
vars    == <<shared, pc, ctx, gen, err, canceled, budgets>>

-----------------------------------------------------------------------------
Results == Errs \cup {NoErr}

\* Calls that passed beforeCall and have not yet run afterCall.
InFlight == {c \in Callers : pc[c] \in {"inner", "after"}}

\* In-flight calls the current generation admitted.
Current == {c \in InFlight : gen[c] = generation}

Init ==
    /\ state = "closed"
    /\ failures = 0
    /\ age = 0
    /\ halfOpenBusy = FALSE
    /\ generation = 0
    /\ lastErr = NoErr
    /\ pc = [c \in Callers |-> "idle"]
    /\ ctx = [c \in Callers |-> "live"]
    /\ gen = [c \in Callers |-> 0]
    /\ err = [c \in Callers |-> NoErr]
    /\ canceled = [c \in Callers |-> FALSE]
    /\ faults = 0
    /\ aborts = 0

-----------------------------------------------------------------------------
(* The environment: callers arrive, contexts die, time passes.             *)

\* A caller enters Search with a context that is alive.
Begin(c) ==
    /\ pc[c] = "idle"
    /\ pc' = [pc EXCEPT ![c] = "called"]
    /\ UNCHANGED <<shared, ctx, gen, err, canceled, budgets>>

\* The caller cancels ("canceled") or its deadline passes ("expired").
Abort(c, why) ==
    /\ pc[c] # "idle"
    /\ ctx[c] = "live"
    /\ aborts < MaxAborts
    /\ ctx' = [ctx EXCEPT ![c] = why]
    /\ aborts' = aborts + 1
    /\ UNCHANGED <<shared, pc, gen, err, canceled, faults>>

Tick ==
    /\ state = "open"
    /\ age < Cooldown
    /\ age' = age + 1
    /\ UNCHANGED <<state, failures, halfOpenBusy, generation, lastErr,
                   pc, ctx, gen, err, canceled, budgets>>

-----------------------------------------------------------------------------
(* Search and beforeCall.                                                  *)

\* Search returns; the next call comes with a context of its own.
Exit(c) ==
    /\ pc' = [pc EXCEPT ![c] = "idle"]
    /\ ctx' = [ctx EXCEPT ![c] = "live"]

\* Search returns ctx.Err() before it looks at the breaker.
EarlyReturn(c) ==
    /\ pc[c] = "called"
    /\ ctx[c] # "live"
    /\ Exit(c)
    /\ UNCHANGED <<shared, gen, err, canceled, budgets>>

\* The caller goes on to the wrapped provider with generation g.
Enter(c, g) ==
    /\ pc[c] = "called"
    /\ ctx[c] = "live"
    /\ pc' = [pc EXCEPT ![c] = "inner"]
    /\ gen' = [gen EXCEPT ![c] = g]
    /\ UNCHANGED <<ctx, err, canceled, budgets>>

AdmitClosed(c) ==
    /\ state = "closed"
    /\ Enter(c, generation)
    /\ UNCHANGED shared

\* Cooldown is over: this call becomes the half-open trial.
AdmitTrial(c) ==
    /\ state = "open"
    /\ age >= Cooldown
    /\ state' = "half-open"
    /\ generation' = generation + 1
    /\ halfOpenBusy' = TRUE
    /\ Enter(c, generation + 1)
    /\ UNCHANGED <<failures, age, lastErr>>

\* The previous trial was cancelled: this call is the next trial.
AdmitRetrial(c) ==
    /\ state = "half-open"
    /\ ~halfOpenBusy
    /\ halfOpenBusy' = TRUE
    /\ Enter(c, generation)
    /\ UNCHANGED <<state, failures, age, generation, lastErr>>

\* ErrCircuitOpen.
Reject(c) ==
    /\ pc[c] = "called"
    /\ ctx[c] = "live"
    /\ \/ state = "open" /\ age < Cooldown
       \/ state = "half-open" /\ halfOpenBusy
    /\ Exit(c)
    /\ UNCHANGED <<shared, gen, err, canceled, budgets>>

\* beforeCall's four outcomes.
beforeCall(c) ==
    \/ AdmitClosed(c)
    \/ AdmitTrial(c)
    \/ AdmitRetrial(c)
    \/ Reject(c)

-----------------------------------------------------------------------------
(* The wrapped provider returns, then afterCall.                           *)

\* c.inner.Search returns r, and Search evaluates its third argument to
\* afterCall. With a live context a failure is the provider's own fault; with
\* a dead one it is usually the context's error.
InnerReturn(c, r) ==
    /\ pc[c] = "inner"
    /\ \/ r = NoErr /\ faults' = faults
       \/ r # NoErr /\ ctx[c] # "live" /\ faults' = faults
       \/ r # NoErr /\ ctx[c] = "live" /\ faults < MaxFaults /\ faults' = faults + 1
    /\ pc' = [pc EXCEPT ![c] = "after"]
    /\ err' = [err EXCEPT ![c] = r]
    /\ canceled' = [canceled EXCEPT ![c] = ctx[c] = "canceled"]
    /\ UNCHANGED <<shared, ctx, gen, aborts>>

\* The caller leaves Search; its locals no longer matter.
Leave(c) ==
    /\ pc[c] = "after"
    /\ Exit(c)
    /\ gen' = [gen EXCEPT ![c] = 0]
    /\ err' = [err EXCEPT ![c] = NoErr]
    /\ canceled' = [canceled EXCEPT ![c] = FALSE]
    /\ UNCHANGED budgets

\* Admitted by an earlier generation: no say any more.
AfterStale(c) ==
    /\ Leave(c)
    /\ gen[c] # generation
    /\ UNCHANGED shared

\* Mutant: a cancelled trial keeps the half-open slot.
AfterCanceled_KeepsSlot(c) ==
    /\ Leave(c)
    /\ gen[c] = generation
    /\ canceled[c]
    /\ UNCHANGED shared

\* The caller gave up: no evidence, but a trial must hand its slot back.
AfterCanceled(c) ==
    /\ Leave(c)
    /\ gen[c] = generation
    /\ canceled[c]
    /\ halfOpenBusy' = (halfOpenBusy /\ state # "half-open")
    /\ UNCHANGED <<state, failures, age, generation, lastErr>>

\* Mutant: the trial's success closes the breaker but leaves the old streak.
RecordSuccess_KeepsStreak ==
    /\ halfOpenBusy' = (halfOpenBusy /\ state # "half-open")
    /\ generation' = IF state # "closed" THEN generation + 1 ELSE generation
    /\ state' = "closed"
    /\ UNCHANGED <<failures, lastErr, age>>

\* Success closes the breaker and resets the streak.
RecordSuccess ==
    /\ halfOpenBusy' = (halfOpenBusy /\ state # "half-open")
    /\ generation' = IF state # "closed" THEN generation + 1 ELSE generation
    /\ state' = "closed"
    /\ failures' = 0
    /\ lastErr' = NoErr
    /\ UNCHANGED age

\* Mutant: a late success of an earlier generation closes the breaker.
AfterSuccess_AnyGeneration(c) ==
    /\ Leave(c)
    /\ ~canceled[c]
    /\ err[c] = NoErr
    /\ RecordSuccess

AfterSuccess(c) ==
    /\ Leave(c)
    /\ gen[c] = generation
    /\ ~canceled[c]
    /\ err[c] = NoErr
    /\ RecordSuccess

\* Mutant: opening does not start a new generation.
Trip_SameGeneration ==
    /\ state' = "open"
    /\ generation' = generation
    /\ age' = 0

\* The breaker opens: new generation, cooldown restarts.
Trip ==
    /\ state' = "open"
    /\ generation' = generation + 1
    /\ age' = 0

\* The default branch of afterCall's switch is also taken when the state is
\* open, so it is guarded by "not half-open" here as in the code.
RecordFailure(e) ==
    /\ halfOpenBusy' = (halfOpenBusy /\ state # "half-open")
    /\ lastErr' = e
    /\ \/ /\ state = "half-open"
          /\ Trip
          /\ failures' = failures
       \/ /\ state # "half-open"
          /\ failures' = failures + 1
          /\ IF failures + 1 >= Threshold
             THEN Trip
             ELSE UNCHANGED <<state, generation, age>>

\* Mutant: stragglers are counted too.
AfterFailure_AnyGeneration(c) ==
    /\ Leave(c)
    /\ ~canceled[c]
    /\ err[c] # NoErr
    /\ RecordFailure(err[c])

\* Mutant: a cancelled caller's error is counted.
AfterFailure_Canceled(c) ==
    /\ Leave(c)
    /\ gen[c] = generation
    /\ err[c] # NoErr
    /\ RecordFailure(err[c])

AfterFailure(c) ==
    /\ Leave(c)
    /\ gen[c] = generation
    /\ ~canceled[c]
    /\ err[c] # NoErr
    /\ RecordFailure(err[c])

afterCall(c) ==
    \/ AfterStale(c)
    \/ AfterCanceled(c)
    \/ AfterSuccess(c)
    \/ AfterFailure(c)

-----------------------------------------------------------------------------
Search(c) ==
    \/ Begin(c)
    \/ EarlyReturn(c)
    \/ beforeCall(c)
    \/ \E r \in Results : InnerReturn(c, r)
    \/ afterCall(c)

Next ==
    \/ Tick
    \/ \E c \in Callers :
        \/ Search(c)
        \/ \E why \in {"canceled", "expired"} : Abort(c, why)

Spec == Init /\ [][Next]_vars

(***************************************************************************)
(* Fairness. Time passes; each goroutine is scheduled, and the wrapped     *)
(* provider returns because search.Service puts a timeout on every call.   *)
(* Recovery needs traffic: the breaker has no timer of its own, so WF on   *)
(* Begin is the assumption that users keep searching.                      *)
(***************************************************************************)
Fairness ==
    /\ WF_vars(Tick)
    /\ \A c \in Callers : WF_vars(Search(c))

FairSpec == Spec /\ Fairness

-----------------------------------------------------------------------------
\* CircuitBreaker.Status: what provider_status reports.
Status ==
    [State               |-> state,
     ConsecutiveFailures |-> failures,
     CooldownRemaining   |-> IF state = "open" THEN Cooldown - age ELSE 0,
     LastError           |-> lastErr]

\* collectProviderStatus: the flag callers pick a backend by.
Healthy == Status.State = "closed" /\ Status.ConsecutiveFailures = 0

-----------------------------------------------------------------------------
TypeOK ==
    /\ state \in {"closed", "open", "half-open"}
    /\ failures \in 0 .. Threshold
    /\ age \in 0 .. Cooldown
    /\ halfOpenBusy \in BOOLEAN
    /\ generation \in Nat
    /\ lastErr \in Results
    /\ pc \in [Callers -> {"idle", "called", "inner", "after"}]
    /\ ctx \in [Callers -> {"live", "canceled", "expired"}]
    /\ gen \in [Callers -> Nat]
    /\ err \in [Callers -> Results]
    /\ canceled \in [Callers -> BOOLEAN]
    /\ faults \in 0 .. MaxFaults
    /\ aborts \in 0 .. MaxAborts

(***************************************************************************)
(* The half-open slot (halfOpenBusy) is taken exactly while one in-flight  *)
(* call of the current generation holds it: two trials never overlap, the  *)
(* slot is never lost when a trial is cancelled, and no other in-flight    *)
(* call can pass for the trial.                                            *)
(***************************************************************************)
TrialSlot ==
    /\ halfOpenBusy => state = "half-open"
    /\ state = "half-open" =>
        /\ halfOpenBusy <=> Current # {}
        /\ \A c, d \in Current : c = d

(***************************************************************************)
(* While the breaker is open nobody holds the current generation: whatever *)
(* is still in flight was admitted before it opened, so no straggler can   *)
(* extend the cooldown, count as a failure or close the breaker.           *)
(***************************************************************************)
OpenIsQuiet == state = "open" => Current = {}

\* No in-flight call was admitted by a generation that does not exist yet.
GenerationsArePast == \A c \in InFlight : gen[c] <= generation

(***************************************************************************)
(* What provider_status shows is consistent: a breaker that is not closed  *)
(* reports a full failure streak, a closed one a shorter streak, and a     *)
(* provider is unhealthy exactly when there is an error that explains why  *)
(* (status.go:33, serve.go:175).                                           *)
(***************************************************************************)
StatusIsExplained ==
    /\ Status.State = "closed" <=> Status.ConsecutiveFailures < Threshold
    /\ Healthy <=> Status.LastError = NoErr

(***************************************************************************)
(* Only the trial decides how half-open ends, and by its own result: it    *)
(* closes on success and re-opens on failure. A call admitted before the   *)
(* trial that answers late never does either.                              *)
(***************************************************************************)
TrialDecides ==
    [][state = "half-open" /\ state' # "half-open" =>
        \E c \in Current :
            /\ pc[c] = "after" /\ pc'[c] = "idle"
            /\ ~canceled[c]
            /\ state' = IF err[c] = NoErr THEN "closed" ELSE "open"]_vars

(***************************************************************************)
(* A caller that gave up leaves no mark: whatever the provider returned to *)
(* it, afterCall changes neither the verdict nor the statistics.           *)
(***************************************************************************)
CancellationIsNoEvidence ==
    [][\A c \in Callers : pc[c] = "after" /\ pc'[c] = "idle" /\ canceled[c] =>
        UNCHANGED <<state, failures, lastErr, generation>>]_vars

(***************************************************************************)
(* Once the provider has stopped failing, the breaker ends up closed and   *)
(* stays closed, with a clean streak.                                      *)
(***************************************************************************)
Recovers == <>[](state = "closed" /\ failures = 0 /\ lastErr = NoErr)
=============================================================================
