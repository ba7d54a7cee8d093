-------------------------- MODULE ResilienceProofs --------------------------
(***************************************************************************)
(* First CircuitBreaker: its half-open slot and its statistics stay        *)
(* consistent, for any number of callers, any threshold and any cooldown.  *)
(* Then resilience.Wrap: the breaker keeps these promises in the stack and *)
(* shields the upstream from calls and their retries, and only successes   *)
(* are cached, for any number of attempts, any TTL and capacity.           *)
(***************************************************************************)
EXTENDS Resilience, FiniteSetTheorems, TLAPS

(***************************************************************************)
(* The inductive invariant. TrialSlot alone is not inductive: a straggler  *)
(* of an earlier generation must not become Current when the generation    *)
(* moves on, which is what GenerationsArePast adds, and a trial starts     *)
(* from the open state, where OpenIsQuiet says nobody is Current.          *)
(***************************************************************************)
BreakerInv ==
    /\ TypeOK
    /\ GenerationsArePast
    /\ OpenIsQuiet
    /\ TrialSlot
    /\ StatusIsExplained

\* The facts about the constants every step needs.
LEMMA ConstantFacts ==
    /\ Threshold \in Nat /\ Threshold >= 1
    /\ Cooldown \in Nat /\ Cooldown >= 1
    /\ MaxFaults \in Nat /\ MaxAborts \in Nat
    /\ NoErr \notin Errs
    /\ NoErr \in Results
  BY ThresholdAssumption, CooldownAssumption, BoundsAssumption, ErrsAssumption
  DEF Results

\* A freshly built breaker satisfies the invariant.
LEMMA InitInv == Init => BreakerInv
  <1> SUFFICES ASSUME Init PROVE BreakerInv
    OBVIOUS
  <1>1. TypeOK
    <2>1. /\ failures \in 0 .. Threshold /\ age \in 0 .. Cooldown
          /\ faults \in 0 .. MaxFaults /\ aborts \in 0 .. MaxAborts
          /\ generation \in Nat /\ gen \in [Callers -> Nat]
      BY ConstantFacts DEF Init
    <2>2. /\ halfOpenBusy \in BOOLEAN /\ canceled \in [Callers -> BOOLEAN]
          /\ lastErr \in Results /\ err \in [Callers -> Results]
      BY ConstantFacts, Zenon DEF Init
    <2> QED BY <2>1, <2>2 DEF Init, TypeOK
  <1>2. InFlight = {}
    BY DEF Init, InFlight
  <1>3. GenerationsArePast /\ OpenIsQuiet /\ TrialSlot
    BY <1>2 DEF Init, GenerationsArePast, OpenIsQuiet, TrialSlot, Current
  <1>4. StatusIsExplained
    BY ConstantFacts DEF Init, StatusIsExplained, Status, Healthy
  <1> QED BY <1>1, <1>3, <1>4 DEF BreakerInv

\* Every step preserves the types; the streak never exceeds the threshold
\* because only a closed breaker with room left counts a failure.
LEMMA TypeStep == BreakerInv /\ [Next]_vars => TypeOK'
  <1> SUFFICES ASSUME BreakerInv, [Next]_vars PROVE TypeOK'
    OBVIOUS
  <1> USE ConstantFacts DEF BreakerInv, TypeOK, shared, budgets
  <1>1. CASE Tick
    BY <1>1 DEF Tick
  <1>2. ASSUME NEW c \in Callers, Begin(c) PROVE TypeOK'
    BY <1>2 DEF Begin
  <1>3. ASSUME NEW c \in Callers, EarlyReturn(c) PROVE TypeOK'
    BY <1>3 DEF EarlyReturn, Exit
  <1>4. ASSUME NEW c \in Callers, beforeCall(c) PROVE TypeOK'
    <2>1. CASE AdmitClosed(c) \/ Reject(c)
      BY <2>1 DEF AdmitClosed, Reject, Enter, Exit
    <2>2. CASE AdmitTrial(c)
      BY <2>2 DEF AdmitTrial, Enter
    <2>3. CASE AdmitRetrial(c)
      BY <2>3 DEF AdmitRetrial, Enter
    <2> QED BY <1>4, <2>1, <2>2, <2>3 DEF beforeCall
  <1>5. ASSUME NEW c \in Callers, NEW r \in Results, InnerReturn(c, r) PROVE TypeOK'
    <2>1. canceled' \in [Callers -> BOOLEAN]
      BY <1>5, Zenon DEF InnerReturn
    <2> QED BY <1>5, <2>1 DEF InnerReturn
  <1>6. ASSUME NEW c \in Callers, AfterStale(c) \/ AfterCanceled(c) PROVE TypeOK'
    <2>1. canceled' \in [Callers -> BOOLEAN] /\ halfOpenBusy' \in BOOLEAN
      BY <1>6, Zenon DEF AfterStale, AfterCanceled, Leave, Exit
    <2> QED BY <1>6, <2>1 DEF AfterStale, AfterCanceled, Leave, Exit
  <1>7. ASSUME NEW c \in Callers, AfterSuccess(c) PROVE TypeOK'
    BY <1>7 DEF AfterSuccess, RecordSuccess, Leave, Exit
  <1>8. ASSUME NEW c \in Callers, AfterFailure(c) PROVE TypeOK'
    <2>1. c \in Current
      BY <1>8 DEF AfterFailure, Leave, Exit, Current, InFlight
    <2>2. state # "open"
      BY <2>1 DEF OpenIsQuiet
    <2>3. failures' \in 0 .. Threshold
      BY <1>8, <2>2 DEF AfterFailure, RecordFailure, StatusIsExplained, Status, Healthy
    <2> QED BY <1>8, <2>3 DEF AfterFailure, RecordFailure, Trip, Leave, Exit
  <1>9. ASSUME NEW c \in Callers, NEW why \in {"canceled", "expired"}, Abort(c, why)
        PROVE TypeOK'
    BY <1>9 DEF Abort
  <1>10. CASE UNCHANGED vars
    BY <1>10 DEF vars
  <1> QED BY <1>1, <1>2, <1>3, <1>4, <1>5, <1>6, <1>7, <1>8, <1>9, <1>10
          DEF Next, Search, afterCall

\* Every step preserves the slot discipline and the generation order.
LEMMA SlotStep ==
    BreakerInv /\ [Next]_vars => GenerationsArePast' /\ OpenIsQuiet' /\ TrialSlot'
  <1> DEFINE Goal == GenerationsArePast' /\ OpenIsQuiet' /\ TrialSlot'
  <1> SUFFICES ASSUME BreakerInv, [Next]_vars PROVE Goal
    OBVIOUS
  <1> USE DEF BreakerInv, TypeOK, shared, budgets,
              GenerationsArePast, OpenIsQuiet, TrialSlot, Current, InFlight
  <1>1. CASE Tick
    BY <1>1 DEF Tick
  <1>2. ASSUME NEW c \in Callers, Begin(c) \/ EarlyReturn(c) PROVE Goal
    BY <1>2 DEF Begin, EarlyReturn, Exit
  <1>3. ASSUME NEW c \in Callers, beforeCall(c) PROVE Goal
    <2>1. CASE AdmitClosed(c)
      BY <2>1 DEF AdmitClosed, Enter
    <2>2. CASE AdmitTrial(c)
      BY <2>2 DEF AdmitTrial, Enter
    <2>3. CASE AdmitRetrial(c)
      BY <2>3 DEF AdmitRetrial, Enter
    <2>4. CASE Reject(c)
      BY <2>4 DEF Reject, Exit
    <2> QED BY <1>3, <2>1, <2>2, <2>3, <2>4 DEF beforeCall
  <1>4. ASSUME NEW c \in Callers, NEW r \in Results, InnerReturn(c, r) PROVE Goal
    BY <1>4 DEF InnerReturn
  <1>5. ASSUME NEW c \in Callers, afterCall(c) PROVE Goal
    <2>1. CASE AfterStale(c)
      BY <2>1 DEF AfterStale, Leave, Exit
    <2>2. CASE AfterCanceled(c)
      BY <2>2, ZenonT(60) DEF AfterCanceled, Leave, Exit
    <2>3. CASE AfterSuccess(c)
      BY <2>3 DEF AfterSuccess, RecordSuccess, Leave, Exit
    <2>4. CASE AfterFailure(c)
      BY <2>4 DEF AfterFailure, RecordFailure, Trip, Leave, Exit
    <2> QED BY <1>5, <2>1, <2>2, <2>3, <2>4 DEF afterCall
  <1>6. ASSUME NEW c \in Callers, NEW why \in {"canceled", "expired"}, Abort(c, why)
        PROVE Goal
    BY <1>6 DEF Abort
  <1>7. CASE UNCHANGED vars
    BY <1>7 DEF vars
  <1> HIDE DEF Goal
  <1> QED BY <1>1, <1>2, <1>3, <1>4, <1>5, <1>6, <1>7 DEF Next, Search

\* Every step keeps the reported streak, state and error consistent.
LEMMA StatusStep == BreakerInv /\ [Next]_vars => StatusIsExplained'
  <1> SUFFICES ASSUME BreakerInv, [Next]_vars PROVE StatusIsExplained'
    OBVIOUS
  <1> USE ConstantFacts DEF BreakerInv, TypeOK, StatusIsExplained, Status, Healthy
  <1>1. ASSUME UNCHANGED <<state, failures, lastErr>> PROVE StatusIsExplained'
    BY <1>1
  <1>2. ASSUME NEW c \in Callers, AdmitTrial(c) PROVE StatusIsExplained'
    BY <1>2 DEF AdmitTrial
  <1>3. ASSUME NEW c \in Callers, AfterSuccess(c) PROVE StatusIsExplained'
    BY <1>3 DEF AfterSuccess, RecordSuccess
  <1>4. ASSUME NEW c \in Callers, AfterFailure(c) PROVE StatusIsExplained'
    <2>1. state # "open"
      BY <1>4 DEF AfterFailure, Leave, Exit, OpenIsQuiet, Current, InFlight
    <2>2. lastErr' # NoErr /\ failures' > 0
      BY <1>4 DEF AfterFailure, RecordFailure
    <2>3. state' = "closed" <=> failures' < Threshold
      BY <1>4, <2>1 DEF AfterFailure, RecordFailure, Trip
    <2> QED BY <2>2, <2>3
  <1> QED
    BY <1>1, <1>2, <1>3, <1>4
    DEF Next, Search, beforeCall, afterCall, vars, shared, budgets,
        Tick, Begin, EarlyReturn, AdmitClosed, AdmitRetrial, Reject, Enter,
        InnerReturn, AfterStale, AfterCanceled, Leave, Exit, Abort

\* The invariant holds in every reachable state.
THEOREM BreakerInvHolds == Spec => []BreakerInv
  <1>1. BreakerInv /\ [Next]_vars => BreakerInv'
    BY TypeStep, SlotStep, StatusStep DEF BreakerInv
  <1> QED BY InitInv, <1>1, PTL DEF Spec

\* Type correctness, for every number of callers and every option value.
THEOREM BreakerTypeOK == Spec => []TypeOK
  <1>1. BreakerInv => TypeOK
    BY DEF BreakerInv
  <1> QED BY BreakerInvHolds, <1>1, PTL

(***************************************************************************)
(* beforeCall and afterCall together hand out the half-open slot to        *)
(* exactly one in-flight call at a time and never lose it.                 *)
(***************************************************************************)
THEOREM BreakerTrialSlot == Spec => []TrialSlot
  <1>1. BreakerInv => TrialSlot
    BY DEF BreakerInv
  <1> QED BY BreakerInvHolds, <1>1, PTL

\* No call admitted before the breaker opened can act on it while it is open.
THEOREM BreakerOpenIsQuiet == Spec => []OpenIsQuiet
  <1>1. BreakerInv => OpenIsQuiet
    BY DEF BreakerInv
  <1> QED BY BreakerInvHolds, <1>1, PTL

\* Status never reports an unhealthy breaker without its reason.
THEOREM BreakerStatusIsExplained == Spec => []StatusIsExplained
  <1>1. BreakerInv => StatusIsExplained
    BY DEF BreakerInv
  <1> QED BY BreakerInvHolds, <1>1, PTL

\* The two action properties, as formulas about one step.
DecidedByTrial ==
    state = "half-open" /\ state' # "half-open" =>
        \E c \in Current :
            /\ pc[c] = "after" /\ pc'[c] = "idle"
            /\ ~canceled[c]
            /\ state' = IF err[c] = NoErr THEN "closed" ELSE "open"

LeavesNoMark ==
    \A c \in Callers : pc[c] = "after" /\ pc'[c] = "idle" /\ canceled[c] =>
        UNCHANGED <<state, failures, lastErr, generation>>

LEMMA TrialStep == ASSUME BreakerInv, [Next]_vars PROVE DecidedByTrial
<1> SUFFICES ASSUME state = "half-open", state' # "half-open"
             PROVE \E c \in Current :
                    /\ pc[c] = "after" /\ pc'[c] = "idle"
                    /\ ~canceled[c]
                    /\ state' = IF err[c] = NoErr THEN "closed" ELSE "open"
    BY DEF DecidedByTrial
<1>1. PICK c \in Callers : AfterSuccess(c) \/ AfterFailure(c)
    BY DEF Next, Search, beforeCall, afterCall, vars, shared, budgets,
           Tick, Begin, EarlyReturn, AdmitClosed, AdmitTrial, AdmitRetrial,
           Reject, Enter, InnerReturn, AfterStale, AfterCanceled, Leave, Exit, Abort
<1>2. c \in Current /\ pc[c] = "after" /\ pc'[c] = "idle" /\ ~canceled[c]
    BY <1>1 DEF AfterSuccess, AfterFailure, Leave, Exit, Current, InFlight, BreakerInv, TypeOK
<1>3. state' = IF err[c] = NoErr THEN "closed" ELSE "open"
    BY <1>1 DEF AfterSuccess, AfterFailure, RecordSuccess, RecordFailure, Trip
<1> QED BY <1>2, <1>3

\* A call that moves from "after" to "idle" has gone through afterCall.
LEMMA CancelStep == ASSUME BreakerInv, [Next]_vars PROVE LeavesNoMark
<1> SUFFICES ASSUME NEW c \in Callers, pc[c] = "after", pc'[c] = "idle", canceled[c]
             PROVE UNCHANGED <<state, failures, lastErr, generation>>
    BY DEF LeavesNoMark
<1>1. afterCall(c)
    <2> USE DEF BreakerInv, TypeOK
    <2>1. ~UNCHANGED pc
        OBVIOUS
    <2>2. PICK d \in Callers : Search(d)
        BY <2>1 DEF Next, Tick, Abort, vars
    <2>3. Begin(d) \/ EarlyReturn(d) \/ beforeCall(d) => pc[d] = "called" \/ pc[d] = "idle"
        BY DEF Begin, EarlyReturn, beforeCall, AdmitClosed, AdmitTrial, AdmitRetrial, Reject, Enter
    <2>4. \A e \in Callers : e # d => pc'[e] = pc[e]
        BY <2>2 DEF Search, Begin, EarlyReturn, beforeCall, AdmitClosed, AdmitTrial,
           AdmitRetrial, Reject, Enter, InnerReturn, afterCall, AfterStale,
           AfterCanceled, AfterSuccess, AfterFailure, Leave, Exit
    <2>5. c = d
        BY <2>4
    <2> QED BY <2>2, <2>3, <2>5 DEF Search, InnerReturn
<1> QED BY <1>1 DEF afterCall, AfterStale, AfterCanceled, AfterSuccess, AfterFailure, Leave, shared

(***************************************************************************)
(* Only the trial itself ends the half-open state, by its own result: a    *)
(* late answer to an older call neither closes nor re-opens the breaker.   *)
(***************************************************************************)
THEOREM BreakerTrialDecides == Spec => TrialDecides
<1>1. BreakerInv /\ [Next]_vars => [DecidedByTrial]_vars
    BY TrialStep
<1> QED BY BreakerInvHolds, <1>1, PTL DEF Spec, TrialDecides, DecidedByTrial

(***************************************************************************)
(* A caller that gave up leaves no mark on the breaker when its call ends, *)
(* whatever the provider returned to it.                                   *)
(***************************************************************************)
THEOREM BreakerCancellationIsNoEvidence == Spec => CancellationIsNoEvidence
<1>1. BreakerInv /\ [Next]_vars => [LeavesNoMark]_vars
    BY CancelStep
<1> QED BY BreakerInvHolds, <1>1, PTL DEF Spec, CancellationIsNoEvidence, LeavesNoMark

-----------------------------------------------------------------------------
(***************************************************************************)
(* Where a call is in the stack agrees with where the breaker has it: in   *)
(* the retry layer exactly while the breaker waits for the inner provider. *)
(***************************************************************************)
Using == {"retry", "upstream", "backoff"}

Layer(c) ==
    /\ at[c] \in {"idle", "lookup", "breaker", "after", "store"} \cup Using
    /\ at[c] \in {"idle", "store"} <=> pc[c] = "idle"
    /\ at[c] \in {"lookup", "breaker"} <=> pc[c] = "called"
    /\ at[c] \in Using <=> pc[c] = "inner"
    /\ at[c] = "after" <=> pc[c] = "after"
    /\ last[c] \in {NoErr, "transient"}
    /\ attempt[c] \in 0 .. MaxAttempts - 1
    /\ at[c] = "backoff" => last[c] # NoErr /\ attempt[c] < MaxAttempts - 1

LayersOK ==
    /\ at = [c \in Callers |-> at[c]] /\ last = [c \in Callers |-> last[c]]
    /\ attempt = [c \in Callers |-> attempt[c]]
    /\ \A c \in Callers : Layer(c)

\* The map of the cache has a bounded number of entries, none of which lives
\* for longer than the TTL.
EntriesOK ==
    /\ entries \in [DOMAIN entries -> 0 .. TTL]
    /\ IsFiniteSet(DOMAIN entries)
    /\ Cardinality(DOMAIN entries) <= MaxEntries

WrapInv == BreakerInv /\ LayersOK /\ EntriesOK

-----------------------------------------------------------------------------
LEMMA WrapInvInit == WrapInit => WrapInv
<1> SUFFICES ASSUME WrapInit PROVE WrapInv
    OBVIOUS
<1>1. DOMAIN entries = {}
    BY DEF WrapInit
<1>2. EntriesOK
    BY <1>1, FS_EmptySet, CacheAssumption DEF EntriesOK
<1>3. LayersOK
    BY RetryAssumption DEF WrapInit, Init, LayersOK, Layer, Using
<1> QED BY <1>2, <1>3, InitInv DEF WrapInv, WrapInit

(***************************************************************************)
(* The breaker takes its own steps in the stack, and one more: a call that *)
(* is served from the cache leaves without the breaker having seen it.     *)
(***************************************************************************)
Served(c) ==
    /\ pc[c] = "called" /\ Exit(c)
    /\ UNCHANGED <<shared, gen, err, canceled, budgets>>

LEMMA GiveBackReturns ==
    ASSUME NEW c \in Callers, NEW r \in Results, GiveBack(c, r) PROVE Next
BY DEF GiveBack, Next, Search

LEMMA BreakerView ==
    ASSUME LayersOK, [WrapNext]_allVars
    PROVE  [Next]_vars \/ \E c \in Callers : Served(c)
<1> DEFINE Goal == [Next]_vars \/ \E c \in Callers : Served(c)
<1> SUFFICES Goal
    OBVIOUS
<1>1. CASE Clock \/ UNCHANGED allVars
    BY <1>1 DEF Clock, Next, Tick, vars, shared, budgets, allVars
<1>2. ASSUME NEW c \in Callers, NEW k \in Keys, Arrive(c, k) PROVE Goal
    BY <1>2 DEF Arrive, Next, Search
<1>3. ASSUME NEW c \in Callers, NEW why \in {"canceled", "expired"}, Hangup(c, why) PROVE Goal
    BY <1>3 DEF Hangup, Next
<1>4. ASSUME NEW c \in Callers, Hit(c) PROVE Goal
    BY <1>4 DEF LayersOK, Layer, Hit, Served
<1>5. ASSUME NEW c \in Callers, Miss(c) \/ Store(c) PROVE Goal
    BY <1>5 DEF Miss, Store
<1>6. ASSUME NEW c \in Callers, Quit(c) \/ Guard(c) \/ Verdict(c) PROVE Goal
    BY <1>6 DEF Quit, Guard, Verdict, Next, Search
<1>7. ASSUME NEW c \in Callers, LoopTop(c) \/ Answer(c) \/ Backoff(c) PROVE Goal
    <2>1. last[c] \in Results /\ "context" \in Results /\ NoErr \in Results
        BY ErrKinds DEF LayersOK, Layer, Results
    <2> QED BY <1>7, <2>1, GiveBackReturns DEF LoopTop, Answer, Backoff
<1>8. ASSUME NEW c \in Callers, NEW e \in Errs, Fail(c, e) PROVE Goal
    BY <1>8, GiveBackReturns DEF Fail, Results
<1> HIDE DEF Goal
<1> QED BY <1>1, <1>2, <1>3, <1>4, <1>5, <1>6, <1>7, <1>8 DEF WrapNext, Proceed

\* The breaker's invariant survives in the stack.
LEMMA BreakerInvStep == WrapInv /\ [WrapNext]_allVars => BreakerInv'
<1> SUFFICES ASSUME WrapInv, [WrapNext]_allVars PROVE BreakerInv'
    OBVIOUS
<1>1. CASE [Next]_vars
    BY <1>1, TypeStep, SlotStep, StatusStep DEF WrapInv, BreakerInv
<1>2. ASSUME NEW c \in Callers, Served(c) PROVE BreakerInv'
    <2>1. TypeOK'
        BY <1>2 DEF WrapInv, BreakerInv, TypeOK, Served, Exit, shared, budgets
    <2>2. Current' = Current /\ InFlight' = InFlight
        BY <1>2 DEF WrapInv, BreakerInv, TypeOK, Served, Exit, shared, Current, InFlight
    <2> QED BY <1>2, <2>1, <2>2 DEF WrapInv, BreakerInv, Served, shared, GenerationsArePast,
               OpenIsQuiet, TrialSlot, StatusIsExplained, Status, Healthy
<1> QED BY <1>1, <1>2, BreakerView DEF WrapInv

-----------------------------------------------------------------------------
\* A call moves through the layers without disturbing the others.
LEMMA LayersStep == WrapInv /\ [WrapNext]_allVars => LayersOK'
<1> SUFFICES ASSUME WrapInv, [WrapNext]_allVars PROVE LayersOK'
    OBVIOUS
<1> USE RetryAssumption, ErrKinds, ErrsAssumption
        DEF WrapInv, BreakerInv, TypeOK, LayersOK, Layer, Using, Go, Done
<1>1. CASE Clock \/ UNCHANGED allVars
    BY <1>1 DEF Clock, layers, allVars, vars
<1>2. ASSUME NEW c \in Callers, NEW k \in Keys, Arrive(c, k) PROVE LayersOK'
    BY <1>2 DEF Arrive, Begin
<1>3. ASSUME NEW c \in Callers, NEW why \in {"canceled", "expired"}, Hangup(c, why) PROVE LayersOK'
    BY <1>3 DEF Hangup, Abort, layers
<1>4. ASSUME NEW c \in Callers, Hit(c) PROVE LayersOK'
    BY <1>4 DEF Hit, Exit
<1>5. ASSUME NEW c \in Callers, Miss(c) \/ Store(c) PROVE LayersOK'
    BY <1>5 DEF Miss, Store, vars
<1>6. ASSUME NEW c \in Callers, Quit(c) PROVE LayersOK'
    BY <1>6 DEF Quit, EarlyReturn, Exit
<1>7. ASSUME NEW c \in Callers, Guard(c) PROVE LayersOK'
    BY <1>7 DEF Guard, beforeCall, AdmitClosed, AdmitTrial, AdmitRetrial, Reject, Enter, Exit
<1>8. ASSUME NEW c \in Callers, Verdict(c) PROVE LayersOK'
    BY <1>8 DEF Verdict, afterCall, AfterStale, AfterCanceled, AfterSuccess, AfterFailure, Leave, Exit
<1>9. ASSUME NEW c \in Callers, LoopTop(c) \/ Answer(c) \/ Backoff(c) PROVE LayersOK'
    BY <1>9 DEF LoopTop, Answer, Backoff, GiveBack, InnerReturn, vars
<1>10. ASSUME NEW c \in Callers, NEW e \in Errs, Fail(c, e) PROVE LayersOK'
    BY <1>10 DEF Fail, GiveBack, InnerReturn, isRetryable, vars
<1> HIDE DEF LayersOK
<1> QED BY <1>1, <1>2, <1>3, <1>4, <1>5, <1>6, <1>7, <1>8, <1>9, <1>10 DEF WrapNext, Proceed

-----------------------------------------------------------------------------
\* What set keeps leaves room for the entry it writes.
LEMMA RoomForOne ==
    ASSUME EntriesOK, NEW k
    PROVE  /\ roomFor(k) \subseteq DOMAIN entries
           /\ IsFiniteSet(roomFor(k) \cup {k})
           /\ Cardinality(roomFor(k) \cup {k}) <= MaxEntries
<1>1. Fresh \subseteq DOMAIN entries /\ IsFiniteSet(Fresh)
    BY FS_Subset DEF EntriesOK, Fresh
<1>2. /\ roomFor(k) \subseteq DOMAIN entries /\ IsFiniteSet(roomFor(k))
      /\ Cardinality(roomFor(k)) < MaxEntries
    BY <1>1, CacheAssumption, FS_EmptySet DEF EntriesOK, roomFor
<1>3. Cardinality(roomFor(k)) \in Nat /\ MaxEntries \in Nat
    BY <1>2, FS_CardinalityType, CacheAssumption
<1> DEFINE room == roomFor(k)
<1> HIDE DEF room
<1>4. /\ IsFiniteSet(room \cup {k})
      /\ Cardinality(room \cup {k}) = IF k \in room THEN Cardinality(room) ELSE Cardinality(room) + 1
    BY <1>2, FS_AddElement DEF room
<1> QED BY <1>2, <1>3, <1>4 DEF room

\* The entries' life only shortens, but for the key that is stored.
LEMMA EntriesStep ==
    ASSUME WrapInv, [WrapNext]_allVars
    PROVE  /\ EntriesOK'
           /\ \A k \in DOMAIN entries' :
                k \notin DOMAIN entries \/ entries'[k] > entries[k] =>
                    \E c \in Callers : at[c] = "store" /\ key[c] = k
<1> DEFINE Goal ==
        /\ EntriesOK'
        /\ \A k \in DOMAIN entries' :
             k \notin DOMAIN entries \/ entries'[k] > entries[k] =>
                 \E c \in Callers : at[c] = "store" /\ key[c] = k
<1> SUFFICES Goal
    OBVIOUS
<1>1. CASE Clock
    <2>1. /\ DOMAIN entries' = DOMAIN entries
          /\ \A k \in DOMAIN entries : entries'[k] = IF entries[k] > 0 THEN entries[k] - 1 ELSE 0
        BY <1>1 DEF Clock, Fresh
    <2>2. \A k \in DOMAIN entries : entries[k] \in Nat /\ entries[k] <= TTL
        BY CacheAssumption DEF WrapInv, EntriesOK
    <2>3. \A k \in DOMAIN entries : entries'[k] \in 0 .. TTL /\ entries'[k] <= entries[k]
        BY <2>1, <2>2, CacheAssumption
    <2>4. entries' = [k \in DOMAIN entries' |-> entries'[k]]
        BY <1>1 DEF Clock
    <2> QED BY <2>1, <2>2, <2>3, <2>4 DEF WrapInv, EntriesOK
<1>2. ASSUME NEW c \in Callers, Store(c) PROVE Goal
    <2> DEFINE D == roomFor(key[c]) \cup {key[c]}
    <2>1. /\ DOMAIN entries' = D
          /\ entries' = [k \in D |-> IF k = key[c] THEN TTL ELSE entries[k]]
        BY <1>2 DEF Store
    <2>2. /\ roomFor(key[c]) \subseteq DOMAIN entries /\ IsFiniteSet(D)
          /\ Cardinality(D) <= MaxEntries
        BY RoomForOne DEF WrapInv
    <2>3. \A k \in D : k = key[c] \/ (k \in DOMAIN entries /\ entries'[k] = entries[k])
        BY <2>1, <2>2
    <2>4. \A k \in DOMAIN entries : entries[k] \in 0 .. TTL
        BY DEF WrapInv, EntriesOK
    <2>5. EntriesOK'
        BY <2>1, <2>2, <2>3, <2>4, CacheAssumption DEF EntriesOK
    <2>6. \A k \in DOMAIN entries : ~(entries[k] > entries[k])
        BY <2>4, CacheAssumption
    <2> QED BY <1>2, <2>1, <2>3, <2>5, <2>6 DEF Store
<1>3. ASSUME NEW c \in Callers, Miss(c) PROVE Goal
    <2> DEFINE D == DOMAIN entries \ {key[c]}
    <2>1. entries' = [k \in D |-> entries[k]] /\ DOMAIN entries' = D
        BY <1>3 DEF Miss, Restrict
    <2>2. IsFiniteSet(D) /\ Cardinality(D) <= Cardinality(DOMAIN entries)
        BY FS_Subset DEF WrapInv, EntriesOK
    <2>3. Cardinality(D) <= MaxEntries
        BY <2>2, FS_CardinalityType, CacheAssumption DEF WrapInv, EntriesOK
    <2>4. \A k \in DOMAIN entries : entries[k] \in 0 .. TTL /\ ~(entries[k] > entries[k])
        BY CacheAssumption DEF WrapInv, EntriesOK
    <2> QED BY <2>1, <2>2, <2>3, <2>4 DEF EntriesOK
<1>4. CASE UNCHANGED entries
    <2>1. \A k \in DOMAIN entries : ~(entries[k] > entries[k])
        BY CacheAssumption DEF WrapInv, EntriesOK
    <2> QED BY <1>4, <2>1 DEF WrapInv, EntriesOK
<1> HIDE DEF Goal
<1> QED BY <1>1, <1>2, <1>3, <1>4 DEF WrapNext, Proceed, allVars, Arrive, Hangup, Hit, Quit, Guard,
           LoopTop, Answer, Backoff, Fail, Verdict

-----------------------------------------------------------------------------
\* The three layers agree in every reachable state.
THEOREM WrapInvariant == WrapSpec => []WrapInv
<1>1. WrapInv /\ [WrapNext]_allVars => WrapInv'
    BY BreakerInvStep, LayersStep, EntriesStep DEF WrapInv
<1> QED BY WrapInvInit, <1>1, PTL DEF WrapSpec

(***************************************************************************)
(* While the breaker is open only calls it admitted earlier are at the     *)
(* upstream, retries included; a half-open breaker has one at most; and a  *)
(* call that was blocked is never there for another attempt.               *)
(***************************************************************************)
THEOREM OpenBreakerShieldsUpstream == WrapSpec => []UpstreamIsShielded
<1>1. ASSUME WrapInv PROVE UpstreamIsShielded
    <2> DEFINE using == {c \in Callers : at[c] \in {"retry", "upstream", "backoff"}}
    <2>1. using \subseteq InFlight
        BY <1>1 DEF WrapInv, LayersOK, Layer, Using, InFlight
    <2>2. state = "open" => \A c \in using : gen[c] < generation
        BY <1>1, <2>1 DEF WrapInv, BreakerInv, TypeOK, OpenIsQuiet, GenerationsArePast, Current, InFlight
    <2>3. state = "half-open" => Cardinality({c \in using : gen[c] = generation}) <= 1
        <3> DEFINE trials == {c \in using : gen[c] = generation}
        <3>1. CASE trials = {}
            BY <3>1, FS_EmptySet
        <3>2. ASSUME state = "half-open", NEW c \in trials PROVE Cardinality(trials) <= 1
            <4>1. \A d, e \in Current : d = e
                BY <1>1, <3>2 DEF WrapInv, BreakerInv, TrialSlot
            <4>2. trials \subseteq Current
                BY <2>1 DEF Current
            <4>3. trials = {c}
                BY <3>2, <4>1, <4>2
            <4>4. Cardinality({c}) = 1
                BY FS_Singleton
            <4> HIDE DEF trials
            <4> QED BY <4>3, <4>4
        <3> QED BY <3>1, <3>2
    <2>4. \A c \in using : last[c] \in {NoErr, "transient"}
        BY <1>1 DEF WrapInv, LayersOK, Layer
    <2> QED BY <2>2, <2>3, <2>4 DEF UpstreamIsShielded
<1> QED BY WrapInvariant, <1>1, PTL

(***************************************************************************)
(* The breaker keeps its promises inside the stack (resilience.go): one    *)
(* trial at a time, no verdict from an earlier generation, a status with   *)
(* its reason, no blame for calls that were cancelled, although the cache  *)
(* takes calls away before beforeCall and the retry layer keeps them       *)
(* between beforeCall and afterCall for as long as its attempts last.      *)
(***************************************************************************)
THEOREM StackKeepsTheBreaker ==
    WrapSpec => /\ [](TrialSlot /\ OpenIsQuiet /\ StatusIsExplained)
                /\ TrialDecides
                /\ CancellationIsNoEvidence
<1>1. WrapInv => TrialSlot /\ OpenIsQuiet /\ StatusIsExplained
    BY DEF WrapInv, BreakerInv
<1>2. ASSUME WrapInv, [WrapNext]_allVars, NEW c \in Callers, Served(c)
      PROVE  DecidedByTrial /\ LeavesNoMark
    BY <1>2 DEF Served, shared, DecidedByTrial, LeavesNoMark
<1>3. WrapInv /\ [WrapNext]_allVars => [DecidedByTrial]_vars /\ [LeavesNoMark]_vars
    BY <1>2, BreakerView, TrialStep, CancelStep DEF WrapInv
<1> QED BY WrapInvariant, <1>1, <1>3, PTL DEF WrapSpec, TrialDecides, DecidedByTrial,
           CancellationIsNoEvidence, LeavesNoMark

(***************************************************************************)
(* CachingProvider.set is reached by successes alone, gives time to no     *)
(* other key than its own, and never lets the map outgrow MaxEntries.      *)
(***************************************************************************)
THEOREM OnlySuccessesAreCached == WrapSpec => OnlyAnswersAreCached
<1> DEFINE Cached ==
        /\ \A k \in DOMAIN entries' :
            k \notin DOMAIN entries \/ entries'[k] > entries[k] =>
                \E c \in Callers : at[c] = "store" /\ key[c] = k
        /\ \A c \in Callers :
            at'[c] = "store" /\ at[c] # "store" => at[c] = "after" /\ err[c] = NoErr
        /\ Cardinality(DOMAIN entries') <= MaxEntries
<1>1. ASSUME WrapInv, [WrapNext]_allVars, NEW c \in Callers, at'[c] = "store", at[c] # "store"
      PROVE  at[c] = "after" /\ err[c] = NoErr
    <2> USE <1>1 DEF WrapInv, LayersOK, Go, Done
    <2>1. PICK d \in Callers : Verdict(d)
        BY DEF WrapNext, Proceed, allVars, layers, Clock, Arrive, Hangup, Hit, Miss, Store, Quit,
               Guard, LoopTop, Answer, Backoff, Fail, GiveBack
    <2> QED BY <2>1 DEF Verdict
<1>2. WrapInv /\ [WrapNext]_allVars => [Cached]_allVars
    BY <1>1, EntriesStep DEF EntriesOK
<1> QED BY WrapInvariant, <1>2, PTL DEF WrapSpec, OnlyAnswersAreCached
=============================================================================
