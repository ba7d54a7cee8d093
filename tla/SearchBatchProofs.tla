-------------------------- MODULE SearchBatchProofs --------------------------
(***************************************************************************)
(* search_batch for every batch, every limit of queries and of             *)
(* concurrency: its semaphore is exact and its result loses nothing.       *)
(***************************************************************************)
EXTENDS SearchBatch, FiniteSetTheorems, SequenceTheorems, TLAPS

Positions == 1 .. Len(queries)

\* The handler, the goroutines and the context.
BatchTypeOK ==
    /\ queries \in Seq(Texts)
    /\ phase \in {"call", "wait", "gather", "done"}
    /\ worker \in [Positions -> {"start", "search", "release", "done"}]
    /\ DOMAIN outcomes = Positions
    /\ sem \in Nat

\* A goroutine fills its own slot, once, before it is done.
SlotsFilled ==
    \A i \in Positions :
        outcomes[i] \in IF worker[i] \in {"start", "search"} THEN {Pending}
                        ELSE {Outcome("ok", i), Outcome("err", i)}

Result == [kind : {"result"}, items : Seq(Range(outcomes)), responses : Seq(Range(outcomes)),
           errors : SUBSET Range(outcomes)]

(***************************************************************************)
(* What has been gathered of the first n outcomes: the outcomes in order,  *)
(* the answers in order, and for each text that failed its first error.    *)
(***************************************************************************)
ItemsUpTo(n) == \A i \in 1 .. n : reply.items[i] = outcomes[i]

ResponsesUpTo(n) ==
    /\ \A j \in 1 .. Len(reply.responses) :
        \E i \in 1 .. n : reply.responses[j] = outcomes[i] /\ outcomes[i].kind = "ok"
    /\ \A i \in 1 .. n : outcomes[i].kind = "ok" =>
        \E j \in 1 .. Len(reply.responses) : reply.responses[j] = outcomes[i]
    /\ \A j, k \in 1 .. Len(reply.responses) :
        j < k => reply.responses[j].who < reply.responses[k].who

\* E is the errors among the first n of o that no other of the same text precedes.
FirstErrors(E, o, n) ==
    /\ \A e \in E : \E k \in 1 .. n :
        /\ e = o[k] /\ e.kind = "err"
        /\ \A j \in 1 .. n : o[j].kind = "err" /\ o[j].query = o[k].query => k <= j
    /\ \A k \in 1 .. n : o[k].kind = "err" => \E e \in E : e.query = o[k].query

ErrorsUpTo(n) == FirstErrors(reply.errors, outcomes, n)

GatheredOK ==
    /\ phase \in {"call", "wait"} => reply = NoReply
    /\ phase = "gather" => reply.kind = "result"
    /\ phase \in {"gather", "done"} /\ reply.kind = "result" =>
        /\ \A i \in Positions : worker[i] = "done"
        /\ reply \in Result /\ Len(reply.items) <= Len(queries)
        /\ ItemsUpTo(Len(reply.items))
        /\ ResponsesUpTo(Len(reply.items))
        /\ ErrorsUpTo(Len(reply.items))
        /\ phase = "done" => Len(reply.items) = Len(queries)

BatchInv == BatchTypeOK /\ SlotsFilled /\ SemaphoreIsExact /\ GatheredOK

-----------------------------------------------------------------------------
LEMMA QueriesAreASequence == Init => queries \in Seq(Texts)
BY SeqDef, BatchAssumption DEF Init, SeqOf

LEMMA BatchInvInit == Init => BatchInv
<1> SUFFICES ASSUME Init PROVE BatchInv
    OBVIOUS
<1>1. queries \in Seq(Texts)
    BY QueriesAreASequence
<1>2. {i \in DOMAIN worker : worker[i] \in {"search", "release"}} = {}
    BY DEF Init
<1>3. SemaphoreIsExact
    <2>1. sem = 0 /\ Cardinality({i \in DOMAIN worker : worker[i] \in {"search", "release"}}) = 0
        BY <1>2, FS_EmptySet DEF Init
    <2>2. sem <= MaxConcurrency
        BY <2>1, BatchAssumption DEF BatchAssumption
    <2> QED BY <2>1, <2>2 DEF SemaphoreIsExact
<1> QED BY <1>1, <1>3 DEF Init, BatchInv, BatchTypeOK, SlotsFilled, GatheredOK, Positions

\* Slots are filled by their own goroutine while the handler waits.
LEMMA SlotsStep == BatchInv /\ [Next]_vars => BatchTypeOK' /\ SlotsFilled'
<1> DEFINE Goal == BatchTypeOK' /\ SlotsFilled'
<1> SUFFICES ASSUME BatchInv, [Next]_vars PROVE Goal
    OBVIOUS
<1> USE DEF BatchInv, BatchTypeOK, SlotsFilled, Positions, Outcome
<1>1. CASE Refuse \/ Launch \/ Joined \/ Answer \/ Expire \/ UNCHANGED vars
    BY <1>1 DEF Refuse, Launch, Joined, Answer, Expire, vars
<1>2. ASSUME NEW i \in 1 .. MaxQueries, GatherError(i) \/ GatherResponse(i) PROVE Goal
    BY <1>2 DEF GatherError, GatherResponse, Gathered
<1>3. ASSUME NEW i \in 1 .. MaxQueries, Acquire(i) PROVE Goal
    BY <1>3 DEF Acquire, Running
<1>4. ASSUME NEW i \in 1 .. MaxQueries, Skip(i) PROVE Goal
    BY <1>4 DEF Skip, Running
<1>5. ASSUME NEW i \in 1 .. MaxQueries, NEW kind \in {"ok", "err"}, SearchReturns(i, kind) PROVE Goal
    BY <1>5 DEF SearchReturns, Running
<1>6. ASSUME NEW i \in 1 .. MaxQueries, Release(i) PROVE Goal
    BY <1>6 DEF Release, Running
<1> HIDE DEF Goal
<1> QED BY <1>1, <1>2, <1>3, <1>4, <1>5, <1>6 DEF Next, Handler, Goroutine

\* Every way through the select and the defers keeps the count.
LEMMA SemaphoreStep == BatchInv /\ [Next]_vars => SemaphoreIsExact'
<1> SUFFICES ASSUME BatchInv, [Next]_vars PROVE SemaphoreIsExact'
    OBVIOUS
<1> DEFINE Holding == {i \in DOMAIN worker : worker[i] \in {"search", "release"}}
<1>1. IsFiniteSet(Holding) /\ Cardinality(Holding) = sem /\ sem \in Nat /\ sem <= MaxConcurrency
    <2>1. IsFiniteSet(Positions)
        BY FS_Interval DEF BatchInv, BatchTypeOK, Positions
    <2>2. Holding \subseteq Positions
        BY DEF BatchInv, BatchTypeOK
    <2>3. IsFiniteSet(Holding)
        BY <2>1, <2>2, FS_Subset
    <2> QED BY <2>3 DEF BatchInv, BatchTypeOK, SemaphoreIsExact
<1>2. CASE sem' = sem /\ Holding' = Holding
    BY <1>1, <1>2 DEF SemaphoreIsExact
<1>3. ASSUME NEW i \in 1 .. MaxQueries, Acquire(i) PROVE SemaphoreIsExact'
    <2>1. i \notin Holding /\ Holding' = Holding \cup {i} /\ sem' = sem + 1 /\ sem < MaxConcurrency
        BY <1>3 DEF Acquire, Running, BatchInv, BatchTypeOK, Positions
    <2> HIDE DEF Holding
    <2>2. Cardinality(Holding \cup {i}) = Cardinality(Holding) + 1
        BY <1>1, <2>1, FS_AddElement
    <2> QED BY <1>1, <2>1, <2>2, BatchAssumption DEF SemaphoreIsExact, Holding
<1>4. ASSUME NEW i \in 1 .. MaxQueries, Release(i) PROVE SemaphoreIsExact'
    <2>1. i \in Holding /\ Holding' = Holding \ {i} /\ sem' = sem - 1 /\ sem > 0
        BY <1>4 DEF Release, Running, BatchInv, BatchTypeOK, Positions
    <2> HIDE DEF Holding
    <2> DEFINE Others == Holding \ {i}
    <2>2. IsFiniteSet(Others) /\ i \notin Others /\ Holding = Others \cup {i}
        BY <1>1, <2>1, FS_Subset
    <2>3. Holding' = Others
        BY <2>1
    <2> HIDE DEF Others
    <2>4. Cardinality(Holding) = Cardinality(Others) + 1 /\ Cardinality(Others) \in Nat
        BY <2>2, FS_AddElement, FS_CardinalityType
    <2>5. sem' = Cardinality(Others) /\ sem' <= MaxConcurrency
        BY <1>1, <2>1, <2>2, <2>4, BatchAssumption
    <2> QED BY <2>3, <2>5 DEF SemaphoreIsExact, Holding
<1>5. ASSUME NEW i \in 1 .. MaxQueries,
             Skip(i) \/ \E kind \in {"ok", "err"} : SearchReturns(i, kind)
      PROVE  SemaphoreIsExact'
    BY <1>2, <1>5 DEF Skip, SearchReturns, Running, BatchInv, BatchTypeOK, Positions
<1>6. CASE Handler \/ Expire \/ UNCHANGED vars
    BY <1>2, <1>6 DEF Handler, Refuse, Launch, Joined, Answer, GatherError, GatherResponse, Expire, vars
<1> QED BY <1>3, <1>4, <1>5, <1>6 DEF Next, Goroutine

\* The outcome of a goroutine that is done is its own.
LEMMA DoneOutcomes ==
    ASSUME BatchInv, \A i \in Positions : worker[i] = "done"
    PROVE  \A i \in Positions :
                /\ outcomes[i].kind \in {"ok", "err"} /\ outcomes[i].who = i
                /\ outcomes[i].query = queries[i]
<1>1. \A i \in Positions : outcomes[i] \in {Outcome("ok", i), Outcome("err", i)}
    BY DEF BatchInv, SlotsFilled
<1> QED BY <1>1 DEF Outcome

\* What is known when the outcome of position i is gathered.
LEMMA GatheredFacts ==
    ASSUME BatchInv, NEW i, Gathered(i)
    PROVE  /\ reply \in Result /\ i \in Positions /\ Len(reply.items) = i - 1
           /\ \A j \in Positions : worker[j] = "done"
           /\ \A j \in Positions : outcomes[j] \in Range(outcomes)
           /\ \A j \in Positions :
                /\ outcomes[j].kind \in {"ok", "err"} /\ outcomes[j].who = j
                /\ outcomes[j].query = queries[j]
           /\ ItemsUpTo(i - 1) /\ ResponsesUpTo(i - 1) /\ ErrorsUpTo(i - 1)
<1>1. phase = "gather" /\ reply \in Result /\ i = Len(reply.items) + 1 /\ i <= Len(queries)
      /\ \A j \in Positions : worker[j] = "done"
    BY DEF BatchInv, GatheredOK, Gathered
<1>2. Len(reply.items) \in Nat /\ Len(queries) \in Nat
    BY <1>1, LenProperties DEF Result, BatchInv, BatchTypeOK
<1>3. i \in Positions /\ Len(reply.items) = i - 1
    BY <1>1, <1>2 DEF Positions
<1>4. ItemsUpTo(i - 1) /\ ResponsesUpTo(i - 1) /\ ErrorsUpTo(i - 1)
    BY <1>1, <1>3 DEF BatchInv, GatheredOK
<1>5. \A j \in Positions : outcomes[j] \in Range(outcomes)
    BY DEF Range, BatchInv, BatchTypeOK
<1> QED BY <1>1, <1>3, <1>4, <1>5, DoneOutcomes

\* The item of a position joins the items before it.
LEMMA ItemsGathered ==
    ASSUME BatchInv, NEW i, Gathered(i), UNCHANGED <<outcomes, queries>>,
           reply'.items = Append(reply.items, outcomes[i])
    PROVE  /\ reply'.items \in Seq(Range(outcomes)) /\ Len(reply'.items) = i
           /\ ItemsUpTo(i)'
<1>1. /\ reply \in Result /\ i \in Positions /\ Len(reply.items) = i - 1 /\ ItemsUpTo(i - 1)
      /\ outcomes[i] \in Range(outcomes)
    BY GatheredFacts
<1>2. reply.items \in Seq(Range(outcomes)) /\ i \in Nat
    BY <1>1 DEF Result, Positions
<1> QED BY <1>1, <1>2, AppendProperties DEF ItemsUpTo

\* An answer is appended after those of earlier positions.
LEMMA ResponseGathered ==
    ASSUME BatchInv, NEW i, GatherResponse(i) PROVE GatheredOK'
<1>1. /\ reply \in Result /\ i \in Positions /\ Gathered(i)
      /\ \A j \in Positions : worker[j] = "done"
      /\ outcomes[i] \in Range(outcomes) /\ outcomes[i].kind = "ok"
      /\ \A j \in Positions : outcomes[j].who = j
      /\ ResponsesUpTo(i - 1) /\ ErrorsUpTo(i - 1)
    BY GatheredFacts DEF GatherResponse
<1>2. /\ UNCHANGED <<queries, phase, worker, outcomes>> /\ phase = "gather"
      /\ reply' \in [kind : {"result"}, items : {Append(reply.items, outcomes[i])},
                     responses : {Append(reply.responses, outcomes[i])}, errors : {reply.errors}]
    BY <1>1 DEF GatherResponse, Gathered, Result
<1>3. /\ reply'.items \in Seq(Range(outcomes)) /\ Len(reply'.items) = i /\ ItemsUpTo(i)'
    BY <1>1, <1>2, ItemsGathered
<1>4. i \in Nat \ {0} /\ i <= Len(queries) /\ Positions = 1 .. Len(queries) /\ Len(queries) \in Nat
    BY <1>1, LenProperties DEF Positions, BatchInv, BatchTypeOK
<1> DEFINE R == reply.responses
           n == Len(R)
<1>5. R \in Seq(Range(outcomes)) /\ n \in Nat /\ reply'.responses = Append(R, outcomes[i])
    BY <1>1, <1>2 DEF Result
<1>6. /\ Append(R, outcomes[i]) \in Seq(Range(outcomes)) /\ Len(Append(R, outcomes[i])) = n + 1
      /\ \A j \in 1 .. n : Append(R, outcomes[i])[j] = R[j]
      /\ Append(R, outcomes[i])[n + 1] = outcomes[i]
    BY <1>1, <1>5, AppendProperties
<1>7. ResponsesUpTo(i)'
    <2> DEFINE A == reply'.responses
    <2>1. \A j \in 1 .. n + 1 : \E k \in 1 .. i : A[j] = outcomes[k] /\ outcomes[k].kind = "ok"
        BY <1>1, <1>4, <1>5, <1>6 DEF ResponsesUpTo
    <2>2. ASSUME NEW k \in 1 .. i, outcomes[k].kind = "ok"
          PROVE  \E j \in 1 .. n + 1 : A[j] = outcomes[k]
        <3>1. CASE k = i
            BY <1>5, <1>6, <3>1
        <3>2. CASE k \in 1 .. i - 1
            <4>1. PICK j \in 1 .. n : R[j] = outcomes[k]
                BY <1>1, <2>2, <3>2 DEF ResponsesUpTo
            <4>2. j \in 1 .. n + 1 /\ A[j] = R[j]
                BY <1>5, <1>6
            <4> QED BY <4>1, <4>2
        <3> QED BY <1>4, <3>1, <3>2
    <2>3. ASSUME NEW j \in 1 .. n + 1, NEW k \in 1 .. n + 1, j < k PROVE A[j].who < A[k].who
        <3>1. j \in 1 .. n /\ A[j] = R[j]
            BY <1>5, <1>6, <2>3
        <3>2. CASE k \in 1 .. n
            <4>1. A[k] = R[k]
                BY <1>5, <1>6, <3>2
            <4> QED BY <1>1, <2>3, <3>1, <3>2, <4>1 DEF ResponsesUpTo
        <3>3. CASE k = n + 1
            <4>1. PICK m \in 1 .. i - 1 : R[j] = outcomes[m]
                BY <1>1, <3>1 DEF ResponsesUpTo
            <4>2. R[j].who = m
                BY <1>1, <1>4, <4>1
            <4>3. A[k] = outcomes[i] /\ outcomes[i].who = i
                BY <1>1, <1>5, <1>6, <3>3
            <4> QED BY <1>4, <3>1, <4>2, <4>3
        <3>4. k \in 1 .. n \/ k = n + 1
            BY <1>5
        <3> HIDE DEF A, R, n
        <3> QED BY <3>2, <3>3, <3>4
    <2>4. outcomes' = outcomes /\ A = reply'.responses /\ Len(A) = n + 1
        BY <1>2, <1>5, <1>6
    <2> HIDE DEF A, R, n
    <2> QED BY <2>1, <2>2, <2>3, <2>4 DEF ResponsesUpTo
<1>8. ErrorsUpTo(i)'
    <2>1. FirstErrors(reply.errors, outcomes, i - 1)
        BY <1>1 DEF ErrorsUpTo
    <2>2. FirstErrors(reply.errors, outcomes, i)
        BY <1>1, <1>4, <2>1 DEF FirstErrors
    <2>3. reply'.errors = reply.errors /\ outcomes' = outcomes
        BY <1>2
    <2> QED BY <2>2, <2>3 DEF ErrorsUpTo
<1>9. reply' \in Result'
    BY <1>1, <1>2, <1>3, <1>5, <1>6 DEF Result
<1> QED BY <1>1, <1>2, <1>3, <1>4, <1>7, <1>8, <1>9 DEF GatheredOK, Positions

\* An error is kept if it is the first of its text.
LEMMA ErrorGathered ==
    ASSUME BatchInv, NEW i, GatherError(i) PROVE GatheredOK'
<1>1. /\ reply \in Result /\ i \in Positions /\ Gathered(i)
      /\ \A j \in Positions : worker[j] = "done"
      /\ outcomes[i] \in Range(outcomes) /\ outcomes[i].kind = "err"
      /\ \A j \in Positions : outcomes[j].who = j /\ outcomes[j].query = queries[j]
      /\ ResponsesUpTo(i - 1) /\ ErrorsUpTo(i - 1)
    BY GatheredFacts DEF GatherError
<1> DEFINE E == IF \E e \in reply.errors : e.query = outcomes[i].query
                THEN reply.errors ELSE reply.errors \cup {outcomes[i]}
<1>2. /\ UNCHANGED <<queries, phase, worker, outcomes>> /\ phase = "gather"
      /\ reply' \in [kind : {"result"}, items : {Append(reply.items, outcomes[i])},
                     responses : {reply.responses}, errors : {E}]
    BY <1>1 DEF GatherError, Gathered, Result
<1>3. /\ reply'.items \in Seq(Range(outcomes)) /\ Len(reply'.items) = i /\ ItemsUpTo(i)'
    BY <1>1, <1>2, ItemsGathered
<1>4. i \in Nat \ {0} /\ i <= Len(queries) /\ Positions = 1 .. Len(queries) /\ Len(queries) \in Nat
    BY <1>1, LenProperties DEF Positions, BatchInv, BatchTypeOK
<1>5. reply'.errors = E /\ reply'.responses = reply.responses
    BY <1>2
<1>6. ResponsesUpTo(i)'
    <2>1. ResponsesUpTo(i - 1) /\ outcomes[i].kind # "ok"
        BY <1>1 DEF GatherError
    <2>2. \A k \in 1 .. i : k = i \/ k \in 1 .. i - 1
        BY <1>4
    <2>3. \A k \in 1 .. i - 1 : k \in 1 .. i
        BY <1>4
    <2>4. UNCHANGED outcomes
        BY <1>2
    <2>5. \A j \in 1 .. Len(reply.responses) :
              \E k \in 1 .. i : reply.responses[j] = outcomes[k] /\ outcomes[k].kind = "ok"
        BY <2>1, <2>3, Zenon DEF ResponsesUpTo
    <2>6. \A k \in 1 .. i : outcomes[k].kind = "ok" =>
              \E j \in 1 .. Len(reply.responses) : reply.responses[j] = outcomes[k]
        BY <2>1, <2>2, Zenon DEF ResponsesUpTo
    <2>7. ResponsesUpTo(i)
        BY <2>1, <2>5, <2>6, Zenon DEF ResponsesUpTo
    <2>8. reply'.responses = reply.responses
        BY <1>5
    <2> QED BY <2>4, <2>7, <2>8 DEF ResponsesUpTo
<1>7. FirstErrors(E, outcomes, i)
    <2>1. FirstErrors(reply.errors, outcomes, i - 1)
        BY <1>1 DEF ErrorsUpTo
    <2>2. CASE \E e \in reply.errors : e.query = outcomes[i].query
        <3>1. E = reply.errors
            BY <2>2
        <3> HIDE DEF E
        <3>2. FirstErrors(reply.errors, outcomes, i)
            BY <1>4, <2>1, <2>2 DEF FirstErrors
        <3> QED BY <3>1, <3>2
    <2>3. CASE ~\E e \in reply.errors : e.query = outcomes[i].query
        <3>1. E = reply.errors \cup {outcomes[i]}
            BY <2>3
        <3>2. \A k \in 1 .. i - 1 : outcomes[k].kind = "err" => outcomes[k].query # outcomes[i].query
            BY <2>1, <2>3 DEF FirstErrors
        <3>3. \A e \in reply.errors : \E k \in 1 .. i :
                /\ e = outcomes[k] /\ e.kind = "err"
                /\ \A j \in 1 .. i :
                    outcomes[j].kind = "err" /\ outcomes[j].query = outcomes[k].query => k <= j
            BY <1>4, <2>1 DEF FirstErrors
        <3>4. \A j \in 1 .. i :
                outcomes[j].kind = "err" /\ outcomes[j].query = outcomes[i].query => i <= j
            BY <1>4, <3>2
        <3>5. \A k \in 1 .. i : outcomes[k].kind = "err" => \E e \in E : e.query = outcomes[k].query
            BY <1>4, <2>1, <3>1 DEF FirstErrors
        <3> HIDE DEF E
        <3>6. \A e \in E : \E k \in 1 .. i :
                /\ e = outcomes[k] /\ e.kind = "err"
                /\ \A j \in 1 .. i :
                    outcomes[j].kind = "err" /\ outcomes[j].query = outcomes[k].query => k <= j
            <4>1. i \in 1 .. i
                BY <1>4
            <4> QED BY <1>1, <3>1, <3>3, <3>4, <4>1
        <3> QED BY <3>5, <3>6 DEF FirstErrors
    <2> QED BY <2>2, <2>3
<1>8. ErrorsUpTo(i)'
    <2>1. outcomes' = outcomes
        BY <1>2
    <2> HIDE DEF E
    <2> QED BY <1>5, <1>7, <2>1 DEF ErrorsUpTo
<1>9. reply' \in Result'
    BY <1>1, <1>2, <1>3, <1>5 DEF Result
<1> QED BY <1>1, <1>2, <1>3, <1>4, <1>6, <1>8, <1>9 DEF GatheredOK, Positions

\* Until the handler gathers there is no result; then it grows by one position.
LEMMA GatheredStep == BatchInv /\ [Next]_vars => GatheredOK'
<1> SUFFICES ASSUME BatchInv, [Next]_vars PROVE GatheredOK'
    OBVIOUS
<1>1. CASE UNCHANGED vars
    BY <1>1 DEF BatchInv, GatheredOK, vars, Positions, Result, ItemsUpTo, ResponsesUpTo, ErrorsUpTo
<1>2. CASE Refuse
    BY <1>2 DEF Refuse, BatchInv, GatheredOK, NoReply
<1>3. CASE Launch
    BY <1>3 DEF Launch, BatchInv, GatheredOK, NoReply
<1>4. CASE Joined
    <2> DEFINE Start == [kind |-> "result", items |-> <<>>, responses |-> <<>>, errors |-> {}]
    <2>1. /\ phase' = "gather" /\ reply' = Start
          /\ UNCHANGED <<queries, worker, outcomes>> /\ \A i \in Positions : worker[i] = "done"
        BY <1>4 DEF Joined, BatchInv, BatchTypeOK
    <2>2. Start \in Result /\ Len(Start.items) = 0 /\ Len(Start.responses) = 0
        BY EmptySeq DEF Result
    <2>3. Len(queries) \in Nat
        BY LenProperties DEF BatchInv, BatchTypeOK
    <2>4. ItemsUpTo(0)' /\ ResponsesUpTo(0)' /\ ErrorsUpTo(0)'
        BY <2>1, <2>2 DEF ItemsUpTo, ResponsesUpTo, ErrorsUpTo, FirstErrors
    <2> HIDE DEF Start
    <2> QED BY <2>1, <2>2, <2>3, <2>4 DEF GatheredOK, Positions, Result
<1>5. CASE Answer
    <2>1. /\ UNCHANGED <<queries, worker, outcomes, reply>>
          /\ phase = "gather" /\ phase' = "done" /\ Len(reply.items) = Len(queries)
        BY <1>5 DEF Answer
    <2>2. /\ reply \in Result /\ \A i \in Positions : worker[i] = "done"
          /\ ItemsUpTo(Len(queries)) /\ ResponsesUpTo(Len(queries)) /\ ErrorsUpTo(Len(queries))
        BY <2>1 DEF BatchInv, GatheredOK
    <2>3. /\ (reply \in Result)' /\ (\A i \in Positions : worker[i] = "done")'
          /\ ItemsUpTo(Len(queries))' /\ ResponsesUpTo(Len(queries))' /\ ErrorsUpTo(Len(queries))'
        BY <2>1, <2>2 DEF Positions, Result, ItemsUpTo, ResponsesUpTo, ErrorsUpTo
    <2>4. Len(queries) \in Nat
        BY LenProperties DEF BatchInv, BatchTypeOK
    <2> QED BY <2>1, <2>3, <2>4 DEF GatheredOK
<1>6. CASE Expire
    BY <1>6 DEF Expire, BatchInv, GatheredOK, NoReply
<1>7. ASSUME NEW i \in 1 .. MaxQueries, Goroutine(i) PROVE GatheredOK'
    BY <1>7 DEF Goroutine, Acquire, Skip, SearchReturns, Release, Running, BatchInv, GatheredOK, NoReply
<1>8. ASSUME NEW i \in 1 .. MaxQueries, GatherError(i) PROVE GatheredOK'
    BY <1>8, ErrorGathered
<1>9. ASSUME NEW i \in 1 .. MaxQueries, GatherResponse(i) PROVE GatheredOK'
    BY <1>9, ResponseGathered
<1> QED BY <1>1, <1>2, <1>3, <1>4, <1>5, <1>6, <1>7, <1>8, <1>9 DEF Next, Handler

-----------------------------------------------------------------------------
(***************************************************************************)
(* Slots, semaphore and gathered result fit together at every step of      *)
(* every batch, whichever goroutines are cancelled.                        *)
(***************************************************************************)
THEOREM BatchInvariant == Spec => []BatchInv
<1>1. BatchInv /\ [Next]_vars => BatchInv'
    BY SlotsStep, SemaphoreStep, GatheredStep DEF BatchInv
<1> QED BY BatchInvInit, <1>1, PTL DEF Spec

(***************************************************************************)
(* The semaphore holds one token for each query being searched and never   *)
(* more than maxBatchConcurrency.                                          *)
(***************************************************************************)
THEOREM SemaphoreCounts == Spec => []SemaphoreIsExact
<1>1. BatchInv => SemaphoreIsExact
    BY DEF BatchInv
<1> QED BY BatchInvariant, <1>1, PTL

\* A position that is the first of its text to fail is the least one.
LEMMA FirstIsMin ==
    ASSUME NEW S \in SUBSET Nat, NEW i \in S, \A j \in S : i <= j
    PROVE  Min(S) = i
<1>1. Min(S) \in S /\ \A j \in S : Min(S) <= j
    BY Zenon DEF Min
<1>2. Min(S) <= i /\ i <= Min(S) /\ Min(S) \in Nat /\ i \in Nat
    BY <1>1
<1> QED BY <1>2

\* The gathered errors are those of each failed text's first position.
LEMMA ErrorsAreFirst ==
    ASSUME BatchInv, phase = "done", reply.kind = "result"
    PROVE  {e.who : e \in reply.errors} =
            {Min({i \in DOMAIN queries : queries[i] = t /\ outcomes[i].kind = "err"}) :
                t \in {queries[i] : i \in {j \in DOMAIN queries : outcomes[j].kind = "err"}}}
<1> DEFINE Failed(t) == {i \in DOMAIN queries : queries[i] = t /\ outcomes[i].kind = "err"}
           Texts_ == {queries[i] : i \in {j \in DOMAIN queries : outcomes[j].kind = "err"}}
<1>1. ErrorsUpTo(Len(queries)) /\ Positions = 1 .. Len(queries) /\ DOMAIN queries = Positions
      /\ Positions \subseteq Nat /\ \A i \in Positions : worker[i] = "done"
    BY LenProperties DEF BatchInv, BatchTypeOK, GatheredOK, Positions
<1>2. \A i \in Positions : outcomes[i].who = i /\ outcomes[i].query = queries[i]
    BY <1>1, DoneOutcomes
<1>3. ASSUME NEW e \in reply.errors PROVE e.query \in Texts_ /\ e.who = Min(Failed(e.query))
    <2>1. PICK i \in Positions :
            /\ e = outcomes[i] /\ e.kind = "err"
            /\ \A j \in Positions :
                outcomes[j].kind = "err" /\ outcomes[j].query = outcomes[i].query => i <= j
        BY <1>1 DEF ErrorsUpTo, FirstErrors
    <2>2. e.who = i /\ e.query = queries[i]
        BY <1>2, <2>1
    <2>3. i \in Failed(e.query) /\ Failed(e.query) \subseteq Nat
          /\ \A j \in Failed(e.query) : i <= j
        BY <1>1, <1>2, <2>1, <2>2
    <2>4. e.query \in Texts_
        BY <1>1, <2>1, <2>2
    <2> HIDE DEF Failed, Texts_
    <2> QED BY <2>2, <2>3, <2>4, FirstIsMin
<1>4. ASSUME NEW t \in Texts_ PROVE \E e \in reply.errors : e.query = t
    BY <1>1, <1>2 DEF ErrorsUpTo, FirstErrors
<1>5. ASSUME NEW t \in Texts_ PROVE \E e \in reply.errors : e.who = Min(Failed(t))
    <2> HIDE DEF Failed, Texts_
    <2> QED BY <1>3, <1>4
<1> HIDE DEF Failed, Texts_
<1>6. {e.who : e \in reply.errors} = {Min(Failed(t)) : t \in Texts_}
    BY <1>3, <1>5
<1> QED BY <1>6 DEF Failed, Texts_

(***************************************************************************)
(* The result of a batch has one item per query in input order, exactly    *)
(* the answers in order, and the first error of every text that failed,    *)
(* however many queries there are and whatever order they finished in.     *)
(***************************************************************************)
THEOREM BatchLosesNothing == Spec => []BatchIsLossless
<1>1. ASSUME BatchInv, phase = "done", reply.kind = "result"
      PROVE  /\ Len(reply.items) = Len(queries)
             /\ \A i \in DOMAIN queries :
                    reply.items[i].who = i /\ reply.items[i].query = queries[i]
             /\ {reply.responses[j] : j \in DOMAIN reply.responses} =
                    {outcomes[i] : i \in {j \in DOMAIN queries : outcomes[j].kind = "ok"}}
             /\ \A j, k \in DOMAIN reply.responses :
                    j < k => reply.responses[j].who < reply.responses[k].who
    <2>1. /\ Len(reply.items) = Len(queries) /\ DOMAIN queries = Positions
          /\ \A i \in Positions : worker[i] = "done"
          /\ reply \in Result /\ Positions = 1 .. Len(queries)
          /\ ItemsUpTo(Len(queries)) /\ ResponsesUpTo(Len(queries))
        BY <1>1, LenProperties DEF BatchInv, BatchTypeOK, GatheredOK, Positions
    <2>2. \A i \in Positions : outcomes[i].who = i /\ outcomes[i].query = queries[i]
        BY <1>1, <2>1, DoneOutcomes
    <2>3. DOMAIN reply.responses = 1 .. Len(reply.responses)
        BY <2>1 DEF Result
    <2>4. \A i \in DOMAIN queries : reply.items[i].who = i /\ reply.items[i].query = queries[i]
        BY <2>1, <2>2 DEF ItemsUpTo
    <2>5. {reply.responses[j] : j \in DOMAIN reply.responses} =
            {outcomes[i] : i \in {j \in DOMAIN queries : outcomes[j].kind = "ok"}}
        <3> DEFINE Ok == {j \in DOMAIN queries : outcomes[j].kind = "ok"}
        <3>1. \A j \in DOMAIN reply.responses : \E i \in Ok : reply.responses[j] = outcomes[i]
            BY <2>1, <2>3 DEF ResponsesUpTo
        <3>2. \A i \in Ok : \E j \in DOMAIN reply.responses : reply.responses[j] = outcomes[i]
            BY <2>1, <2>3 DEF ResponsesUpTo
        <3> HIDE DEF Ok
        <3>3. {reply.responses[j] : j \in DOMAIN reply.responses} = {outcomes[i] : i \in Ok}
            BY <3>1, <3>2
        <3> QED BY <3>3 DEF Ok
    <2>6. \A j, k \in DOMAIN reply.responses :
            j < k => reply.responses[j].who < reply.responses[k].who
        BY <2>1, <2>3 DEF ResponsesUpTo
    <2> QED BY <2>1, <2>4, <2>5, <2>6
<1>2. BatchInv => BatchIsLossless
    BY <1>1, ErrorsAreFirst DEF BatchIsLossless
<1> QED BY BatchInvariant, <1>2, PTL
=============================================================================
