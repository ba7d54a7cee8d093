----------------------------- MODULE SearchBatch -----------------------------
(***************************************************************************)
(* cmd/serve.go: the search_batch tool and runBatchSearch. One goroutine   *)
(* per query, a counting semaphore of maxBatchConcurrency, one outcome     *)
(* slot per query, and a result assembled once all goroutines are done.    *)
(*                                                                         *)
(* service.Search is what SearchService shows it to be: it returns a       *)
(* response or an error, and always returns. An error is identified by the *)
(* goroutine it happened in.                                               *)
(***************************************************************************)
EXTENDS Naturals, Sequences, SequencesExt, FiniteSets, FiniteSetsExt

CONSTANTS
    Texts,            \* query strings
    MaxQueries,       \* maxBatchQueries
    MaxConcurrency    \* maxBatchConcurrency

ASSUME BatchAssumption ==
    MaxQueries \in Nat \ {0} /\ MaxConcurrency \in Nat \ {0}

VARIABLES
    queries,   \* args.Queries: a sequence of texts
    phase,     \* of the handler: "call", "wait" (wg.Wait), "gather", "done"
    worker,    \* of each goroutine: "start", "search", "release", "done"
    outcomes,  \* outcomes[i]
    sem,       \* tokens in the semaphore channel
    ctx,       \* batchCtx: "live" or "dead"
    reply      \* what the tool returns

vars == <<queries, phase, worker, outcomes, sem, ctx, reply>>

Pending == [kind |-> "pending", query |-> "", who |-> 0]
Outcome(kind, i) == [kind |-> kind, query |-> queries[i], who |-> i]
NoReply == [kind |-> "none"]

Init ==
    /\ queries \in SeqOf(Texts, MaxQueries + 1)
    /\ phase = "call"
    /\ worker = [i \in 1 .. Len(queries) |-> "start"]
    /\ outcomes = [i \in 1 .. Len(queries) |-> Pending]
    /\ sem = 0
    /\ ctx = "live"
    /\ reply = NoReply

-----------------------------------------------------------------------------
\* The tool handler refuses an empty batch, one that is too large, and a count
\* that clampCount rejects.
Refuse ==
    /\ phase = "call"
    /\ \E count \in {"negative", "usable"} :
        Len(queries) = 0 \/ Len(queries) > MaxQueries \/ count = "negative"
    /\ phase' = "done"
    /\ reply' = [kind |-> "refused"]
    /\ UNCHANGED <<queries, worker, outcomes, sem, ctx>>

\* The loop starts every goroutine and goes on to wg.Wait.
Launch ==
    /\ phase = "call"
    /\ Len(queries) \in 1 .. MaxQueries
    /\ phase' = "wait"
    /\ UNCHANGED <<queries, worker, outcomes, sem, ctx, reply>>

Running(i) == phase = "wait" /\ i \in DOMAIN queries

\* case sem <- struct{}{}
Acquire(i) ==
    /\ Running(i) /\ worker[i] = "start"
    /\ sem < MaxConcurrency
    /\ sem' = sem + 1
    /\ worker' = [worker EXCEPT ![i] = "search"]
    /\ UNCHANGED <<queries, phase, outcomes, ctx, reply>>

\* Mutant: the semaphore is released on the cancelled path too.
Skip_Releases(i) ==
    /\ Running(i) /\ worker[i] = "start"
    /\ ctx = "dead"
    /\ outcomes' = [outcomes EXCEPT ![i] = Outcome("err", i)]
    /\ worker' = [worker EXCEPT ![i] = "release"]
    /\ UNCHANGED <<queries, phase, sem, ctx, reply>>

\* case <-ctx.Done()
Skip(i) ==
    /\ Running(i) /\ worker[i] = "start"
    /\ ctx = "dead"
    /\ outcomes' = [outcomes EXCEPT ![i] = Outcome("err", i)]
    /\ worker' = [worker EXCEPT ![i] = "done"]
    /\ UNCHANGED <<queries, phase, sem, ctx, reply>>

\* service.Search returns.
SearchReturns(i, kind) ==
    /\ Running(i) /\ worker[i] = "search"
    /\ outcomes' = [outcomes EXCEPT ![i] = Outcome(kind, i)]
    /\ worker' = [worker EXCEPT ![i] = "release"]
    /\ UNCHANGED <<queries, phase, sem, ctx, reply>>

\* Mutant: the slot is only given back after a success.
Release_OnSuccess(i) ==
    /\ Running(i) /\ worker[i] = "release"
    /\ sem' = IF outcomes[i].kind = "ok" THEN sem - 1 ELSE sem
    /\ worker' = [worker EXCEPT ![i] = "done"]
    /\ UNCHANGED <<queries, phase, outcomes, ctx, reply>>

\* The deferred <-sem (which blocks on an empty channel), then wg.Done.
Release(i) ==
    /\ Running(i) /\ worker[i] = "release"
    /\ sem > 0
    /\ sem' = sem - 1
    /\ worker' = [worker EXCEPT ![i] = "done"]
    /\ UNCHANGED <<queries, phase, outcomes, ctx, reply>>

-----------------------------------------------------------------------------
(* After wg.Wait the outcomes are gathered, position by position.           *)

Gathered(i) == phase = "gather" /\ i = Len(reply.items) + 1 /\ i <= Len(queries)

Joined ==
    /\ phase = "wait"
    /\ \A i \in DOMAIN worker : worker[i] = "done"
    /\ phase' = "gather"
    /\ reply' = [kind |-> "result", items |-> <<>>, responses |-> <<>>, errors |-> {}]
    /\ UNCHANGED <<queries, worker, outcomes, sem, ctx>>

\* Mutant: a later error of the same text replaces the first.
GatherError_LastWins(i) ==
    /\ Gathered(i) /\ outcomes[i].kind = "err"
    /\ reply' = [reply EXCEPT !.items = Append(@, outcomes[i]),
                              !.errors = {e \in @ : e.query # outcomes[i].query} \cup {outcomes[i]}]
    /\ UNCHANGED <<queries, phase, worker, outcomes, sem, ctx>>

\* The legacy Errors map keeps the first error of a text.
GatherError(i) ==
    /\ Gathered(i) /\ outcomes[i].kind = "err"
    /\ reply' = [reply EXCEPT !.items = Append(@, outcomes[i]),
                              !.errors = IF \E e \in @ : e.query = outcomes[i].query
                                         THEN @ ELSE @ \cup {outcomes[i]}]
    /\ UNCHANGED <<queries, phase, worker, outcomes, sem, ctx>>

GatherResponse(i) ==
    /\ Gathered(i) /\ outcomes[i].kind = "ok"
    /\ reply' = [reply EXCEPT !.items = Append(@, outcomes[i]),
                              !.responses = Append(@, outcomes[i])]
    /\ UNCHANGED <<queries, phase, worker, outcomes, sem, ctx>>

Answer ==
    /\ phase = "gather"
    /\ Len(reply.items) = Len(queries)
    /\ phase' = "done"
    /\ UNCHANGED <<queries, worker, outcomes, sem, ctx, reply>>

\* The client cancels or batch_timeout passes.
Expire ==
    /\ phase = "wait" /\ ctx = "live"
    /\ ctx' = "dead"
    /\ UNCHANGED <<queries, phase, worker, outcomes, sem, reply>>

Goroutine(i) ==
    \/ Acquire(i)
    \/ Skip(i)
    \/ \E kind \in {"ok", "err"} : SearchReturns(i, kind)
    \/ Release(i)

\* The tool handler and runBatchSearch around the goroutines.
Handler ==
    \/ Refuse \/ Launch \/ Joined \/ Answer
    \/ \E i \in 1 .. MaxQueries : GatherError(i) \/ GatherResponse(i)

Next ==
    \/ Handler \/ Expire
    \/ \E i \in 1 .. MaxQueries : Goroutine(i)

Spec == Init /\ [][Next]_vars

\* Goroutines are scheduled and service.Search returns; nothing guarantees
\* that the context ever dies.
FairSpec ==
    /\ Spec
    /\ WF_vars(Handler)
    /\ \A i \in 1 .. MaxQueries : WF_vars(Goroutine(i))

-----------------------------------------------------------------------------
(***************************************************************************)
(* The semaphore counts the queries being searched, no more and no less:   *)
(* so at most maxBatchConcurrency run at once and the deferred receive     *)
(* never blocks, whichever way the select went.                            *)
(***************************************************************************)
SemaphoreIsExact ==
    /\ sem = Cardinality({i \in DOMAIN worker : worker[i] \in {"search", "release"}})
    /\ sem <= MaxConcurrency

(***************************************************************************)
(* The result is lossless: one item per input query, in input order,       *)
(* duplicates included, each with its own outcome; the legacy fields are   *)
(* the answers in order and, per text, the error of its first failed       *)
(* occurrence, whatever order the goroutines finished in.                  *)
(***************************************************************************)
BatchIsLossless ==
    phase = "done" /\ reply.kind = "result" =>
        /\ Len(reply.items) = Len(queries)
        /\ \A i \in DOMAIN queries :
            reply.items[i].who = i /\ reply.items[i].query = queries[i]
        /\ {reply.responses[j] : j \in DOMAIN reply.responses} =
            {outcomes[i] : i \in {j \in DOMAIN queries : outcomes[j].kind = "ok"}}
        /\ \A j, k \in DOMAIN reply.responses :
            j < k => reply.responses[j].who < reply.responses[k].who
        /\ {e.who : e \in reply.errors} =
            {Min({i \in DOMAIN queries : queries[i] = t /\ outcomes[i].kind = "err"}) :
                t \in {queries[i] : i \in {j \in DOMAIN queries : outcomes[j].kind = "err"}}}

\* The batch answers, even when its context never dies and every query fails.
BatchReturns == <>(phase = "done")
=============================================================================
