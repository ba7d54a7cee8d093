------------------------------ MODULE AnubisPoW ------------------------------
(***************************************************************************)
(* internal/reader/anubis.go: solveAnubisPoW. Workers search interleaved   *)
(* residue classes of nonces; the first to find a solution wins a          *)
(* compare-and-swap and sends it on a buffered channel; the caller selects *)
(* between that channel, `done` (all workers have returned) and its own    *)
(* context.                                                                *)
(*                                                                         *)
(* Go's select picks any ready case when several are ready as it starts;   *)
(* when none is, the goroutine parks and the first event that comes wins.  *)
(***************************************************************************)
EXTENDS Naturals, FiniteSets

CONSTANTS
    Workers,   \* runtime.GOMAXPROCS(0) after clamping
    MaxNonce   \* bound: no solution lies beyond it

Worker == 0 .. Workers - 1

VARIABLES
    solutions,  \* nonces whose hash has the required prefix
    ctx,        \* the caller's context: "live" or "dead"
    workCtx,    \* the derived context: "live" or "dead"
    wpc,        \* control point of each worker
    nonce,      \* its current nonce, at most MaxNonce + 1
    stopped,    \* the atomic flag
    found,      \* the buffered channel: a set of at most one nonce
    sent,       \* nonces ever sent on it
    done,       \* whether `done` is closed
    main,       \* caller: "running", "parked", "returned"
    result      \* what solveAnubisPoW returned

vars == <<solutions, ctx, workCtx, wpc, nonce, stopped, found, sent, done, main, result>>

NoResult == [kind |-> "none"]
Solved(n) == [kind |-> "solved", nonce |-> n]

Init ==
    /\ solutions \in SUBSET (0 .. MaxNonce)
    /\ ctx = "live" /\ workCtx = "live"
    /\ wpc = [w \in Worker |-> "check"]
    /\ nonce = [w \in Worker |-> w]
    /\ stopped = FALSE
    /\ found = {} /\ sent = {} /\ done = FALSE
    /\ main = "running"
    /\ result = NoResult

Move(w, from, to) == wpc[w] = from /\ wpc' = [wpc EXCEPT ![w] = to]

-----------------------------------------------------------------------------
(* A worker.                                                               *)

\* Mutant: a cancelled search goes on.
mustStop_FlagOnly == stopped

\* stopped.Load() || workCtx.Err() != nil
mustStop == stopped \/ workCtx = "dead"

Check(w) ==
    /\ Move(w, "check", IF mustStop THEN "exit" ELSE "hash")
    /\ UNCHANGED <<solutions, ctx, workCtx, nonce, stopped, found, sent, done, main, result>>

\* nonce += step
nextNonce(n) == IF n + Workers > MaxNonce THEN MaxNonce + 1 ELSE n + Workers

\* Hash the nonce; go on by `step` when it is not a solution. Beyond MaxNonce
\* the search just continues.
Hash(w) ==
    /\ IF nonce[w] \in solutions
       THEN Move(w, "hash", "claim") /\ UNCHANGED nonce
       ELSE /\ Move(w, "hash", "check")
            /\ nonce' = [nonce EXCEPT ![w] = nextNonce(@)]
    /\ UNCHANGED <<solutions, ctx, workCtx, stopped, found, sent, done, main, result>>

\* Mutant: a plain load and store in place of CompareAndSwap.
claims_Always == TRUE

\* Whether stopped.CompareAndSwap(false, true) succeeds.
claims == ~stopped

Claim(w) ==
    /\ Move(w, "claim", IF claims THEN "send" ELSE "exit")
    /\ stopped' = TRUE
    /\ UNCHANGED <<solutions, ctx, workCtx, nonce, found, sent, done, main, result>>

\* The send hands the solution to a parked caller, or else fills the buffer.
Send(w) ==
    /\ Move(w, "send", "exit")
    /\ sent' = sent \cup {nonce[w]}
    /\ \/ /\ main = "parked"
          /\ main' = "returned" /\ result' = Solved(nonce[w]) /\ workCtx' = "dead"
          /\ UNCHANGED found
       \/ /\ main # "parked" /\ found = {}
          /\ found' = {nonce[w]}
          /\ UNCHANGED <<main, result, workCtx>>
    /\ UNCHANGED <<solutions, ctx, nonce, stopped, done>>

\* The helper goroutine: wg.Wait, then close(done), which wakes a parked caller.
Close ==
    /\ \A w \in Worker : wpc[w] = "exit"
    /\ ~done
    /\ done' = TRUE
    /\ IF main = "parked"
       THEN /\ main' = "returned"
            /\ result' = [kind |-> IF workCtx = "dead" THEN "context" ELSE "unsolved"]
            /\ workCtx' = "dead"
       ELSE UNCHANGED <<main, result, workCtx>>
    /\ UNCHANGED <<solutions, ctx, wpc, nonce, stopped, found, sent>>

-----------------------------------------------------------------------------
(* The caller's select; returning runs the deferred cancel.                *)

Return(r) ==
    /\ main' = "returned" /\ result' = r /\ workCtx' = "dead"

Select ==
    /\ main = "running"
    /\ \/ \E n \in found : Return(Solved(n))
       \/ done /\ Return([kind |-> IF workCtx = "dead" THEN "context" ELSE "unsolved"])
       \/ ctx = "dead" /\ Return([kind |-> "context"])
       \/ /\ found = {} /\ ~done /\ ctx = "live"
          /\ main' = "parked"
          /\ UNCHANGED <<result, workCtx>>
    /\ UNCHANGED <<solutions, ctx, wpc, nonce, stopped, found, sent, done>>

\* The read times out or its caller gives up.
Cancel ==
    /\ ctx = "live" /\ main # "returned"
    /\ ctx' = "dead" /\ workCtx' = "dead"
    /\ IF main = "parked"
       THEN main' = "returned" /\ result' = [kind |-> "context"]
       ELSE UNCHANGED <<main, result>>
    /\ UNCHANGED <<solutions, wpc, nonce, stopped, found, sent, done>>

Work(w) == Check(w) \/ Hash(w) \/ Claim(w) \/ Send(w)

\* A quiet end state: everything has returned.
Finished ==
    /\ main = "returned" /\ done
    /\ UNCHANGED vars

Next == Select \/ Close \/ Cancel \/ Finished \/ \E w \in Worker : Work(w)

Spec == Init /\ [][Next]_vars

-----------------------------------------------------------------------------
(***************************************************************************)
(* What is submitted to the site is a solution, and one solution at most   *)
(* is ever sent: a second sender would block on the full channel for ever. *)
(***************************************************************************)
OneValidSolution ==
    /\ result.kind = "solved" => result.nonce \in solutions
    /\ sent \subseteq solutions
    /\ Cardinality({w \in Worker : wpc[w] = "send"}) + Cardinality(sent) <= 1

(***************************************************************************)
(* No goroutine outlives its use: whether the solver succeeds, fails or is *)
(* cancelled, every worker and the helper return.                          *)
(***************************************************************************)
NothingLeaks == (main = "returned") ~> (done /\ \A w \in Worker : wpc[w] = "exit")

(***************************************************************************)
(* "solveAnubisPoW finds nonce such that SHA256(randomData +               *)
(* decimal(nonce)) has difficulty leading hexadecimal zeroes"              *)
(* (anubis.go:77): unless it is cancelled it returns one.                  *)
(***************************************************************************)
FindsNonce == main = "returned" /\ ctx = "live" => result.kind = "solved"
=============================================================================
