--------------------------- MODULE ReadWithSolver ---------------------------
(***************************************************************************)
(* WebRead composed with AnubisPoW: a read that meets a challenge runs     *)
(* solveAnubisPoW under its own context, waits for the result, and submits *)
(* it. The solver's goroutines outlive the call that started them, and the *)
(* read that made it: they go on while the read submits the proof, falls   *)
(* back to the archive, or has returned.                                   *)
(*                                                                         *)
(* A read may solve two challenges, of the page and of its snapshot. Two   *)
(* searches share nothing, so that the second waits here until the         *)
(* goroutines of the first are gone.                                       *)
(***************************************************************************)
EXTENDS WebRead

CONSTANTS Workers, MaxNonce

ASSUME SolverAssumption == Workers \in Nat \ {0} /\ MaxNonce \in Nat

VARIABLES solutions, workCtx, wpc, nonce, stopped, found, sent, done, main, result

Solver == INSTANCE AnubisPoW

callVars == <<target, pc, got, absent, pages, ended, thread, content, err, outcome>>
ownVars == <<solutions, workCtx, wpc, nonce, stopped, found, sent, done, main, result>>
allVars == <<vars, ownVars>>

\* Before a challenge is met there is no search.
SolvingInit ==
    /\ Init
    /\ solutions = {} /\ workCtx = "live"
    /\ wpc = [w \in Solver!Worker |-> "exit"]
    /\ nonce = [w \in Solver!Worker |-> w]
    /\ stopped = FALSE /\ found = {} /\ sent = {} /\ done = TRUE
    /\ main = "idle" /\ result = Solver!NoResult

\* Everything but the proof.
ReadStep == pc \notin Proofs /\ Read /\ UNCHANGED ownVars

\* passAnubisChallenge calls solveAnubisPoW, whose goroutines start.
BeginSearch ==
    /\ pc \in Proofs /\ main = "idle" /\ done
    /\ solutions' \in SUBSET (0 .. MaxNonce)
    /\ workCtx' = ctx
    /\ wpc' = [w \in Solver!Worker |-> "check"]
    /\ nonce' = [w \in Solver!Worker |-> w]
    /\ stopped' = FALSE /\ found' = {} /\ sent' = {} /\ done' = FALSE
    /\ main' = "running" /\ result' = Solver!NoResult
    /\ UNCHANGED vars

\* Mutant: the proof is submitted whatever the search returned.
solved_Any == TRUE

solved == result.kind = "solved"

\* The search is over: its nonce is submitted, or its error returned.
EndSearch(page) ==
    /\ pc = Proof(page) /\ main = "returned"
    /\ main' = "idle"
    /\ IF solved THEN passAnubisChallenge(page)
       ELSE /\ PageFails(Proof(page), page, 0)
            /\ UNCHANGED <<target, ctx, got, absent, pages, ended, thread, content>>
    /\ UNCHANGED <<solutions, workCtx, wpc, nonce, stopped, found, sent, done, result>>

\* The context ends, and with it that of the search.
CancelRead ==
    /\ Cancel
    /\ IF main \in {"running", "parked"} THEN Solver!Cancel ELSE UNCHANGED ownVars

Searching(step) == step /\ UNCHANGED callVars
Work(w) == Searching(Solver!Work(w))
SolverSelects == Searching(Solver!Select)
SolverCloses == Searching(Solver!Close)

SolvingNext ==
    \/ ReadStep \/ BeginSearch \/ CancelRead
    \/ \E page \in Pages : EndSearch(page)
    \/ SolverSelects \/ SolverCloses
    \/ \E w \in Solver!Worker : Work(w)

SolvingSpec == SolvingInit /\ [][SolvingNext]_allVars

\* Every request ends by the client's own timeout and every goroutine is
\* scheduled; nobody has to cancel.
FairSpec ==
    /\ SolvingSpec
    /\ WF_allVars(ReadStep) /\ WF_allVars(BeginSearch)
    /\ WF_allVars(\E page \in Pages : EndSearch(page))
    /\ WF_allVars(SolverSelects) /\ WF_allVars(SolverCloses)
    /\ \A w \in Solver!Worker : WF_allVars(Work(w))

-----------------------------------------------------------------------------
(***************************************************************************)
(* What is submitted to the site is a solution, one at most is ever sent   *)
(* on the channel, and a proof is only accepted for a solved challenge     *)
(* (anubis.go:112, 142).                                                   *)
(***************************************************************************)
OneValidSolution ==
    /\ Solver!OneValidSolution
    /\ got \cap Proofs # {} => result.kind = "solved" /\ result.nonce \in solutions

(***************************************************************************)
(* No goroutine outlives its use: whether the search succeeds, fails or is *)
(* cancelled, and whatever the read does then, all workers and the helper  *)
(* return (anubis.go:106).                                                 *)
(***************************************************************************)
NothingLeaks == Solver!NothingLeaks

(***************************************************************************)
(* Every read returns, however its sources answer; a challenge without a   *)
(* solution is the one thing that only the context ends.                   *)
(***************************************************************************)
EveryReadReturns ==
    [](main \in {"running", "parked"} => solutions # {}) => <>(pc = "done")
=============================================================================
