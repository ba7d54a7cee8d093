--------------------------- MODULE SearchService ---------------------------
(***************************************************************************)
(* internal/search/service.go and merge.go: Service.Search, the fallback   *)
(* chain over a named provider and the fan-out over all of them, with the  *)
(* per-provider timeout and rate limiter of searchOne.                     *)
(*                                                                         *)
(* A provider's answer is abstracted to whether anything is left of it     *)
(* after fusion and selection: "full", "empty" or "err". What the merged   *)
(* list looks like (fuseResults, selectResults) is not modelled.           *)
(***************************************************************************)
EXTENDS Naturals, Sequences, SequencesExt, FiniteSets

CONSTANTS
    Requests,         \* concurrent Service.Search calls
    Names,            \* ProviderNames(): the sorted provider names, a sequence
    Burst,            \* burst of every provider's rate.Limiter
    ProviderTimeout   \* whether ServiceOptions.ProviderTimeout is set

\* The names are the keys of Service.providers, and none is AllProviders.
ASSUME NamesAssumption ==
    /\ Names \in Seq(Range(Names)) /\ Len(Names) > 0
    /\ \A i, j \in 1 .. Len(Names) : Names[i] = Names[j] => i = j
    /\ {"all", "invalid"} \cap Range(Names) = {}
ASSUME BurstAssumption == Burst \in Nat \ {0} /\ ProviderTimeout \in BOOLEAN

Providers == Range(Names)

\* What a request may ask for: one provider, all of them, or something the
\* service refuses (blank query, negative count, bad domain, unknown provider).
Targets == Providers \cup {"all", "invalid"}

VARIABLES
    pc,        \* control point of each request
    target,    \* what it asks for
    ctx,       \* its context: "live" or "dead"
    pos,       \* fallback chain: index of the current provider, from 1
    leg,       \* searchOne per request and provider
    timedOut,  \* the leg's own deadline has passed
    result,    \* what Search returned
    tokens     \* rate limiter of each provider

vars == <<pc, target, ctx, pos, leg, timedOut, result, tokens>>

NoResult == [kind |-> "none", provider |-> "none", from |-> {}, degraded |-> {}]

\* order: the primary first, then the others by name.
order(p) ==
    LET k == CHOOSE i \in 1 .. Len(Names) : Names[i] = p
    IN  <<p>> \o SubSeq(Names, 1, k - 1) \o SubSeq(Names, k + 1, Len(Names))

Init ==
    /\ pc = [r \in Requests |-> "idle"]
    /\ target = [r \in Requests |-> "invalid"]
    /\ ctx = [r \in Requests |-> "live"]
    /\ pos = [r \in Requests |-> 1]
    /\ leg = [r \in Requests |-> [p \in Providers |-> "off"]]
    /\ timedOut = [r \in Requests |-> [p \in Providers |-> FALSE]]
    /\ result = [r \in Requests |-> NoResult]
    /\ tokens = [p \in Providers |-> Burst]

Answered(r) == {p \in Providers : leg[r][p] \in {"full", "empty"}}
Failed(r) == {p \in Providers : leg[r][p] = "err"}
Return(r, res) ==
    /\ pc' = [pc EXCEPT ![r] = "done"]
    /\ result' = [result EXCEPT ![r] = res]
Error(kind) == [NoResult EXCEPT !.kind = kind]

-----------------------------------------------------------------------------
(* searchOne.                                                              *)

\* The context searchOne works under is the caller's, with its own deadline.
LegDead(r, p) == ctx[r] = "dead" \/ timedOut[r][p]

SetLeg(r, p, to) == leg' = [leg EXCEPT ![r][p] = to]

\* limiter.Wait takes a token.
TakeToken(r, p) ==
    /\ leg[r][p] = "wait"
    /\ tokens[p] > 0
    /\ tokens' = [tokens EXCEPT ![p] = @ - 1]
    /\ SetLeg(r, p, "call")
    /\ UNCHANGED <<pc, target, ctx, pos, timedOut, result>>

\* limiter.Wait fails: the context is done, or no token will come before its
\* deadline.
LimiterRefuses(r, p) ==
    /\ leg[r][p] = "wait"
    /\ LegDead(r, p) \/ (ProviderTimeout /\ tokens[p] = 0)
    /\ SetLeg(r, p, "err")
    /\ UNCHANGED <<pc, target, ctx, pos, timedOut, result, tokens>>

\* provider.Search returns; it honours its context, so a dead one makes it return.
ProviderReturns(r, p, outcome) ==
    /\ leg[r][p] = "call"
    /\ SetLeg(r, p, outcome)
    /\ UNCHANGED <<pc, target, ctx, pos, timedOut, result, tokens>>

LegTimesOut(r, p) ==
    /\ ProviderTimeout
    /\ leg[r][p] \in {"wait", "call"}
    /\ ~timedOut[r][p]
    /\ timedOut' = [timedOut EXCEPT ![r][p] = TRUE]
    /\ UNCHANGED <<pc, target, ctx, pos, leg, result, tokens>>

Outcomes == {"full", "empty", "err"}

searchOne(r, p) ==
    \/ TakeToken(r, p)
    \/ LimiterRefuses(r, p)
    \/ \E o \in Outcomes : ProviderReturns(r, p, o)

-----------------------------------------------------------------------------
(* Service.Search.                                                         *)

\* Validation and dispatch; the fan-out starts every leg at once.
Search(r, t) ==
    /\ pc[r] = "idle"
    /\ target' = [target EXCEPT ![r] = t]
    /\ \/ /\ t = "invalid"
          /\ Return(r, Error("invalid"))
          /\ UNCHANGED leg
       \/ /\ t = "all"
          /\ pc' = [pc EXCEPT ![r] = "fanout"]
          /\ leg' = [leg EXCEPT ![r] = [p \in Providers |-> "wait"]]
          /\ UNCHANGED result
       \/ /\ t \in Providers
          /\ pc' = [pc EXCEPT ![r] = "chain"]
          /\ UNCHANGED <<leg, result>>
    /\ UNCHANGED <<ctx, pos, timedOut, tokens>>

\* Top of the fallback loop: give up with the caller, or ask the next provider.
ChainNext(r) ==
    /\ pc[r] = "chain"
    /\ pos[r] <= Len(Names)
    /\ \/ /\ ctx[r] = "dead"
          /\ Return(r, Error("context"))
          /\ UNCHANGED leg
       \/ /\ ctx[r] = "live"
          /\ pc' = [pc EXCEPT ![r] = "leg"]
          /\ SetLeg(r, order(target[r])[pos[r]], "wait")
          /\ UNCHANGED result
    /\ UNCHANGED <<target, ctx, pos, timedOut, tokens>>

\* Mutant: a failed leg's own deadline is mistaken for the caller's.
callerGone_LegDeadline(r, p) == LegDead(r, p)

\* After a failed leg only the caller's context ends the chain.
callerGone(r, p) == ctx[r] = "dead"

\* The response of the provider that answered, with the failures before it.
served(r, p) ==
    [kind |-> "ok", provider |-> p, from |-> {p}, degraded |-> Failed(r)]

\* Mutant: the first answer without an error ends the chain.
hasResults_NoError(r, p) == leg[r][p] \in {"full", "empty"}

\* The answer has something left after selection (len(resp.Results) > 0).
hasResults(r, p) == leg[r][p] = "full"

\* Loop body after searchOne returned.
ChainStep(r) ==
    LET p == order(target[r])[pos[r]] IN
    /\ pc[r] = "leg"
    /\ leg[r][p] \in Outcomes
    /\ \/ /\ hasResults(r, p)
          /\ Return(r, served(r, p))
          /\ UNCHANGED pos
       \/ /\ leg[r][p] = "err" /\ callerGone(r, p)
          /\ Return(r, Error("context"))
          /\ UNCHANGED pos
       \/ /\ ~hasResults(r, p)
          /\ leg[r][p] = "err" => ~callerGone(r, p)
          /\ pc' = [pc EXCEPT ![r] = "chain"]
          /\ pos' = [pos EXCEPT ![r] = @ + 1]
          /\ UNCHANGED result
    /\ UNCHANGED <<target, ctx, leg, timedOut, tokens>>

\* Mutant: the loop stops one provider early.
exhausted_SkipsLast(r) == pos[r] >= Len(Names)

\* The range loop over order is over.
exhausted(r) == pos[r] > Len(Names)

\* Every provider was asked and none had results: the last empty response if
\* nobody failed, otherwise the joined errors (of the providers in degraded).
ChainEnd(r) ==
    /\ pc[r] = "chain"
    /\ exhausted(r)
    /\ IF Failed(r) = {}
       THEN Return(r, [kind |-> "ok", provider |-> Last(order(target[r])),
                       from |-> {Last(order(target[r]))}, degraded |-> {}])
       ELSE Return(r, [Error("all-failed") EXCEPT !.degraded = Failed(r)])
    /\ UNCHANGED <<target, ctx, pos, leg, timedOut, tokens>>

\* Mutant: the fan-out does not wait for the slower providers.
joinable_First(r) == Answered(r) # {} \/ Failed(r) = Providers

\* Mutant: a failed leg never counts as finished.
joinable_OnlyAnswers(r) == Answered(r) = Providers

\* wg.Wait: every leg has stored its outcome.
joinable(r) == Answered(r) \cup Failed(r) = Providers

\* Rest of searchAll, after wg.Wait.
FanoutJoin(r) ==
    /\ pc[r] = "fanout"
    /\ joinable(r)
    /\ \/ /\ ctx[r] = "dead"
          /\ Return(r, Error("context"))
       \/ /\ ctx[r] = "live" /\ Answered(r) = {}
          /\ Return(r, [Error("all-failed") EXCEPT !.degraded = Failed(r)])
       \/ /\ ctx[r] = "live" /\ Answered(r) # {}
          /\ Return(r, [kind |-> "ok", provider |-> "all",
                        from |-> Answered(r), degraded |-> Failed(r)])
    /\ UNCHANGED <<target, ctx, pos, leg, timedOut, tokens>>

-----------------------------------------------------------------------------
CallerGivesUp(r) ==
    /\ pc[r] \notin {"idle", "done"}
    /\ ctx[r] = "live"
    /\ ctx' = [ctx EXCEPT ![r] = "dead"]
    /\ UNCHANGED <<pc, target, pos, leg, timedOut, result, tokens>>

\* rate.Limiter earns a token over time.
Refill(p) ==
    /\ tokens[p] < Burst
    /\ tokens' = [tokens EXCEPT ![p] = @ + 1]
    /\ UNCHANGED <<pc, target, ctx, pos, leg, timedOut, result>>

\* Searches outside Requests, single or of a batch, share the limiters.
OtherTakesToken(p) ==
    /\ tokens[p] > 0
    /\ tokens' = [tokens EXCEPT ![p] = @ - 1]
    /\ UNCHANGED <<pc, target, ctx, pos, leg, timedOut, result>>

\* Steps of the request's own goroutine.
Control(r) == ChainNext(r) \/ ChainStep(r) \/ ChainEnd(r) \/ FanoutJoin(r)

Next ==
    \/ \E p \in Providers : Refill(p) \/ OtherTakesToken(p)
    \/ \E r \in Requests :
        \/ \E t \in Targets : Search(r, t)
        \/ Control(r)
        \/ CallerGivesUp(r)
        \/ \E p \in Providers : searchOne(r, p) \/ LegTimesOut(r, p)

Spec == Init /\ [][Next]_vars

(***************************************************************************)
(* Goroutines are scheduled, deadlines pass, and a provider or limiter     *)
(* whose context is dead returns. Nothing says a provider answers sooner,  *)
(* or that a waiting leg ever gets the token it competes for.              *)
(***************************************************************************)
FairSpec ==
    /\ Spec
    /\ \A r \in Requests :
        /\ WF_vars(Control(r))
        /\ \A p \in Providers :
            /\ WF_vars(LegTimesOut(r, p))
            /\ WF_vars(LegDead(r, p) /\ searchOne(r, p))

-----------------------------------------------------------------------------
(***************************************************************************)
(* A named search is served by the first provider of the order that has    *)
(* results: all before it were asked and had none, it has some, none after *)
(* it was asked, and the response lists exactly those that failed as       *)
(* degraded. An empty response is returned only when every provider was    *)
(* asked and answered without results (service.go:207-216, 257).           *)
(***************************************************************************)
FallbackServesFirst ==
    \A r \in Requests :
        target[r] \in Providers /\ result[r].kind = "ok" =>
            LET o == order(target[r])
                k == CHOOSE i \in 1 .. Len(o) : o[i] = result[r].provider
            IN  /\ \A i \in 1 .. k - 1 : leg[r][o[i]] \in {"empty", "err"}
                /\ \/ leg[r][o[k]] = "full"
                   \/ \A i \in 1 .. Len(o) : leg[r][o[i]] = "empty"
                /\ \A i \in k + 1 .. Len(o) : leg[r][o[i]] = "off"
                /\ result[r].degraded = {o[i] : i \in {j \in 1 .. k : leg[r][o[j]] = "err"}}

(***************************************************************************)
(* A fan-out accounts for every provider: each is either merged into the   *)
(* response or listed as degraded, and at least one was merged.            *)
(***************************************************************************)
FanoutAccountsForAll ==
    \A r \in Requests :
        target[r] = "all" /\ result[r].kind = "ok" =>
            /\ result[r].from # {}
            /\ result[r].from \cap result[r].degraded = {}
            /\ result[r].from \cup result[r].degraded = Providers

(***************************************************************************)
(* A search reports the caller's cancellation only when the caller did     *)
(* give up: a provider that ran into its own deadline never ends the       *)
(* request (service.go:242).                                               *)
(***************************************************************************)
TimeoutIsProvidersFault ==
    \A r \in Requests : result[r].kind = "context" => ctx[r] = "dead"

(***************************************************************************)
(* "all providers failed" is never said while some provider was not asked, *)
(* or had results, or when nobody failed.                                  *)
(***************************************************************************)
FailureIsTotal ==
    \A r \in Requests : result[r].kind = "all-failed" =>
        /\ Failed(r) # {}
        /\ \A p \in Providers : leg[r][p] \in {"empty", "err"}

\* Every search returns, even from providers that never answer.
EverySearchReturns ==
    \A r \in Requests : (pc[r] # "idle") ~> (pc[r] = "done")
=============================================================================
