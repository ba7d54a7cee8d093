------------------------ MODULE SearchServiceProofs ------------------------
(***************************************************************************)
(* Service.Search for any number of concurrent calls and of providers:     *)
(* what a named search, a fan-out, a failure and a cancellation say of the *)
(* providers that were asked.                                              *)
(***************************************************************************)
EXTENDS SearchService, SequenceTheorems, TLAPS

Legs == {"off", "wait", "call", "full", "empty", "err"}
Barren == {"empty", "err"}

TypeOK ==
    /\ pc \in [Requests -> {"idle", "chain", "leg", "fanout", "done"}]
    /\ target \in [Requests -> Targets]
    /\ ctx \in [Requests -> {"live", "dead"}]
    /\ pos \in [Requests -> Nat]
    /\ leg \in [Requests -> [Providers -> Legs]]
    /\ timedOut \in [Requests -> [Providers -> BOOLEAN]]
    /\ result \in [Requests -> [kind : {"none", "invalid", "context", "all-failed", "ok"},
                                provider : Providers \cup {"none", "all"},
                                from : SUBSET Providers, degraded : SUBSET Providers]]

(***************************************************************************)
(* A named search has asked the providers before its position, in vain,    *)
(* and none after it. Only while it waits for the one at its position may  *)
(* that leg be under way, so that the legs of a search that is over do not *)
(* change any more.                                                        *)
(***************************************************************************)
InVain(r, n) == \A i \in 1 .. n : leg[r][order(target[r])[i]] \in Barren
NoResults(r) == \A p \in Providers : leg[r][p] = "empty"
NotAsked(r, n) == \A i \in n .. Len(Names) : leg[r][order(target[r])[i]] = "off"

Named(r) ==
    target[r] \in Providers =>
        /\ pc[r] \in {"chain", "leg", "done"}
        /\ pos[r] \in 1 .. Len(Names) + 1
        /\ pc[r] = "chain" => InVain(r, pos[r] - 1) /\ NotAsked(r, pos[r])
        /\ pc[r] = "leg" => /\ InVain(r, pos[r] - 1) /\ NotAsked(r, pos[r] + 1)
                            /\ pos[r] <= Len(Names)
                            /\ leg[r][order(target[r])[pos[r]]] # "off"
        /\ pc[r] = "done" => /\ \A p \in Providers : leg[r][p] \notin {"wait", "call"}
                             /\ result[r].kind \in {"context", "all-failed", "ok"}
        /\ result[r].kind = "all-failed" => InVain(r, Len(Names)) /\ Failed(r) # {}
        /\ result[r].kind = "ok" =>
            /\ result[r].degraded = Failed(r)
            /\ \E k \in 1 .. Len(Names) :
                /\ result[r].provider = order(target[r])[k]
                /\ InVain(r, k - 1) /\ NotAsked(r, k + 1)
                /\ leg[r][order(target[r])[k]] = "full" \/ NoResults(r)

\* A fan-out that has returned had an outcome from every leg.
FannedOut(r) ==
    target[r] = "all" =>
        /\ pc[r] \in {"fanout", "done"}
        /\ pc[r] = "done" => /\ Answered(r) \cup Failed(r) = Providers
                             /\ result[r].kind \in {"context", "all-failed", "ok"}
        /\ result[r].kind = "all-failed" => Answered(r) = {}
        /\ result[r].kind = "ok" =>
            /\ Answered(r) # {}
            /\ result[r].from = Answered(r) /\ result[r].degraded = Failed(r)

\* A call that is not over has no result, one that has not begun no leg.
Unfinished(r) ==
    /\ pc[r] # "done" => result[r] = NoResult
    /\ pc[r] = "idle" => pos[r] = 1 /\ target[r] = "invalid"
    /\ target[r] = "invalid" => /\ pc[r] \in {"idle", "done"}
                                /\ \A p \in Providers : leg[r][p] = "off"
                                /\ result[r].kind \in {"none", "invalid"}
    /\ result[r].kind = "context" => ctx[r] = "dead"

RequestOK(r) == Named(r) /\ FannedOut(r) /\ Unfinished(r)

ServiceInv == TypeOK /\ \A r \in Requests : RequestOK(r)

-----------------------------------------------------------------------------
\* The order of the chain is the configured providers, each once.
LEMMA OrderIsPermutation ==
    ASSUME NEW p \in Providers
    PROVE  /\ Len(order(p)) = Len(Names)
           /\ \A i \in 1 .. Len(Names) : order(p)[i] \in Providers
           /\ \A i, j \in 1 .. Len(Names) : order(p)[i] = order(p)[j] => i = j
           /\ \A q \in Providers : \E i \in 1 .. Len(Names) : order(p)[i] = q
<1> DEFINE k == CHOOSE i \in 1 .. Len(Names) : Names[i] = p
           N == Len(Names)
<1>1. k \in 1 .. N /\ Names[k] = p /\ N \in Nat
    BY NamesAssumption DEF Providers, Range
<1>2. \A i \in 1 .. N : Names[i] \in Providers
    BY NamesAssumption DEF Providers, Range
<1> HIDE DEF k
<1> DEFINE a == SubSeq(Names, 1, k - 1)
             b == SubSeq(Names, k + 1, N)
<1>4. /\ a \in Seq(Providers) /\ Len(a) = k - 1 /\ \A i \in 1 .. k - 1 : a[i] = Names[i]
      /\ b \in Seq(Providers) /\ Len(b) = N - k /\ \A i \in 1 .. N - k : b[i] = Names[k + i]
    BY <1>1, <1>2, NamesAssumption DEF Providers
<1>5. order(p) = <<p>> \o a \o b
    BY DEF order, k
<1> HIDE DEF a, b
<1>6. /\ Len(order(p)) = N
      /\ \A i \in 1 .. N : order(p)[i] = IF i = 1 THEN p ELSE IF i <= k THEN Names[i - 1] ELSE Names[i]
  <2> DEFINE c == <<p>> \o a
  <2>1. /\ c \in Seq(Providers) /\ Len(c) = k /\ c[1] = p
        /\ \A i \in 2 .. k : c[i] = Names[i - 1]
      BY <1>1, <1>4, ConcatProperties
  <2> HIDE DEF c
  <2>2. /\ Len(c \o b) = N
        /\ \A i \in 1 .. N : (c \o b)[i] = IF i <= k THEN c[i] ELSE b[i - k]
    <3>1. Len(c) + Len(b) = N
        BY <1>1, <1>4, <2>1
    <3>2. /\ Len(c \o b) = Len(c) + Len(b)
          /\ \A i \in 1 .. Len(c) + Len(b) : (c \o b)[i] = IF i <= Len(c) THEN c[i] ELSE b[i - Len(c)]
        BY <1>4, <2>1, ConcatProperties, ZenonT(60)
    <3> QED BY <2>1, <3>1, <3>2
  <2>3. ASSUME NEW i \in 1 .. N
        PROVE  (c \o b)[i] = IF i = 1 THEN p ELSE IF i <= k THEN Names[i - 1] ELSE Names[i]
    <3>1. CASE i <= k
        BY <1>1, <2>1, <2>2, <3>1
    <3>2. CASE i > k
      <4>1. i - k \in 1 .. N - k /\ k + (i - k) = i /\ i # 1 /\ ~(i <= k)
          BY <1>1, <3>2
      <4>2. b[i - k] = Names[k + (i - k)]
          BY <1>4, <4>1
      <4>3. Names[k + (i - k)] = Names[i]
          BY <4>1
      <4> QED BY <2>2, <4>1, <4>2, <4>3
    <3>3. i <= k \/ i > k
        BY <1>1
    <3> QED BY <3>1, <3>2, <3>3
  <2> QED BY <1>5, <2>2, <2>3 DEF c
<1>7. \A i \in 1 .. N : order(p)[i] \in Providers
    BY <1>1, <1>2, <1>6
<1>8. \A i, j \in 1 .. N : order(p)[i] = order(p)[j] => i = j
    BY <1>1, <1>6, NamesAssumption
<1>9. ASSUME NEW q \in Providers PROVE \E i \in 1 .. N : order(p)[i] = q
  <2>1. PICK i \in 1 .. N : Names[i] = q
      BY NamesAssumption DEF Providers, Range
  <2>2. CASE i < k
    <3>1. i + 1 \in 1 .. N /\ i + 1 # 1 /\ i + 1 <= k /\ (i + 1) - 1 = i
        BY <1>1, <2>2
    <3> QED BY <1>6, <2>1, <3>1
  <2>3. CASE i = k
      BY <1>1, <1>6, <2>1, <2>3
  <2>4. CASE i > k
      BY <1>1, <1>6, <2>1, <2>4
  <2> QED BY <1>1, <2>2, <2>3, <2>4
<1> QED
    BY <1>6, <1>7, <1>8, <1>9

-----------------------------------------------------------------------------
\* A step that leaves a call alone, but for its context, keeps what is known
\* of it.
LEMMA Frame ==
    ASSUME NEW q \in Requests, RequestOK(q),
           pc'[q] = pc[q], target'[q] = target[q], pos'[q] = pos[q], leg'[q] = leg[q],
           result'[q] = result[q], ctx'[q] = ctx[q] \/ ctx'[q] = "dead"
    PROVE  RequestOK(q)'
BY DEF RequestOK, Named, FannedOut, Unfinished, InVain, NotAsked, NoResults, Answered, Failed

\* The caller's context, the legs' deadlines and the limiters.
LEMMA OutsideStep ==
    ASSUME ServiceInv,
           \/ \E p \in Providers : Refill(p) \/ OtherTakesToken(p)
           \/ \E r \in Requests : CallerGivesUp(r) \/ \E p \in Providers : LegTimesOut(r, p)
           \/ UNCHANGED vars
    PROVE  ServiceInv'
<1> USE DEF Refill, OtherTakesToken, CallerGivesUp, LegTimesOut, vars
<1>1. TypeOK'
    <2>1. UNCHANGED <<pc, target, pos, leg, result>>
        OBVIOUS
    <2>2. ctx' \in [Requests -> {"live", "dead"}]
        BY SMTT(30) DEF ServiceInv, TypeOK
    <2>3. timedOut' \in [Requests -> [Providers -> BOOLEAN]]
        <3>1. ASSUME NEW r \in Requests, NEW p \in Providers, LegTimesOut(r, p)
              PROVE  timedOut' \in [Requests -> [Providers -> BOOLEAN]]
            BY <3>1 DEF ServiceInv, TypeOK
        <3>2. CASE UNCHANGED timedOut
            BY <3>2 DEF ServiceInv, TypeOK
        <3> QED BY <3>1, <3>2
    <2> QED BY <2>1, <2>2, <2>3 DEF ServiceInv, TypeOK
<1>2. ASSUME NEW q \in Requests PROVE RequestOK(q)'
    <2>1. UNCHANGED <<pc, target, pos, leg, result>>
        OBVIOUS
    <2>2. ctx'[q] = ctx[q] \/ ctx'[q] = "dead"
        BY DEF ServiceInv, TypeOK
    <2> QED BY <2>1, <2>2, Frame DEF ServiceInv
<1> QED BY <1>1, <1>2 DEF ServiceInv

\* A leg under way goes on or ends; no other leg moves.
LEMMA LegStep ==
    ASSUME ServiceInv, NEW r \in Requests, NEW p \in Providers, searchOne(r, p)
    PROVE  ServiceInv'
<1>1. PICK to \in Legs \ {"off"} : leg' = [leg EXCEPT ![r][p] = to]
    BY DEF searchOne, TakeToken, LimiterRefuses, ProviderReturns, SetLeg, Outcomes, Legs
<1>2. /\ leg[r][p] \in {"wait", "call"}
      /\ UNCHANGED <<pc, target, ctx, pos, timedOut, result>>
    BY DEF searchOne, TakeToken, LimiterRefuses, ProviderReturns
<1>3. TypeOK'
    BY <1>1, <1>2 DEF ServiceInv, TypeOK
<1>4. ASSUME NEW q \in Requests, q # r PROVE RequestOK(q)'
    <2>1. leg'[q] = leg[q]
        BY <1>1, <1>4 DEF ServiceInv, TypeOK
    <2> QED BY <1>2, <2>1, Frame DEF ServiceInv
<1>5. RequestOK(r)
    BY DEF ServiceInv
<1>6. /\ leg'[r][p] = to
      /\ \A o \in Providers : o # p => leg'[r][o] = leg[r][o]
    BY <1>1 DEF ServiceInv, TypeOK
<1>7. Named(r)'
    <2> SUFFICES ASSUME target[r] \in Providers PROVE Named(r)'
        BY <1>2 DEF Named
    <2> DEFINE o == order(target[r])
    <2>1. /\ \A i \in 1 .. Len(Names) : o[i] \in Providers
          /\ \A i, j \in 1 .. Len(Names) : o[i] = o[j] => i = j
          /\ \E i \in 1 .. Len(Names) : o[i] = p
        BY OrderIsPermutation
    <2>2. pc[r] = "leg" /\ p = o[pos[r]] /\ pos[r] \in 1 .. Len(Names)
        BY <1>2, <1>5, <2>1 DEF RequestOK, Named, InVain, NotAsked, Barren
    <2>3. InVain(r, pos[r] - 1)' /\ NotAsked(r, pos[r] + 1)'
        BY <1>2, <1>5, <1>6, <2>1, <2>2, SMTT(30) DEF RequestOK, Named, InVain, NotAsked
    <2>4. result[r].kind = "none"
        BY <1>5, <2>2 DEF RequestOK, Unfinished, NoResult
    <2> QED BY <1>1, <1>2, <1>6, <2>2, <2>3, <2>4 DEF Named
<1>8. FannedOut(r)' /\ Unfinished(r)'
    <2>1. pc[r] # "done"
        <3>1. CASE target[r] \in Providers
            BY <1>2, <1>5, <3>1 DEF RequestOK, Named
        <3>2. CASE target[r] = "all"
            BY <1>2, <1>5, <3>2 DEF RequestOK, FannedOut, Answered, Failed
        <3>3. CASE target[r] = "invalid"
            BY <1>2, <1>5, <3>3 DEF RequestOK, Unfinished
        <3> QED BY <3>1, <3>2, <3>3 DEF ServiceInv, TypeOK, Targets
    <2>2. target[r] # "invalid"
        BY <1>2, <1>5 DEF RequestOK, Unfinished
    <2> QED BY <1>2, <1>5, <2>1, <2>2 DEF RequestOK, FannedOut, Unfinished, NoResult
<1> QED BY <1>3, <1>4, <1>7, <1>8 DEF ServiceInv, RequestOK

\* The other calls are untouched when one takes a step of its own.
LEMMA OwnStep ==
    ASSUME ServiceInv, NEW r \in Requests, TypeOK', RequestOK(r)', ctx' = ctx,
           \A q \in Requests \ {r} :
                /\ pc'[q] = pc[q] /\ target'[q] = target[q] /\ pos'[q] = pos[q]
                /\ leg'[q] = leg[q] /\ result'[q] = result[q]
    PROVE  ServiceInv'
BY Frame DEF ServiceInv

\* Validation: a call is refused, or starts its chain or its fan-out.
LEMMA SearchStep ==
    ASSUME ServiceInv, NEW r \in Requests, NEW t \in Targets, Search(r, t)
    PROVE  ServiceInv'
<1>1. /\ pc[r] = "idle" /\ target' = [target EXCEPT ![r] = t]
      /\ UNCHANGED <<ctx, pos, timedOut>> /\ RequestOK(r) /\ TypeOK
    BY DEF Search, ServiceInv
<1>2. /\ pos[r] = 1 /\ result[r] = NoResult
      /\ \A p \in Providers : leg[r][p] = "off"
    BY <1>1 DEF RequestOK, Unfinished
<1>3. target'[r] = t /\ pos'[r] = 1
    BY <1>1, <1>2 DEF TypeOK
<1>4. CASE t = "invalid"
    <2>1. /\ pc' = [pc EXCEPT ![r] = "done"] /\ leg' = leg
          /\ result' = [result EXCEPT ![r] = Error("invalid")]
        BY <1>4, NamesAssumption DEF Search, Return, Providers
    <2>2. pc'[r] = "done" /\ result'[r].kind = "invalid"
        BY <1>1, <2>1 DEF TypeOK, Error, NoResult
    <2>3. RequestOK(r)'
        BY <1>2, <1>3, <1>4, <2>1, <2>2, NamesAssumption
           DEF RequestOK, Named, FannedOut, Unfinished, Providers
    <2>4. TypeOK'
        BY <1>1, <2>1 DEF TypeOK, Error, NoResult
    <2> QED BY <1>1, <2>1, <2>3, <2>4, OwnStep DEF TypeOK
<1>5. CASE t = "all"
    <2>1. /\ pc' = [pc EXCEPT ![r] = "fanout"] /\ result' = result
          /\ leg' = [leg EXCEPT ![r] = [p \in Providers |-> "wait"]]
        BY <1>5, NamesAssumption DEF Search, Providers
    <2>2. RequestOK(r)'
        BY <1>1, <1>2, <1>3, <1>5, <2>1, NamesAssumption
           DEF TypeOK, RequestOK, Named, FannedOut, Unfinished, Providers, NoResult
    <2>3. TypeOK'
        BY <1>1, <2>1 DEF TypeOK, Legs
    <2> QED BY <1>1, <2>1, <2>2, <2>3, OwnStep DEF TypeOK
<1>6. CASE t \in Providers
    <2>1. pc' = [pc EXCEPT ![r] = "chain"] /\ leg' = leg /\ result' = result
        BY <1>6, NamesAssumption DEF Search, Providers
    <2>2. \A i \in 1 .. Len(Names) : order(t)[i] \in Providers
        BY <1>6, OrderIsPermutation
    <2>3. Len(Names) \in Nat \ {0}
        BY NamesAssumption
    <2>4. InVain(r, 0)' /\ NotAsked(r, 1)'
        BY <1>2, <1>3, <2>1, <2>2, <2>3 DEF InVain, NotAsked
    <2>5. RequestOK(r)'
        BY <1>1, <1>2, <1>3, <1>6, <2>1, <2>3, <2>4, NamesAssumption
           DEF TypeOK, RequestOK, Named, FannedOut, Unfinished, Providers, NoResult
    <2>6. TypeOK'
        BY <1>1, <2>1 DEF TypeOK
    <2> QED BY <1>1, <2>1, <2>5, <2>6, OwnStep DEF TypeOK
<1> QED BY <1>4, <1>5, <1>6 DEF Targets

\* What Return makes of a call that is not over.
LEMMA Returned ==
    ASSUME TypeOK, NEW r \in Requests, NEW res, Return(r, res)
    PROVE  /\ pc'[r] = "done" /\ result'[r] = res
           /\ \A q \in Requests \ {r} : pc'[q] = pc[q] /\ result'[q] = result[q]
BY DEF Return, TypeOK

\* An error of a call that has a target.
LEMMA ErrorReturned ==
    ASSUME TypeOK, NEW r \in Requests, NEW kind \in {"context", "all-failed"},
           NEW names \in SUBSET Providers, Return(r, [Error(kind) EXCEPT !.degraded = names]),
           UNCHANGED <<target, ctx, pos, leg, timedOut>>
    PROVE  TypeOK' /\ result'[r].kind = kind
BY DEF Return, Error, NoResult, TypeOK

\* The top of the loop gives up with the caller or asks the next provider.
LEMMA ChainNextStep ==
    ASSUME ServiceInv, NEW r \in Requests, ChainNext(r) PROVE ServiceInv'
<1> DEFINE o == order(target[r])
<1>1. /\ pc[r] = "chain" /\ pos[r] \in 1 .. Len(Names) /\ RequestOK(r) /\ TypeOK
      /\ UNCHANGED <<target, ctx, pos, timedOut>> /\ target[r] \in Providers
    BY DEF ChainNext, ServiceInv, RequestOK, Named, FannedOut, Unfinished, TypeOK, Targets
<1>2. /\ \A i \in 1 .. Len(Names) : o[i] \in Providers
      /\ \A i, j \in 1 .. Len(Names) : o[i] = o[j] => i = j
      /\ \A p \in Providers : \E i \in 1 .. Len(Names) : o[i] = p
    BY <1>1, OrderIsPermutation
<1>3. target[r] # "all" /\ target[r] # "invalid"
    BY <1>1, NamesAssumption DEF Providers
<1>4. CASE ctx[r] = "dead"
    <2>1. Return(r, Error("context")) /\ leg' = leg
        BY <1>4 DEF ChainNext
    <2>2. result'[r].kind = "context" /\ TypeOK'
        BY <1>1, <2>1 DEF Return, Error, NoResult, TypeOK
    <2>3. \A p \in Providers : leg[r][p] \notin {"wait", "call"}
        BY <1>1, <1>2 DEF RequestOK, Named, InVain, NotAsked, Barren
    <2>4. RequestOK(r)'
        BY <1>1, <1>3, <1>4, <2>1, <2>2, <2>3, Returned DEF RequestOK, Named, FannedOut, Unfinished
    <2> QED BY <1>1, <2>1, <2>2, <2>4, Returned, OwnStep
<1>5. CASE ctx[r] = "live"
    <2>1. /\ pc' = [pc EXCEPT ![r] = "leg"] /\ leg' = [leg EXCEPT ![r][o[pos[r]]] = "wait"]
          /\ result' = result
        BY <1>5 DEF ChainNext, SetLeg
    <2>2. TypeOK'
        BY <1>1, <1>2, <2>1 DEF TypeOK, Legs
    <2>3. /\ pc'[r] = "leg" /\ leg'[r][o[pos[r]]] = "wait"
          /\ \A p \in Providers : p # o[pos[r]] => leg'[r][p] = leg[r][p]
        BY <1>1, <1>2, <2>1 DEF TypeOK
    <2>4. InVain(r, pos[r] - 1)' /\ NotAsked(r, pos[r] + 1)'
        <3>1. InVain(r, pos[r] - 1) /\ NotAsked(r, pos[r])
            BY <1>1 DEF RequestOK, Named
        <3>2. \A i \in 1 .. Len(Names) : i # pos[r] => leg'[r][o[i]] = leg[r][o[i]]
            BY <1>1, <1>2, <2>3
        <3>3. Len(Names) \in Nat
            BY NamesAssumption
        <3> QED BY <1>1, <3>1, <3>2, <3>3 DEF InVain, NotAsked
    <2>5. result[r] = NoResult
        BY <1>1 DEF RequestOK, Unfinished
    <2>6. RequestOK(r)'
        BY <1>1, <1>3, <2>1, <2>3, <2>4, <2>5 DEF RequestOK, Named, FannedOut, Unfinished, NoResult
    <2> QED BY <1>1, <2>1, <2>2, <2>6, OwnStep DEF TypeOK
<1> QED BY <1>4, <1>5 DEF ChainNext

\* A leg's outcome ends the chain or moves it on.
LEMMA ChainStepStep ==
    ASSUME ServiceInv, NEW r \in Requests, ChainStep(r) PROVE ServiceInv'
<1> DEFINE o == order(target[r])
           p == o[pos[r]]
<1>1. /\ pc[r] = "leg" /\ leg[r][p] \in Outcomes /\ RequestOK(r) /\ TypeOK
      /\ UNCHANGED <<target, ctx, leg, timedOut>> /\ target[r] \in Providers
    BY DEF ChainStep, ServiceInv, RequestOK, Named, FannedOut, Unfinished, TypeOK, Targets
<1>2. /\ pos[r] \in 1 .. Len(Names) /\ InVain(r, pos[r] - 1) /\ NotAsked(r, pos[r] + 1)
      /\ result[r] = NoResult
    BY <1>1 DEF RequestOK, Named, Unfinished
<1>3. /\ \A i \in 1 .. Len(Names) : o[i] \in Providers
      /\ \A q \in Providers : \E i \in 1 .. Len(Names) : o[i] = q
    BY <1>1, OrderIsPermutation
<1>4. target[r] # "all" /\ target[r] # "invalid"
    BY <1>1, NamesAssumption DEF Providers
<1>5. \A q \in Providers : leg[r][q] \notin {"wait", "call"}
    BY <1>1, <1>2, <1>3 DEF InVain, NotAsked, Barren, Outcomes
<1>6. CASE leg[r][p] = "full" /\ Return(r, served(r, p)) /\ pos' = pos
    <2>1. result'[r] = served(r, p) /\ pc'[r] = "done"
        BY <1>1, <1>6, Returned
    <2>2. served(r, p) \in [kind : {"ok"}, provider : Providers, from : SUBSET Providers,
                             degraded : SUBSET Providers]
        BY <1>2, <1>3 DEF served, Failed
    <2>3. TypeOK'
        BY <1>1, <1>6, <2>2 DEF Return, TypeOK
    <2>4. /\ served(r, p).kind = "ok" /\ served(r, p).degraded = Failed(r)
          /\ served(r, p).provider = p
        BY DEF served
    <2>5. RequestOK(r)'
        BY <1>1, <1>2, <1>4, <1>5, <1>6, <2>1, <2>4
           DEF RequestOK, Named, FannedOut, Unfinished, InVain, NotAsked, Failed
    <2> QED BY <1>1, <1>6, <2>3, <2>5, Returned, OwnStep
<1>7. CASE callerGone(r, p) /\ Return(r, Error("context")) /\ pos' = pos
    <2>1. result'[r].kind = "context" /\ TypeOK'
        BY <1>1, <1>7 DEF Return, Error, NoResult, TypeOK
    <2>2. RequestOK(r)'
        BY <1>1, <1>2, <1>4, <1>5, <1>7, <2>1, Returned
           DEF RequestOK, Named, FannedOut, Unfinished, callerGone
    <2> QED BY <1>1, <1>7, <2>1, <2>2, Returned, OwnStep
<1>8. CASE /\ leg[r][p] \in {"empty", "err"} /\ pc' = [pc EXCEPT ![r] = "chain"]
           /\ pos' = [pos EXCEPT ![r] = @ + 1] /\ result' = result
    <2>1. TypeOK' /\ pc'[r] = "chain" /\ pos'[r] = pos[r] + 1
        BY <1>1, <1>8 DEF TypeOK
    <2>2. InVain(r, pos[r]) /\ NotAsked(r, pos[r] + 1)
        BY <1>2, <1>8 DEF InVain, Barren
    <2>3. RequestOK(r)'
        BY <1>1, <1>2, <1>4, <1>8, <2>1, <2>2
           DEF RequestOK, Named, FannedOut, Unfinished, NoResult, InVain, NotAsked
    <2> QED BY <1>1, <1>8, <2>1, <2>3, OwnStep DEF TypeOK
<1> QED BY <1>1, <1>6, <1>7, <1>8 DEF ChainStep, hasResults, Outcomes

\* The end of the loop: the last empty response, or all the failures.
LEMMA ChainEndStep ==
    ASSUME ServiceInv, NEW r \in Requests, ChainEnd(r) PROVE ServiceInv'
<1> DEFINE o == order(target[r])
           N == Len(Names)
<1>1. /\ pc[r] = "chain" /\ pos[r] > N /\ RequestOK(r) /\ TypeOK
      /\ UNCHANGED <<target, ctx, pos, leg, timedOut>> /\ target[r] \in Providers
    BY DEF ChainEnd, exhausted, ServiceInv, RequestOK, Named, FannedOut, Unfinished, TypeOK, Targets
<1>2. /\ N \in Nat \ {0} /\ Len(o) = N
      /\ \A i \in 1 .. N : o[i] \in Providers
      /\ \A q \in Providers : \E i \in 1 .. N : o[i] = q
    <2>1. N \in Nat \ {0}
        BY NamesAssumption
    <2> QED BY <1>1, <2>1, OrderIsPermutation
<1>3. InVain(r, N)
    <2>1. pos[r] \in 1 .. N + 1 /\ InVain(r, pos[r] - 1)
        BY <1>1 DEF RequestOK, Named
    <2>2. pos[r] - 1 = N
        BY <1>1, <1>2, <2>1
    <2> QED BY <2>1, <2>2
<1>4. target[r] # "all" /\ target[r] # "invalid"
    BY <1>1, NamesAssumption DEF Providers
<1>5. \A q \in Providers : leg[r][q] \notin {"wait", "call"}
    BY <1>2, <1>3 DEF InVain, Barren
<1>6. CASE Failed(r) = {}
    <2> DEFINE res == [kind |-> "ok", provider |-> o[N], from |-> {o[N]}, degraded |-> {}]
    <2>1. Return(r, res)
        BY <1>2, <1>6 DEF ChainEnd, Last
    <2>2. o[N] \in Providers /\ res.kind = "ok" /\ res.provider = o[N] /\ res.degraded = {}
        BY <1>2
    <2>3. TypeOK'
        BY <1>1, <2>1, <2>2 DEF Return, TypeOK
    <2> HIDE DEF res
    <2>4. result'[r] = res /\ pc'[r] = "done"
        BY <1>1, <2>1, Returned
    <2>5. InVain(r, N - 1) /\ NotAsked(r, N + 1) /\ NoResults(r)
        BY <1>2, <1>3, <1>6 DEF InVain, NotAsked, NoResults, Barren, Failed
    <2>6. \E k \in 1 .. N : /\ result'[r].provider = order(target'[r])[k]
                            /\ InVain(r, k - 1)' /\ NotAsked(r, k + 1)' /\ NoResults(r)'
        BY <1>1, <1>2, <2>2, <2>4, <2>5 DEF InVain, NotAsked, NoResults
    <2>7. RequestOK(r)'
        BY <1>1, <1>4, <1>5, <1>6, <2>2, <2>4, <2>6
           DEF RequestOK, Named, FannedOut, Unfinished, Failed
    <2> QED BY <1>1, <2>1, <2>3, <2>7, Returned, OwnStep
<1>7. CASE Failed(r) # {}
    <2>1. Return(r, [Error("all-failed") EXCEPT !.degraded = Failed(r)])
        BY <1>7 DEF ChainEnd
    <2>2. Failed(r) \subseteq Providers
        BY DEF Failed
    <2>3. TypeOK' /\ result'[r].kind = "all-failed"
        BY <1>1, <2>1, <2>2, ErrorReturned
    <2>4. RequestOK(r)'
        BY <1>1, <1>3, <1>4, <1>5, <1>7, <2>1, <2>3, Returned
           DEF RequestOK, Named, FannedOut, Unfinished, InVain, Failed
    <2> QED BY <1>1, <2>1, <2>3, <2>4, Returned, OwnStep
<1> QED BY <1>6, <1>7

\* The join of the fan-out merges what came or reports that nothing did.
LEMMA FanoutJoinStep ==
    ASSUME ServiceInv, NEW r \in Requests, FanoutJoin(r) PROVE ServiceInv'
<1>1. /\ pc[r] = "fanout" /\ Answered(r) \cup Failed(r) = Providers /\ RequestOK(r) /\ TypeOK
      /\ UNCHANGED <<target, ctx, pos, leg, timedOut>> /\ target[r] = "all"
    BY DEF FanoutJoin, joinable, ServiceInv, RequestOK, Named, Unfinished, TypeOK, Targets
<1>2. target[r] \notin Providers /\ Answered(r) \subseteq Providers /\ Failed(r) \subseteq Providers
    BY <1>1, NamesAssumption DEF Providers, Answered, Failed
<1>3. CASE ctx[r] = "dead"
    <2>1. Return(r, Error("context"))
        BY <1>3 DEF FanoutJoin
    <2>2. result'[r].kind = "context" /\ TypeOK'
        BY <1>1, <2>1 DEF Return, Error, NoResult, TypeOK
    <2>3. RequestOK(r)'
        BY <1>1, <1>2, <1>3, <2>1, <2>2, Returned
           DEF RequestOK, Named, FannedOut, Unfinished, Answered, Failed
    <2> QED BY <1>1, <2>1, <2>2, <2>3, Returned, OwnStep
<1>4. CASE ctx[r] = "live" /\ Answered(r) = {}
    <2>1. Return(r, [Error("all-failed") EXCEPT !.degraded = Failed(r)])
        BY <1>4 DEF FanoutJoin
    <2>2. TypeOK' /\ result'[r].kind = "all-failed"
        BY <1>1, <1>2, <2>1, ErrorReturned
    <2>3. RequestOK(r)'
        BY <1>1, <1>2, <1>4, <2>1, <2>2, Returned
           DEF RequestOK, Named, FannedOut, Unfinished, Answered, Failed
    <2> QED BY <1>1, <2>1, <2>2, <2>3, Returned, OwnStep
<1>5. CASE ctx[r] = "live" /\ Answered(r) # {}
    <2> DEFINE res == [kind |-> "ok", provider |-> "all",
                       from |-> Answered(r), degraded |-> Failed(r)]
    <2>1. Return(r, res)
        BY <1>5 DEF FanoutJoin
    <2>2. res.kind = "ok" /\ res.from = Answered(r) /\ res.degraded = Failed(r)
        OBVIOUS
    <2>3. TypeOK'
        BY <1>1, <1>2, <2>1 DEF Return, TypeOK
    <2> HIDE DEF res
    <2>4. result'[r] = res /\ pc'[r] = "done"
        BY <1>1, <2>1, Returned
    <2>5. RequestOK(r)'
        BY <1>1, <1>2, <1>5, <2>2, <2>4
           DEF RequestOK, Named, FannedOut, Unfinished, Answered, Failed
    <2> QED BY <1>1, <2>1, <2>3, <2>5, Returned, OwnStep
<1> QED BY <1>3, <1>4, <1>5 DEF FanoutJoin

-----------------------------------------------------------------------------
LEMMA ServiceInvInit == Init => ServiceInv
BY NamesAssumption
   DEF Init, ServiceInv, TypeOK, Targets, Providers, Legs, NoResult, RequestOK, Named, FannedOut,
       Unfinished

\* Every call is where its legs say it is.
THEOREM ServiceInvariant == Spec => []ServiceInv
<1>1. ServiceInv /\ [Next]_vars => ServiceInv'
    BY OutsideStep, LegStep, SearchStep, ChainNextStep, ChainStepStep, ChainEndStep,
       FanoutJoinStep DEF Next, Control
<1> QED BY ServiceInvInit, <1>1, PTL DEF Spec

\* The fallback loop of Service.Search returns what the first provider with
\* results answered, in the order primary first, others by name, and an empty
\* answer only if all were asked and had none; those that failed before it,
\* and only those, are degraded.
THEOREM FirstProviderServes == Spec => []FallbackServesFirst
<1>1. ASSUME ServiceInv, NEW r \in Requests, target[r] \in Providers, result[r].kind = "ok"
      PROVE  LET o == order(target[r])
                 k == CHOOSE i \in 1 .. Len(o) : o[i] = result[r].provider
             IN  /\ \A i \in 1 .. k - 1 : leg[r][o[i]] \in {"empty", "err"}
                 /\ \/ leg[r][o[k]] = "full"
                    \/ \A i \in 1 .. Len(o) : leg[r][o[i]] = "empty"
                 /\ \A i \in k + 1 .. Len(o) : leg[r][o[i]] = "off"
                 /\ result[r].degraded = {o[i] : i \in {j \in 1 .. k : leg[r][o[j]] = "err"}}
    <2> DEFINE o == order(target[r])
               k == CHOOSE i \in 1 .. Len(o) : o[i] = result[r].provider
    <2>1. /\ Len(o) = Len(Names) /\ Len(Names) \in Nat
          /\ \A i \in 1 .. Len(Names) : o[i] \in Providers
          /\ \A i, j \in 1 .. Len(Names) : o[i] = o[j] => i = j
          /\ \A p \in Providers : \E i \in 1 .. Len(Names) : o[i] = p
      <3>1. target[r] \in Providers
          BY <1>1
      <3>2. Len(Names) \in Nat
          BY NamesAssumption
      <3> HIDE DEF k
      <3> QED BY <3>1, <3>2, OrderIsPermutation
    <2>2. PICK n \in 1 .. Len(Names) :
            /\ result[r].provider = o[n] /\ InVain(r, n - 1) /\ NotAsked(r, n + 1)
            /\ leg[r][o[n]] = "full" \/ NoResults(r)
        BY <1>1 DEF ServiceInv, RequestOK, Named
    <2>3. k = n
        BY <2>1, <2>2
    <2> HIDE DEF k
    <2>4. result[r].degraded = Failed(r)
        BY <1>1 DEF ServiceInv, RequestOK, Named
    <2>5. Failed(r) = {o[i] : i \in {j \in 1 .. n : leg[r][o[j]] = "err"}}
        BY <2>1, <2>2 DEF Failed, NotAsked
    <2> QED BY <2>1, <2>2, <2>3, <2>4, <2>5 DEF InVain, NotAsked, NoResults, Barren, k
<1>2. ServiceInv => FallbackServesFirst
    BY <1>1 DEF FallbackServesFirst
<1> QED BY ServiceInvariant, <1>2, PTL

\* searchAll merges or reports every provider (merge.go, after wg.Wait).
THEOREM FanoutMergesOrReports == Spec => []FanoutAccountsForAll
<1>1. ASSUME ServiceInv, NEW r \in Requests, target[r] = "all", result[r].kind = "ok"
      PROVE  /\ result[r].from # {}
             /\ result[r].from \cap result[r].degraded = {}
             /\ result[r].from \cup result[r].degraded = Providers
    <2>1. pc[r] = "done" /\ FannedOut(r)
        BY <1>1 DEF ServiceInv, RequestOK, Unfinished, NoResult
    <2>2. Answered(r) \cap Failed(r) = {}
        BY DEF Answered, Failed
    <2> QED BY <1>1, <2>1, <2>2 DEF FannedOut
<1>2. ServiceInv => FanoutAccountsForAll
    BY <1>1 DEF FanoutAccountsForAll
<1> QED BY ServiceInvariant, <1>2, PTL

\* Only the caller's own context makes Search return a context error.
THEOREM TimeoutIsNeverTheCallers == Spec => []TimeoutIsProvidersFault
<1>1. ServiceInv => TimeoutIsProvidersFault
    BY DEF ServiceInv, RequestOK, Unfinished, TimeoutIsProvidersFault
<1> QED BY ServiceInvariant, <1>1, PTL

\* joinProviderErrors is reached only after every provider was asked in vain
\* and one of them failed.
THEOREM AllFailedMeansAll == Spec => []FailureIsTotal
<1>1. ASSUME ServiceInv, NEW r \in Requests, result[r].kind = "all-failed"
      PROVE  Failed(r) # {} /\ \A p \in Providers : leg[r][p] \in {"empty", "err"}
    <2>1. RequestOK(r) /\ target[r] \in Targets /\ pc[r] = "done"
        BY <1>1 DEF ServiceInv, TypeOK, RequestOK, Unfinished, NoResult
    <2>2. CASE target[r] \in Providers
        <3>1. \A p \in Providers : \E i \in 1 .. Len(Names) : order(target[r])[i] = p
            BY <2>2, OrderIsPermutation
        <3>2. InVain(r, Len(Names)) /\ Failed(r) # {}
            BY <1>1, <2>1, <2>2 DEF RequestOK, Named
        <3> QED BY <3>1, <3>2 DEF InVain, Barren
    <2>3. CASE target[r] = "all"
        <3>1. Failed(r) = Providers
            BY <1>1, <2>1, <2>3 DEF RequestOK, FannedOut
        <3>2. Names[1] \in Providers
            BY NamesAssumption DEF Providers, Range
        <3> QED BY <3>1, <3>2 DEF Failed
    <2> QED BY <1>1, <2>1, <2>2, <2>3 DEF Targets, RequestOK, Unfinished
<1>2. ServiceInv => FailureIsTotal
    BY <1>1 DEF FailureIsTotal
<1> QED BY ServiceInvariant, <1>2, PTL
=============================================================================
