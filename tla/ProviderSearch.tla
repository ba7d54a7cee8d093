--------------------------- MODULE ProviderSearch ---------------------------
(***************************************************************************)
(* internal/provider: the Search method of every backend. A search sends   *)
(* one request, or pages through several, and turns what the upstream      *)
(* answers into result rows or a classified error: "blocked" (ErrBlocked,  *)
(* never retried), "limited" (ErrRateLimited), "context" or any "error".   *)
(*                                                                         *)
(* The upstream's answer is its status and what its body turns out to be:  *)
(*   "results"    the expected document, with its parsable rows            *)
(*   "unrelated"  the same, but no row matches the query (seen at Bing)    *)
(*   "challenge"  an HTML page with a known anti-bot marker                *)
(*   "foreign"    any other document of the wrong kind                     *)
(*   "nofield"    the expected format (JSON, for arXiv any XML) without    *)
(*                the list of results or what it should be in              *)
(*   "nolist"     the object the list should be in (Wikipedia's query,     *)
(*                Crossref's message, Brave's web), without the list       *)
(*   "apierror"   the expected format with an error object                 *)
(*   "throttle"   Stack Exchange's error 502                               *)
(* Building the request and extracting fields from rows is left out.       *)
(* Backends share nothing with each other; calls to Stack Exchange share   *)
(* its gate and its cooldown.                                              *)
(***************************************************************************)
EXTENDS Naturals, Sequences, SequencesExt, FiniteSets, FiniteSetsExt

CONSTANTS
    Calls,         \* Search calls
    Scenarios,     \* which backend each call asks, "none" if it is not made
    Urls,          \* result URLs
    Key,           \* NormalizeResultURL of each
    PageSize,      \* googlePageSize, bingPageSize
    MaxPages,      \* googleMaxPages, bingMaxPages, yahooMaxPages, searxngMaxPages
    BraveMaxCount, \* braveMaxCount
    BravePages,    \* braveMaxOffset + 1
    DefaultCount,  \* the count used when the request has none
    MaxCount,      \* bound: largest count asked for
    Backoffs,      \* backoff, in ticks, that Stack Exchange asks for
    Midnights,     \* ticks until its quota is renewed, 0 if it is not used up
    Throttle,      \* the minute imposed after error 502, in ticks
    MaxCooldown    \* the cap of a day, in ticks

Paging == {"google", "bing", "yahoo", "brave", "searxng"}
JSONAPIs == {"hackernews", "crossref", "stackexchange"}
Providers == Paging \cup JSONAPIs \cup
    {"duckduckgo", "mojeek", "arxiv", "wikipedia", "marginalia", "serper",
     "kagi", "exa", "tavily"}

\* Backends that check the request (or their key) before sending it.
Picky == Providers \ {"google", "bing", "yahoo", "searxng", "duckduckgo", "mojeek"}

ASSUME ProviderAssumption ==
    /\ Scenarios \subseteq [Calls -> Providers \cup {"none"}]
    /\ Urls # {} /\ Key \in [Urls -> Urls]
    /\ {PageSize, MaxPages, BraveMaxCount, BravePages, DefaultCount, MaxCooldown}
           \subseteq Nat \ {0}
    /\ {MaxCount, Throttle} \cup Backoffs \cup Midnights \subseteq Nat

VARIABLES
    provider,  \* the backend each call asks
    req,       \* its request: [count, valid]
    ctx,       \* its context: "live" or "dead"
    pc,        \* its control point
    fetched,   \* the rows of each page it read so far
    last,      \* what the last answer was: its body, or "refused"
    results,   \* rows collected so far
    outcome,   \* "none", "ok" or the class of the error it returned
    gate,      \* StackExchange.gate, a channel of one: the call that holds it
    cooldown   \* ticks until StackExchange.nextAllowed

vars == <<provider, req, ctx, pc, fetched, last, results, outcome, gate, cooldown>>

Init ==
    /\ provider \in Scenarios
    /\ req \in {f \in [Calls -> [count : 0 .. MaxCount, valid : BOOLEAN]] :
                \A c \in Calls :
                    /\ ~f[c].valid => provider[c] \in Picky
                    /\ provider[c] = "none" => f[c].count = 0}
    /\ ctx = [c \in Calls |-> "live"]
    /\ pc = [c \in Calls |-> IF provider[c] = "none" THEN "done" ELSE "start"]
    /\ fetched = [c \in Calls |-> <<>>]
    /\ last = [c \in Calls |-> "none"]
    /\ results = [c \in Calls |-> <<>>]
    /\ outcome = [c \in Calls |-> "none"]
    /\ gate = {}
    /\ cooldown = 0

-----------------------------------------------------------------------------
(* What the upstream may answer.                                           *)

Unreachable == [status |-> 0, body |-> "foreign", rows |-> <<>>, backoff |-> 0, midnight |-> 0]

Answers(p) ==
    LET Rows == IF p \in Paging THEN BoundedSeq(Urls, PageSize)
                ELSE BoundedSeq({CHOOSE u \in Urls : TRUE}, 1)
        Odd == {"challenge", "foreign", "nofield", "nolist", "apierror"}
               \cup IF p = "stackexchange" THEN {"throttle"} ELSE {}
        Delays == IF p = "stackexchange" THEN Backoffs ELSE {0}
        Renewals == IF p = "stackexchange" THEN Midnights ELSE {0}
    IN  {Unreachable}
        \cup [status : {200}, body : {"results"}, rows : Rows, backoff : Delays, midnight : Renewals]
        \cup [status : {200}, body : IF p = "bing" THEN {"unrelated"} ELSE {},
              rows : Rows \ {<<>>}, backoff : Delays, midnight : Renewals]
        \cup [status : {200, 400, 401, 402, 403, 429, 500, 503}, body : Odd,
              rows : {<<>>}, backoff : Delays, midnight : Renewals]

-----------------------------------------------------------------------------
(* The classification of one answer: an ordered list of <<condition,       *)
(* class>> pairs, as the code's early returns; "ok" if none applies.       *)

Verdict(checks) ==
    LET hit == SelectInSeq(checks, LAMBDA k : k[1])
    IN  IF hit = 0 THEN "ok" ELSE checks[hit][2]

Status(a, codes, class) == <<a.status \in codes, class>>
NotOK(a) == <<a.status \notin 200 .. 299, "error">>

\* IsChallengePage, ErrChallenge.
Challenge(a) == <<a.body = "challenge", "blocked">>

\* ErrMissingResultsContainer: an HTML page without the element sought.
NoContainer(a) == <<a.body \notin {"results", "unrelated"}, "blocked">>

\* A body that is not JSON (or, for arXiv, not XML).
Undecodable(a) == <<a.body \in {"challenge", "foreign"}, "error">>

\* The list of results, or the whole envelope, is absent, or an error is in
\* its place.
NoResultField(a) == <<a.body \notin {"results", "unrelated"}, "error">>

google(a) == Verdict(<<Challenge(a), Status(a, {403}, "blocked"),
    Status(a, {429}, "limited"), NotOK(a), NoContainer(a)>>)

\* bingResultsRelevant: an organic page full of unrelated rows is a block.
bing(a) == Verdict(<<Challenge(a), Status(a, {403}, "blocked"),
    Status(a, {429}, "limited"), NotOK(a), NoContainer(a),
    <<a.body = "unrelated", "blocked">> >>)

duckduckgo(a) == Verdict(<<Challenge(a), Status(a, {403}, "blocked"),
    Status(a, {429}, "limited"), NotOK(a), NoContainer(a)>>)

yahoo(a) == Verdict(<<Status(a, {403}, "blocked"), Status(a, {429}, "limited"),
    NotOK(a), Challenge(a), NoContainer(a)>>)

\* Mutant: the missing list is taken for an empty one.
mojeek_NoContainerCheck(a) == Verdict(<<Status(a, {403}, "blocked"),
    Status(a, {429}, "limited"), NotOK(a), Challenge(a)>>)

mojeek(a) == Verdict(<<Status(a, {403}, "blocked"), Status(a, {429}, "limited"),
    NotOK(a), Challenge(a), NoContainer(a)>>)

brave(a) == Verdict(<<Status(a, {429}, "limited"), NotOK(a), Undecodable(a)>>)

searxng(a) == Verdict(<<Status(a, {429}, "limited"), Status(a, {403}, "blocked"),
    NotOK(a), Undecodable(a)>>)

serper(a) == Verdict(<<Status(a, {429}, "limited"), Status(a, {401, 402, 403}, "blocked"),
    NotOK(a), Undecodable(a), NoResultField(a)>>)

marginalia(a) == Verdict(<<Status(a, {429, 503}, "limited"), Status(a, {403}, "blocked"),
    NotOK(a), Undecodable(a)>>)

\* Only an absent query is an error: one without its list has no rows.
wikipedia(a) == Verdict(<<Status(a, {429}, "limited"), Status(a, {403}, "blocked"),
    NotOK(a), Undecodable(a), <<a.body \in {"apierror", "nofield"}, "error">> >>)

arxiv(a) == Verdict(<<Status(a, {429}, "limited"), Status(a, {401, 403}, "blocked"),
    NotOK(a), Challenge(a), Undecodable(a)>>)

checkAPIStatus(a) == <<Status(a, {429}, "limited"), NotOK(a)>>
kagi(a) == Verdict(checkAPIStatus(a) \o <<Undecodable(a)>>)
exa(a) == Verdict(checkAPIStatus(a) \o <<Undecodable(a)>>)
tavily(a) == Verdict(checkAPIStatus(a) \o <<Undecodable(a), NoResultField(a)>>)

\* The Decode functions of the JSON backends: the class of a JSON body.
decodeStories(a) == <<NoResultField(a)>>
decodeCrossref(a) == <<NoResultField(a)>>
decodeQuestions(a) == <<<<a.body = "throttle", "limited">>, NoResultField(a)>>

classifyStatus(a) == <<Status(a, {429}, "limited"), Status(a, {401, 403}, "blocked")>>

\* JSONAPI.Search; a 400 is decoded as well, for Stack Exchange's throttle.
jsonapi(a, checks) == Verdict(classifyStatus(a) \o
    <<<<a.status = 400 /\ Verdict(checks) = "limited", "limited">>,
      NotOK(a), Challenge(a), Undecodable(a)>> \o checks)

hackernews(a) == jsonapi(a, decodeStories(a))
crossref(a) == jsonapi(a, decodeCrossref(a))
stackexchange(a) == jsonapi(a, decodeQuestions(a))

Class(p, a) ==
    CASE p = "google" -> google(a)
      [] p = "bing" -> bing(a)
      [] p = "yahoo" -> yahoo(a)
      [] p = "duckduckgo" -> duckduckgo(a)
      [] p = "mojeek" -> mojeek(a)
      [] p = "brave" -> brave(a)
      [] p = "searxng" -> searxng(a)
      [] p = "serper" -> serper(a)
      [] p = "marginalia" -> marginalia(a)
      [] p = "wikipedia" -> wikipedia(a)
      [] p = "arxiv" -> arxiv(a)
      [] p = "kagi" -> kagi(a)
      [] p = "exa" -> exa(a)
      [] p = "tavily" -> tavily(a)
      [] p = "hackernews" -> hackernews(a)
      [] p = "crossref" -> crossref(a)
      [] p = "stackexchange" -> stackexchange(a)

-----------------------------------------------------------------------------
(* The rows a search keeps.                                                *)

Count(c) == IF req[c].count = 0 THEN DefaultCount ELSE req[c].count

FirstRows(rows, n) == SubSeq(rows, 1, Min({n, Len(rows)}))

\* Rows of one page, as far as the extraction reads them. Where there is no
\* limit, the upstream is trusted to honour the count it was asked for.
PageRows(p, rows, n) ==
    CASE p \in {"google", "bing"} -> FirstRows(rows, PageSize)
      [] p \in {"yahoo", "duckduckgo", "mojeek", "arxiv", "marginalia", "serper"}
             \cup JSONAPIs -> FirstRows(rows, n)
      [] OTHER -> rows

\* google, bing and yahoo compare normalised URLs, the APIs literal ones.
KeyOf(p, u) == IF p \in {"google", "bing", "yahoo"} THEN Key[u] ELSE u

\* Mutant: rows seen on an earlier page are added again.
Merge_NoSeen(p, got, rows, n) == FirstRows(got \o rows, n)

\* One row of pageResults: skip what was seen, stop at the count.
AddRow(p, kept, u, n) ==
    IF Len(kept) >= n \/ KeyOf(p, u) \in {KeyOf(p, x) : x \in ToSet(kept)}
    THEN kept ELSE Append(kept, u)

\* The loop over pageResults.
Merge(p, got, rows, n) ==
    LET kept[i \in 0 .. Len(rows)] ==
            IF i = 0 THEN got ELSE AddRow(p, kept[i - 1], rows[i], n)
    IN  kept[Len(rows)]

\* When a page ends the paging, besides the page cap and the count.
\* Mutant: a short page does not end it.
googleStops_EmptyOnly(rows) == rows = <<>>

googleStops(rows) == Len(rows) < PageSize
bingStops(rows) == Len(rows) < PageSize
yahooStops(rows) == rows = <<>>
searxngStops(rows) == rows = <<>>
\* Mutant: a full page is taken for the last one when it is less than the count.
braveStops_Count(rows, n) == Len(rows) < n

braveStops(rows, n) == Len(rows) < Min({n, BraveMaxCount})

Stops(p, rows, n) ==
    \/ p \notin Paging
    \/ p = "google" /\ googleStops(rows)
    \/ p = "bing" /\ bingStops(rows)
    \/ p = "yahoo" /\ yahooStops(rows)
    \/ p = "searxng" /\ searxngStops(rows)
    \/ p = "brave" /\ braveStops(rows, n)

PageCap(p) == IF p = "brave" THEN BravePages ELSE MaxPages

-----------------------------------------------------------------------------
(* Search.                                                                 *)

Go(c, to) == pc' = [pc EXCEPT ![c] = to]

\* Mutant: a failed call to Stack Exchange keeps the gate.
Return_KeepsGate(c, how) ==
    /\ Go(c, "done")
    /\ outcome' = [outcome EXCEPT ![c] = how]
    /\ gate' = IF how = "ok" THEN gate \ {c} ELSE gate

\* Return, with the deferred release of the gate.
Return(c, how) ==
    /\ Go(c, "done")
    /\ outcome' = [outcome EXCEPT ![c] = how]
    /\ gate' = gate \ {c}

\* Up to the first request; StackExchange.Search looks at its context first.
Start(c) ==
    /\ pc[c] = "start"
    /\ IF provider[c] # "stackexchange" THEN Go(c, "send") /\ UNCHANGED <<outcome, gate>>
       ELSE IF ctx[c] = "dead" THEN Return(c, "context")
       ELSE Go(c, "gate") /\ UNCHANGED <<outcome, gate>>
    /\ UNCHANGED <<provider, req, ctx, fetched, last, results, cooldown>>

\* Mutant: the cooldown is not looked at once the gate is taken.
EnterGate_NoCooldown(c) ==
    /\ pc[c] = "gate" /\ gate = {}
    /\ Go(c, "send") /\ gate' = {c} /\ UNCHANGED outcome
    /\ UNCHANGED <<provider, req, ctx, fetched, last, results, cooldown>>

\* The gate is free: take it, and turn back during the cooldown.
EnterGate(c) ==
    /\ pc[c] = "gate" /\ gate = {}
    /\ IF cooldown > 0 THEN Return(c, "limited")
       ELSE Go(c, "send") /\ gate' = {c} /\ UNCHANGED outcome
    /\ UNCHANGED <<provider, req, ctx, fetched, last, results, cooldown>>

\* Its context ends at the gate.
LeaveGate(c) ==
    /\ pc[c] = "gate" /\ ctx[c] = "dead"
    /\ Return(c, "context")
    /\ UNCHANGED <<provider, req, ctx, fetched, last, results, cooldown>>

\* A bad request, or no API key: nothing is sent.
Refuse(c) ==
    /\ pc[c] = "send" /\ ~req[c].valid
    /\ Return(c, "error")
    /\ UNCHANGED <<provider, req, ctx, fetched, last, results, cooldown>>

Send(c) ==
    /\ pc[c] = "send" /\ req[c].valid
    /\ Go(c, "sent")
    /\ UNCHANGED <<provider, req, ctx, fetched, last, results, outcome, gate, cooldown>>

\* StackExchange.decode: the cooldown that follows an envelope, the longest of
\* the backoff it asks for, the minute after error 502 and the time until
\* midnight UTC if the quota is used up.
decode(a) ==
    LET asked == Max({a.backoff, a.midnight, IF a.body = "throttle" THEN Throttle ELSE 0})
    IN  IF a.status \in {200, 400} /\ a.body \notin {"challenge", "foreign"} /\ asked > 0
        THEN Min({asked, MaxCooldown}) ELSE cooldown

\* Mutant: an error on a later page fails the whole search.
PageFails_LosesPages(c, class) == Return(c, class)

\* A page fails: a search that has rows returns them.
PageFails(c, class) ==
    IF provider[c] \in Paging /\ fetched[c] # <<>> /\ results[c] # <<>>
    THEN Return(c, "ok") ELSE Return(c, class)

\* The answer arrives and is classified; its rows are kept.
Receive(c, a) ==
    LET p == provider[c]
        n == Count(c)
        rows == PageRows(p, a.rows, n)
        got == IF p \in Paging THEN Merge(p, results[c], rows, n) ELSE rows
        more == /\ ~Stops(p, rows, n)
                /\ Len(fetched[c]) + 1 < PageCap(p)
                /\ Len(got) < n
    IN
    /\ pc[c] = "sent"
    /\ last' = [last EXCEPT ![c] = IF a.status = 200 THEN a.body ELSE "refused"]
    /\ cooldown' = IF p = "stackexchange" THEN decode(a) ELSE cooldown
    /\ IF Class(p, a) # "ok"
       THEN PageFails(c, Class(p, a)) /\ UNCHANGED <<fetched, results>>
       ELSE /\ fetched' = [fetched EXCEPT ![c] = Append(@, rows)]
            /\ results' = [results EXCEPT ![c] = got]
            /\ IF ~more THEN Return(c, "ok")
               ELSE /\ Go(c, IF p = "yahoo" THEN "delay" ELSE "send")
                    /\ UNCHANGED <<outcome, gate>>
    /\ UNCHANGED <<provider, req, ctx>>

\* yahooPageDelay passes, or the context ends first.
DelayEnds(c) ==
    /\ pc[c] = "delay"
    /\ \/ Go(c, "send") /\ UNCHANGED <<outcome, gate>>
       \/ ctx[c] = "dead" /\ Return(c, "context")
    /\ UNCHANGED <<provider, req, ctx, fetched, last, results, cooldown>>

Cancel(c) ==
    /\ pc[c] # "done" /\ ctx[c] = "live"
    /\ ctx' = [ctx EXCEPT ![c] = "dead"]
    /\ UNCHANGED <<provider, req, pc, fetched, last, results, outcome, gate, cooldown>>

Tick ==
    /\ cooldown > 0
    /\ cooldown' = cooldown - 1
    /\ UNCHANGED <<provider, req, ctx, pc, fetched, last, results, outcome, gate>>

Search(c) ==
    \/ Start(c) \/ EnterGate(c) \/ LeaveGate(c) \/ Refuse(c) \/ Send(c)
    \/ pc[c] = "sent" /\ \E a \in Answers(provider[c]) : Receive(c, a)
    \/ DelayEnds(c)

AllDone == \A c \in Calls : pc[c] = "done"

Next ==
    \/ Tick
    \/ \E c \in Calls : Search(c) \/ Cancel(c)

Spec == Init /\ [][Next]_vars

\* Goroutines run, and the HTTP client's own timeout ends every request.
FairSpec == Spec /\ \A c \in Calls : WF_vars(Search(c))

-----------------------------------------------------------------------------
\* No request was left out: the last page was empty, or not full where the
\* page size is known, or failed, or was the last one that may be asked for.
Exhausted(c) ==
    LET page == Last(fetched[c])
    IN  \/ page = <<>> \/ last[c] # "results"
        \/ provider[c] \in {"google", "bing"} /\ Len(page) < PageSize
        \/ provider[c] = "brave" /\ Len(page) < Min({Count(c), BraveMaxCount})
        \/ Len(fetched[c]) = IF provider[c] = "brave" THEN BravePages ELSE MaxPages

(***************************************************************************)
(* A search that pages returns the first `count` distinct rows of the      *)
(* pages it read, in the order the upstream ranked them; if they are fewer *)
(* than `count`, there was nothing more to get.                            *)
(***************************************************************************)
PagesAreMergedInOrder ==
    \A c \in Calls : provider[c] \in Paging =>
        LET p == provider[c]
            all == FlattenSeq(fetched[c])
            first == {i \in DOMAIN all :
                        \A j \in 1 .. i - 1 : KeyOf(p, all[j]) # KeyOf(p, all[i])}
        IN  /\ results[c] = FirstRows([k \in 1 .. Cardinality(first) |->
                    all[CHOOSE i \in first : Cardinality(first \cap 1 .. i) = k]], Count(c))
            /\ outcome[c] = "ok" /\ Len(results[c]) < Count(c) => Exhausted(c)

(***************************************************************************)
(* "No results" is never what a broken or blocked backend looks like       *)
(* (block.go:60): an empty success comes from a page that had no rows. The *)
(* exceptions are the backends that decode an absent list, or the list of  *)
(* an error object, as an empty one, although README.md:218 says of all of *)
(* them that they "treat a missing results container as a block too".      *)
(***************************************************************************)
Lenient == {"brave", "searxng", "marginalia", "kagi", "exa", "arxiv"}

Tolerated(p) ==
    CASE p \in Lenient -> {"nofield", "nolist", "apierror"}
      [] p = "wikipedia" -> {"nolist"}
      [] OTHER -> {}

EmptyMeansEmpty ==
    \A c \in Calls : outcome[c] = "ok" /\ results[c] = <<>> =>
        \/ last[c] = "results" /\ Last(fetched[c]) = <<>>
        \/ last[c] \in Tolerated(provider[c])

(***************************************************************************)
(* Once a page produced rows, no error of a later one takes them back      *)
(* (yahoo.go:87). The exception is the context ending in Yahoo's delay.    *)
(***************************************************************************)
LaterPagesAreBonus ==
    \A c \in Calls :
        outcome[c] \notin {"none", "ok"} /\ results[c] # <<>> =>
            provider[c] = "yahoo" /\ outcome[c] = "context"

(***************************************************************************)
(* No request is wasted: a further page is asked for only when the search  *)
(* is still short, within the page cap, and never after google, bing or    *)
(* brave sent a page that was not full.                                    *)
(***************************************************************************)
NoPageIsWasted ==
    [][\A c \in Calls : pc'[c] = "sent" /\ pc[c] # "sent" /\ fetched[c] # <<>> =>
        /\ Len(results[c]) < Count(c)
        /\ Len(fetched[c]) < IF provider[c] = "brave" THEN BravePages ELSE MaxPages
        /\ Last(fetched[c]) # <<>>
        /\ provider[c] \in {"google", "bing"} => Len(Last(fetched[c])) >= PageSize
        /\ provider[c] = "brave" =>
            Len(Last(fetched[c])) >= Min({Count(c), BraveMaxCount})]_vars

(***************************************************************************)
(* Stack Exchange is asked by one call at a time and never before the      *)
(* cooldown it imposed is over, even by calls that were already waiting.   *)
(***************************************************************************)
CooldownIsHonoured ==
    [][\A c \in Calls :
        provider[c] = "stackexchange" /\ pc'[c] = "sent" /\ pc[c] # "sent" =>
            /\ cooldown = 0
            /\ \A d \in Calls \ {c} : provider[d] = "stackexchange" => pc[d] # "sent"]_vars

\* Every call returns, those waiting at the gate included.
EveryCallReturns == \A c \in Calls : <>(pc[c] = "done")
=============================================================================
