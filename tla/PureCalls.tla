------------------------------ MODULE PureCalls ------------------------------
(***************************************************************************)
(* The pure functions of the program, called with every input of a small   *)
(* set: the fan-out's fusion and selection (ResultMerge), the windows,     *)
(* queries and PDF pages of the readers (ReadWindow), and the delay of a   *)
(* retry (RetryDelay). A long text is read in as many calls as it takes,   *)
(* each with the start_index of the marker before it.                      *)
(***************************************************************************)
EXTENDS RetryDelay, ResultMerge, ReadWindow

CONSTANTS
    Searches,  \* [fn, responses, req]
    Reads,     \* [fn, lines, opts]
    PDFs,      \* [fn, pdf, opts]
    Delays     \* [fn, base, attempt, header]

\* The lengths of texts and the numbers of a call are ints, base delays positive.
ASSUME PureCallsAssumption ==
    /\ \A c \in Searches : c.fn = "search"
    /\ \A c \in PDFs : c.fn = "pdf"
    /\ \A c \in Reads :
        /\ c \in [fn : {"read"}, lines : Seq({"match", "text", "blank"}),
                 opts : [query : BOOLEAN, context : Ints, contextSet : BOOLEAN, maxMatches : Ints,
                         start : Ints, maxLength : Ints]]
        /\ Validate(c.opts) => Len(content(c.lines, c.opts)) <= MaxInt
    /\ \A c \in Delays : c \in [fn : {"delay"}, base : 1 .. MaxInt, attempt : Nat, header : Headers]

VARIABLES
    call,    \* the function and its arguments
    answer,  \* what it has returned, for a text one window per call
    next     \* the start_index of the next call, or NoMarker

vars == <<call, answer, next>>

Init ==
    /\ call \in Searches \cup Reads \cup PDFs \cup Delays
    /\ answer = <<>>
    /\ next = IF call.fn = "read" THEN call.opts.start ELSE 0

Return(value) == answer' = value /\ next' = NoMarker /\ UNCHANGED call

FanOut ==
    /\ call.fn = "search" /\ next = 0
    /\ Return(searchAll(call.responses, call.req))

RefuseOptions ==
    /\ call.fn = "read" /\ answer = <<>> /\ next # NoMarker
    /\ ~Validate(call.opts)
    /\ Return(<<>>)

ReadWithOptions ==
    /\ call.fn = "read" /\ next # NoMarker
    /\ Validate(call.opts)
    /\ LET part == Apply(call.lines, [call.opts EXCEPT !.start = next])
       IN  answer' = Append(answer, part.window) /\ next' = part.next
    /\ UNCHANGED call

\* A negative context or no results at all are refused before the fetch.
RefusePDF ==
    /\ call.fn = "pdf" /\ next = 0
    /\ ~validLimits(call.opts)
    /\ Return(<<>>)

ReadPDF ==
    /\ call.fn = "pdf" /\ next = 0
    /\ validLimits(call.opts)
    /\ Return(IF call.opts.spec = <<>> /\ ~call.opts.query THEN pdfSummary(call.pdf)
              ELSE readPDFPages(call.pdf, call.opts))

Backoff ==
    /\ call.fn = "delay" /\ next = 0
    /\ \E d \in delays(call.base, call.attempt, ParseRetryAfter(call.header)) : Return(<<d>>)

Next == FanOut \/ RefuseOptions \/ ReadWithOptions \/ RefusePDF \/ ReadPDF \/ Backoff

Spec == Init /\ [][Next]_vars

Finished(fn) == call.fn = fn /\ next = NoMarker

-----------------------------------------------------------------------------
KeyOf(result) == NormalizeResultURL(result.url)

(***************************************************************************)
(* The merged results (merge.go:79-82, selection.go:59-61) are fair, in    *)
(* terms of the ranks alone:                                               *)
(*  - no document comes twice, and each names exactly the providers that   *)
(*    list it among their candidates;                                      *)
(*  - a document that every provider of another ranks higher is before it; *)
(*  - a document is left out only by the filters, by better ones of its    *)
(*    host at the cap, or by better ones that fill the count;              *)
(*  - a title, a date, the longest description any provider gave survive.  *)
(***************************************************************************)
MergeIsFair == Finished("search") =>
    LET resp == call.responses
        req == call.req
        better(a, b) == ahead(resp, a, b, req)
        listed == {key \in UNION {keysUpTo(resp[i], Len(resp[i].results)) : i \in DOMAIN resp} :
                    rowsOf(resp, key, req) # <<>>}
        keys == [i \in DOMAIN answer |-> KeyOf(answer[i])]
        eligible(key) == wanted(Head(rowsOf(resp, key, req)).url.host, req)
        full(rivals, limit, key) ==
            Cardinality(rivals) >= limit /\ \A r \in rivals : ~better(key, r)
    IN  /\ \A i, j \in DOMAIN keys : i < j => keys[i] # keys[j] /\ ~better(keys[j], keys[i])
        /\ ToSet(keys) \subseteq {key \in listed : eligible(key)}
        /\ Len(answer) <= req.count
        /\ \A key \in {k \in listed : eligible(k)} \ ToSet(keys) :
            \/ full(ToSet(keys), req.count, key)
            \/ /\ req.maxPerHost > 0
               /\ full({r \in ToSet(keys) : r.host = key.host}, req.maxPerHost, key)
        /\ req.maxPerHost > 0 =>
            \A key \in ToSet(keys) :
                Cardinality({r \in ToSet(keys) : r.host = key.host}) <= req.maxPerHost
        /\ \A i \in DOMAIN answer :
            LET rows == rowsOf(resp, keys[i], req)
            IN  /\ answer[i].source = SelectSeq([p \in DOMAIN resp |-> resp[p].provider],
                        LAMBDA name : \E p \in DOMAIN resp :
                            resp[p].provider = name /\ lists(resp[p], keys[i], req))
                /\ answer[i].title = "" => \A r \in ToSet(rows) : r.title = ""
                /\ answer[i].published = "" => \A r \in ToSet(rows) : r.published = ""
                /\ answer[i].description = Max({r.description : r \in ToSet(rows)})

(***************************************************************************)
(* Reading a text in chunks (paginate.go:90-92) gives the whole text from  *)
(* start_index on, each character once, in calls of at most max_length     *)
(* characters, whatever the lengths, up to the largest int.                *)
(***************************************************************************)
ChunksRebuildTheText == Finished("read") /\ Validate(call.opts) =>
    LET opts == call.opts
        whole == Apply(call.lines, [opts EXCEPT !.start = 0, !.maxLength = 0]).window
    IN  IF opts.start > 0 /\ opts.start >= Len(whole)
        THEN answer = <<<<item("no content", 0, opts.start)>>>>
        ELSE /\ FlattenSeq(answer) = SubSeq(whole, opts.start + 1, Len(whole))
             /\ opts.maxLength > 0 => \A i \in DOMAIN answer : Len(answer[i]) <= opts.maxLength

\* The answer to a query of a text: the first matches with their context,
\* every line once, a separator at every gap, and a note if there are more.
QueryIsAnswered(text, lines, context, cap) ==
    LET matches == {i \in DOMAIN lines : lines[i] = "match"}
        first == {i \in matches : Cardinality({j \in matches : j < i}) < cap}
        near == {i \in DOMAIN lines : \E m \in first : m - context <= i /\ i <= m + context}
        shown == SelectSeq(text, LAMBDA x : x.kind \in {"line", "--"})
        printed == SelectSeq(text, LAMBDA x : x.kind = "line")
    IN  IF matches = {} THEN text = <<item("no matches", 0, Len(lines))>>
        ELSE /\ Head(text) = item("matches", 0, Cardinality(first))
             /\ printed = [i \in 1 .. Cardinality(near) |-> item("line", 0, SetToSortSeq(near, <)[i])]
             /\ \A i \in 1 .. Len(shown) - 1 :
                    (shown[i].kind = "line" /\ shown[i + 1].kind = "line") =>
                        shown[i + 1].n = shown[i].n + 1
             /\ \A i \in DOMAIN shown : shown[i].kind = "--" =>
                    i \in 2 .. Len(shown) - 1 /\ shown[i + 1].n > shown[i - 1].n + 1
             /\ (Last(text).kind = "truncated") <=> (first # matches)

\* The answer for a PDF: pages in the order they were asked for, or matches in
\* the order of those pages, up to the limit, whole and with their text.
PagesAreAnswered(text, pdf, opts) ==
    LET mention(p) == IF opts.spec = <<>> THEN p
                      ELSE Min({i \in DOMAIN opts.spec : opts.spec[i][1] <= p /\ p <= opts.spec[i][2]})
        pages == IF opts.spec = <<>> THEN DOMAIN pdf
                 ELSE UNION {opts.spec[i][1] .. opts.spec[i][2] : i \in DOMAIN opts.spec}
        before(a, b) == \/ mention(a[1]) < mention(b[1])
                        \/ mention(a[1]) = mention(b[1]) /\ a[1] < b[1]
                        \/ a[1] = b[1] /\ a[2] < b[2]
        hits == IF opts.query
                THEN {h \in UNION {{p} \X DOMAIN pdf[p] : p \in pages} : pdf[h[1]][h[2]] = "match"}
                ELSE {<<p, 1>> : p \in pages}
        first == {h \in hits : Cardinality({g \in hits : before(g, h)}) < opts.maxResults}
        span(h) == IF opts.query
                   THEN {i \in DOMAIN pdf[h[1]] : h[2] - opts.context <= i /\ i <= h[2] + opts.context}
                   ELSE DOMAIN pdf[h[1]]
        section(h) ==
            LET lines == SetToSortSeq(span(h), <)
            IN  <<item("page", h[1], Head(lines))>> \o
                (IF \A i \in span(h) : pdf[h[1]][i] = "blank" THEN <<item("unextractable", h[1], 0)>>
                 ELSE [i \in DOMAIN lines |-> item("line", h[1], lines[i])])
        order == SetToSortSeq(first, before)
    IN  IF hits = {} THEN text = (IF opts.query THEN <<item("no matches", 0, 0)>> ELSE <<>>)
        ELSE text = FlattenSeq([k \in DOMAIN order |-> section(order[k])])
                    \o (IF first # hits THEN <<item("truncated", 0, opts.maxResults)>> ELSE <<>>)

(***************************************************************************)
(* A query shows each match with its context, and pages are shown in the   *)
(* order asked for, none of them as unextractable unless it is; whatever   *)
(* is left out is told ("matches truncated", "results truncated"), and     *)
(* only what is left out is.                                               *)
(***************************************************************************)
CutsAreTold ==
    /\ Finished("read") /\ Validate(call.opts) /\ call.opts.query /\ call.opts.start = 0 =>
        QueryIsAnswered(FlattenSeq(answer), call.lines,
            IF call.opts.contextSet THEN call.opts.context
            ELSE Max({call.opts.context} \cup
                     IF call.opts.context = 0 THEN {defaultQueryContextLines} ELSE {}),
            IF call.opts.maxMatches = 0 THEN defaultMaxQueryMatches ELSE call.opts.maxMatches)
    /\ Finished("pdf") =>
        CASE call.opts.context < 0 \/ call.opts.maxResults <= 0 -> answer = <<>>
          [] validLimits(call.opts) /\ ~validSpec(call.opts.spec, Len(call.pdf)) ->
                answer = <<item("error", 0, Len(call.pdf))>>
          [] OTHER ->
                IF call.opts.spec = <<>> /\ ~call.opts.query
                THEN answer = <<item("summary", 0, Len(call.pdf))>>
                ELSE PagesAreAnswered(answer, call.pdf, call.opts)

(***************************************************************************)
(* A retry sleeps the documented time (retry.go:92-93, 129, 144) whenever  *)
(* what the server asks for fits in a Duration, whatever the doubling      *)
(* overflows. Beyond that the product of errors.go:62 wraps, and the       *)
(* advice no longer "beats the blind exponential guess" (retry.go:92-93):  *)
(* all that is said then is that a retry is never stalled for longer than  *)
(* the cap or the guess.                                                   *)
(***************************************************************************)
DelayIsAsDocumented ==
    Finished("delay") =>
        /\ tellable(call.header) =>
            Head(answer) \in documented(call.base, call.attempt, call.header)
        /\ Head(answer) \in 0 .. RetryAfterCap \cup guess(call.base, call.attempt)
=============================================================================
