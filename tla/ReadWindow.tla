----------------------------- MODULE ReadWindow -----------------------------
(***************************************************************************)
(* internal/reader: which part of a fetched document a call returns.       *)
(* paginate.go cuts a text into windows and finds lines in it; reader.go   *)
(* selects pages of a PDF and finds lines in them.                         *)
(*                                                                         *)
(* A line is "match", "text" or "blank" as far as the query of the call is *)
(* concerned. An answer is a sequence of items [kind, page, n], one for    *)
(* each thing the code writes; an item stands for a character as well, so  *)
(* that answers can be paginated. Pages of a text are 0.                   *)
(***************************************************************************)
EXTENDS MachineInt, SequencesExt

CONSTANTS
    defaultQueryContextLines,
    defaultMaxQueryMatches,
    maxQueryContextLines,
    maxQueryMatches,
    maxPDFPages

ASSUME WindowAssumption ==
    /\ defaultQueryContextLines \in 0 .. maxQueryContextLines /\ maxQueryContextLines \in Nat
    /\ defaultMaxQueryMatches \in 1 .. maxQueryMatches /\ maxQueryMatches \in Nat

item(kind, page, n) == [kind |-> kind, page |-> page, n |-> n]

\* Lines first to last, each with its number.
numbered(page, first, last) == [i \in 1 .. last - first + 1 |-> item("line", page, first + i - 1)]

-----------------------------------------------------------------------------
(* paginate.go. A window is the part returned and the start_index of the   *)
(* marker behind it, or NoMarker.                                          *)

NoMarker == -1

\* Comparing before adding keeps the sum within an int.
cut(start, maxLength, total) ==
    IF maxLength > 0 /\ maxLength < Wrap(total - start) THEN Wrap(start + maxLength) ELSE total

\* Mutant: the marker names the character after the next.
marker_SkipsOne(end, total) == IF end < total THEN end + 1 ELSE NoMarker

marker(end, total) == IF end < total THEN end ELSE NoMarker

paginateContent(text, start, maxLength) ==
    LET total == Len(text)
        end == cut(start, maxLength, total)
    IN  IF start > 0 /\ start >= total
        THEN [window |-> <<item("no content", 0, start)>>, next |-> NoMarker]
        ELSE [window |-> SubSeq(text, start + 1, end),
              next |-> marker(end, total)]

matchesIn(lines) ==
    LET found[i \in 0 .. Len(lines)] ==
        IF i = 0 THEN <<>>
        ELSE IF lines[i] = "match" THEN Append(found[i - 1], i) ELSE found[i - 1]
    IN  found[Len(lines)]

\* One match with its context, less what was printed for the one before.
block(st, m) ==
    LET start == Max({m - st.context, st.printed + 1, 1})
        end == Min({m + st.context, st.total})
        gap == IF st.printed > 0 /\ start > st.printed + 1 THEN <<item("--", 0, 0)>> ELSE <<>>
    IN  [st EXCEPT !.out = @ \o gap \o numbered(0, start, end), !.printed = end]

grepContent(lines, context, maxMatches) ==
    LET cap == IF maxMatches = 0 THEN defaultMaxQueryMatches ELSE maxMatches
        found == matchesIn(lines)
        matched == SubSeq(found, 1, Min({cap, Len(found)}))
        blocks[i \in 0 .. Len(matched)] ==
            IF i = 0 THEN [out |-> <<>>, printed |-> 0, context |-> context, total |-> Len(lines)]
            ELSE block(blocks[i - 1], matched[i])
    IN  IF matched = <<>> THEN <<item("no matches", 0, Len(lines))>>
        ELSE <<item("matches", 0, Len(matched))>> \o blocks[Len(matched)].out
             \o (IF Len(found) > cap THEN <<item("truncated", 0, cap)>> ELSE <<>>)

Validate(opts) ==
    /\ opts.maxLength >= 0 /\ opts.start >= 0
    /\ opts.context \in 0 .. maxQueryContextLines
    /\ opts.maxMatches \in 0 .. maxQueryMatches

\* What is paginated: an omitted context is the default, a zero is a zero.
content(lines, opts) ==
    LET context == IF opts.context = 0 /\ ~opts.contextSet THEN defaultQueryContextLines
                   ELSE opts.context
    IN  IF opts.query THEN grepContent(lines, context, opts.maxMatches)
        ELSE numbered(0, 1, Len(lines))

\* ReadOptions.Apply.
Apply(lines, opts) == paginateContent(content(lines, opts), opts.start, opts.maxLength)

-----------------------------------------------------------------------------
(* PDF pages. A specification is a sequence of ranges <<first, last>>; the *)
(* empty one selects all pages.                                            *)

range(first, last) == [i \in 1 .. last - first + 1 |-> first + i - 1]

\* The pages in the order of their first mention.
unique(pages) ==
    FoldLeft(LAMBDA kept, p : IF Contains(kept, p) THEN kept ELSE Append(kept, p), <<>>, pages)

validSpec(spec, total) ==
    /\ total <= maxPDFPages
    /\ \A i \in DOMAIN spec :
        1 <= spec[i][1] /\ spec[i][1] <= spec[i][2] /\ spec[i][2] <= total

parsePDFPageSpec(spec, total) ==
    IF spec = <<>> THEN range(1, total)
    ELSE unique(FlattenSeq([i \in DOMAIN spec |-> range(spec[i][1], spec[i][2])]))

writePDFPageLines(page, lines, first, last) ==
    <<item("page", page, first)>> \o
    (IF \A i \in first .. last : lines[i] = "blank" THEN <<item("unextractable", page, 0)>>
     ELSE numbered(page, first, last))

\* What each selected page adds; `results` counts pages or matches.
formatPDFPage(st, page) ==
    LET lines == st.pages[page]
        show(s, first, last) ==
            IF s.truncated THEN s
            ELSE IF s.results >= s.max THEN [s EXCEPT !.truncated = TRUE]
            ELSE [s EXCEPT !.out = @ \o writePDFPageLines(page, lines, first, last),
                           !.results = @ + 1]
    IN  IF ~st.query THEN show(st, 1, Len(lines))
        ELSE FoldLeft(LAMBDA s, m : show(s, Max({1, m - s.context}), Min({Len(lines), m + s.context})),
                      st, matchesIn(lines))

formatPDFPages(pages, selected, opts) ==
    LET st == FoldLeft(formatPDFPage,
                       [pages |-> pages, query |-> opts.query, context |-> opts.context,
                        max |-> opts.maxResults, out |-> <<>>, results |-> 0, truncated |-> FALSE],
                       selected)
    IN  IF st.results = 0 /\ opts.query THEN <<item("no matches", 0, 0)>>
        ELSE st.out \o (IF st.truncated THEN <<item("truncated", 0, opts.maxResults)>> ELSE <<>>)

\* Mutant: only the first pages are read, query or not.
extracted_Capped(selected, opts) ==
    {selected[i] : i \in 1 .. Min({opts.maxResults, Len(selected)})}

\* Without a query no more pages are read than will be shown.
extracted(selected, opts) ==
    {selected[i] : i \in {j \in DOMAIN selected : opts.query \/ j <= opts.maxResults}}

\* A page that is not read is an empty text.
readPDFPages(pdf, opts) ==
    LET selected == parsePDFPageSpec(opts.spec, Len(pdf))
        pages == [p \in DOMAIN pdf |->
                    IF p \in extracted(selected, opts) THEN pdf[p] ELSE <<"blank">>]
    IN  IF ~validSpec(opts.spec, Len(pdf)) THEN <<item("error", 0, Len(pdf))>>
        ELSE formatPDFPages(pages, selected, opts)

\* Without pages and query: the metadata and the outline, under the same limit.
pdfSummary(pdf) ==
    IF validSpec(<<>>, Len(pdf)) THEN <<item("summary", 0, Len(pdf))>>
    ELSE <<item("error", 0, Len(pdf))>>

validLimits(opts) == opts.context >= 0 /\ opts.maxResults > 0
=============================================================================
