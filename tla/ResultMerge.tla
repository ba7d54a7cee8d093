---------------------------- MODULE ResultMerge ----------------------------
(***************************************************************************)
(* internal/search: how the rows of the providers become the results of a  *)
(* search. merge.go fuses rankings by reciprocal rank, selection.go sizes  *)
(* the pool of candidates and applies domain filters and the host cap.     *)
(*                                                                         *)
(* A URL is [host, path]: the host a sequence of labels, <<>> when the row *)
(* has no usable absolute URL. Of what NormalizeResultURL folds, "www." is *)
(* kept in the model, because selection looks at it too. A title is "" or  *)
(* a text, a description its length. Scores are exact: the common multiple *)
(* Scale stands for 1.                                                     *)
(***************************************************************************)
EXTENDS Integers, SequencesExt

CONSTANTS
    rrfK,
    MaxRank,         \* bound: usable rows of one provider
    DefaultCount,    \* the ten results candidateCount starts from
    MaxResultCount

ASSUME MergeAssumption ==
    /\ rrfK \in Nat \ {0} /\ MaxRank \in Nat \ {0}
    /\ DefaultCount \in Nat \ {0} /\ MaxResultCount \in Nat \ {0}

Usable(row) == row.url.host # <<>>

trimWWW(host) == IF Len(host) > 1 /\ Head(host) = "www" THEN Tail(host) ELSE host

NormalizeResultURL(url) == [url EXCEPT !.host = trimWWW(@)]

-----------------------------------------------------------------------------
(* fuseResults. A document is kept under its normalised URL; `order` lists *)
(* the keys as they were first seen.                                       *)

Scale == ProductSet({rrfK + rank : rank \in 1 .. MaxRank})

\* Later rows of a document complete what the first one lacks.
complete(doc, row) ==
    [doc EXCEPT !.title = IF @ = "" THEN row.title ELSE @,
                !.description = Max({@, row.description}),
                !.published = IF @ = "" THEN row.published ELSE @]

vote(doc, rank, source) ==
    [doc EXCEPT !.score = @ + Scale \div (rrfK + rank),
                !.sources = IF Contains(@, source) THEN @ ELSE Append(@, source)]

\* Mutant: every row of a document is a vote.
voted_Always(st, key) == FALSE

\* Each provider has one vote per document.
voted(st, key) == key \in st.seen

addRow(st, row) ==
    LET key == NormalizeResultURL(row.url)
        known == key \in DOMAIN st.docs
        doc == IF known THEN complete(st.docs[key], row)
               ELSE [url |-> row.url, title |-> row.title, score |-> 0, sources |-> <<>>,
                     description |-> row.description, published |-> row.published]
        source == IF row.source = <<>> THEN <<st.provider>> ELSE row.source
        counted == IF voted(st, key) THEN doc ELSE vote(doc, st.rank + 1, source)
    IN  [st EXCEPT !.docs = (key :> counted) @@ @,
                   !.order = IF known THEN @ ELSE Append(@, key),
                   !.rank = IF voted(st, key) THEN @ ELSE @ + 1,
                   !.seen = @ \cup {key}]

\* Rows without a usable URL consume no rank.
addResponse(st, response) ==
    FoldLeft(addRow,
             [st EXCEPT !.provider = response.provider, !.rank = 0, !.seen = {}],
             SelectSeq(response.results, Usable))

\* The stable sort by descending score.
byScore(st) ==
    SetToSortSeq(DOMAIN st.order,
        LAMBDA i, j : LET a == st.docs[st.order[i]].score
                          b == st.docs[st.order[j]].score
                      IN  a > b \/ (a = b /\ i < j))

fuseResults(responses, count) ==
    LET st == FoldLeft(addResponse,
                       [docs |-> <<>>, order |-> <<>>, provider |-> "", rank |-> 0, seen |-> {}],
                       responses)
        ranking == byScore(st)
        kept == IF count > 0 THEN Min({count, Len(ranking)}) ELSE Len(ranking)
        result(doc) == [url |-> doc.url, title |-> doc.title, description |-> doc.description,
                        published |-> doc.published, source |-> FlattenSeq(doc.sources)]
    IN  [i \in 1 .. kept |-> result(st.docs[st.order[ranking[i]]])]

-----------------------------------------------------------------------------
(* selection.go                                                            *)

candidateCount(req) ==
    LET filtered == req.include # {} \/ req.exclude # {} \/ req.maxPerHost > 0
        wanted == {req.count, DefaultCount}
                  \cup IF filtered THEN {Min({3 * req.count, MaxResultCount})} ELSE {}
    IN  Min({Max(wanted), MaxResultCount})

\* The host is one of the domains or below one.
matchesDomain(host, domains) == \E domain \in domains : IsSuffix(domain, host)

wanted(host, req) ==
    /\ req.include # {} => matchesDomain(host, req.include)
    /\ ~matchesDomain(host, req.exclude)

\* Results of the host the selection has already.
ofHost(selected, host) == SelectSeq(selected, LAMBDA r : trimWWW(r.url.host) = trimWWW(host))

selectResults(results, req) ==
    LET pick(selected, r) ==
            IF /\ Len(selected) < req.count
               /\ wanted(r.url.host, req)
               /\ req.maxPerHost > 0 =>
                    Len(ofHost(selected, r.url.host)) < req.maxPerHost
            THEN Append(selected, r) ELSE selected
    IN  FoldLeft(pick, <<>>, results)

-----------------------------------------------------------------------------
(* service.go: each leg is fused alone and cut to the candidates, then the *)
(* legs are fused and selected from.                                       *)

searchOne(response, req) ==
    [response EXCEPT !.results = fuseResults(<<response>>, candidateCount(req))]

searchAll(responses, req) ==
    LET legs == [i \in DOMAIN responses |-> searchOne(responses[i], req)]
    IN  selectResults(fuseResults(legs, 0), req)

-----------------------------------------------------------------------------
(* What the ranks themselves say, without scores.                          *)

keysUpTo(response, i) ==
    {NormalizeResultURL(response.results[j].url) :
        j \in {k \in 1 .. i : Usable(response.results[k])}}

\* The position of a document among the different documents of a response.
places(response, key) ==
    {Cardinality(keysUpTo(response, i)) :
        i \in {j \in DOMAIN response.results : key \in keysUpTo(response, j)}}

\* A provider lists a document within the candidates.
lists(response, key, req) ==
    places(response, key) # {} /\ Min(places(response, key)) <= candidateCount(req)

\* Whoever lists b lists a before it.
ahead(responses, a, b, req) ==
    /\ a # b
    /\ \A i \in DOMAIN responses :
        lists(responses[i], b, req) =>
            /\ lists(responses[i], a, req)
            /\ Min(places(responses[i], a)) < Min(places(responses[i], b))

\* All rows of a document that a provider lists within the candidates.
rowsOf(responses, key, req) ==
    FlattenSeq([i \in DOMAIN responses |->
        IF lists(responses[i], key, req)
        THEN SelectSeq(responses[i].results,
                       LAMBDA row : Usable(row) /\ NormalizeResultURL(row.url) = key)
        ELSE <<>>])
=============================================================================
