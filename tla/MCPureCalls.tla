----------------------------- MODULE MCPureCalls -----------------------------
(* Inputs of PureCalls for TLC. *)
EXTENDS PureCalls

url(host, path) == [host |-> host, path |-> path]
row(u, title, description, published) ==
    [url |-> u, title |-> title, description |-> description, published |-> published,
     source |-> <<>>]

\* Two rows of one document, the first without its metadata; a second document
\* of the same host; one of another host, below it; a row without a URL.
Rows == {row(url(<<"x">>, 1), "", 1, ""), row(url(<<"www", "x">>, 1), "t", 2, "d"),
         row(url(<<"x">>, 2), "t", 1, ""), row(url(<<"y", "x">>, 1), "t", 1, ""),
         row(url(<<>>, 0), "t", 1, "")}

AllSearches ==
    [fn : {"search"},
     responses : {<<[provider |-> "p", results |-> a], [provider |-> "q", results |-> b]>> :
                    a \in BoundedSeq(Rows, 3), b \in BoundedSeq(Rows, 2)},
     req : [count : {1, 2}, include : {{}, {<<"x">>}, {<<"www", "x">>}}, exclude : {{}, {<<"y", "x">>}},
            maxPerHost : {0, 1}]]

AllReads ==
    [fn : {"read"}, lines : BoundedSeq({"match", "text"}, 5),
     opts : [query : BOOLEAN, context : {0, 1}, contextSet : BOOLEAN, maxMatches : {0, 1},
             start : {0, 1, MaxInt}, maxLength : {-1, 0, 1, 2, MaxInt}]]

Page == {<<"blank">>, <<"match">>, <<"text", "match", "match">>}

AllPDFs ==
    [fn : {"pdf"}, pdf : (SeqOf(Page, 3) \ {<<>>}) \cup {<<<<"text">>, <<"match">>, <<"blank">>, <<"text">>>>},
     opts : [spec : BoundedSeq({<<1, 1>>, <<2, 2>>, <<1, 2>>, <<2, 3>>, <<3, 2>>}, 2) , query : BOOLEAN,
             context : {-1, 0, 1}, maxResults : {0, 1, 2}]]

\* Seconds that fit, that wrap to a negative and to a small positive Duration;
\* dates that have passed, and one too far for a Duration.
AllHeaders ==
    [kind : {"none"}, n : {0}] \cup [kind : {"seconds"}, n : {-1, 0, 1, 2, 3, 6}] \cup
    [kind : {"date"}, n : {-1, 1, 5, MaxInt + 2}]

AllDelays == [fn : {"delay"}, base : 1 .. MaxInt, attempt : 0 .. 4, header : AllHeaders]
=============================================================================
