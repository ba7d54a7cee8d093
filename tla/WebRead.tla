------------------------------- MODULE WebRead -------------------------------
(***************************************************************************)
(* internal/reader: one call of Read, ExtractLinks or ReadPDF, as the      *)
(* sequence of requests it makes. Read routes a URL to a site reader that  *)
(* asks one or more API endpoints, some required, some best-effort, some   *)
(* paged; every other URL is fetched as a page, past an Anubis challenge   *)
(* if it is met by one, and from the Wayback Machine if it is gone.        *)
(*                                                                         *)
(* A control point is the endpoint about to be asked. What an answer is    *)
(* worth is told apart by its status and its body:                         *)
(*   endpoints  "good"; "bad" (undecodable, the wrong shape, not found)    *)
(*   listings   "good" is a short page; "more" and "full" are full pages   *)
(*              with and without a link to the next                        *)
(*   pages      "article", "text" (feed, JSON, PDF, plain), "binary",      *)
(*              "challenge" (Anubis), "unsolvable" (malformed or too hard),*)
(*              "interstitial" (prepareHTML), "bad" (too long, torn off)   *)
(*   as it is   what is served in place of the document is taken for it:   *)
(*              "good", or any of the pages above; "cut" (too long)        *)
(* How URLs are recognised and what is rendered is left out. Conditional   *)
(* requests and the page cache itself are the subject of PageCache: here   *)
(* a fresh copy may or may not be there.                                   *)
(***************************************************************************)
EXTENDS Naturals, FiniteSets

CONSTANTS
    MaxPages,   \* gitHubMaxPages
    TopLimit,   \* hackerNewsTopCommentLimit
    ReplyLimit, \* hackerNewsRepliesPerCommentLimit
    MaxKids     \* bound: comments below a Hacker News item

ASSUME ReadAssumption ==
    MaxPages \in Nat \ {0} /\ TopLimit \in Nat \ {0} /\ ReplyLimit \in Nat \ {0} /\ MaxKids \in Nat

\* What the is...URL predicates recognise; a Gerrit URL may name the project.
Sites == {"reddit", "issue", "pull", "blob", "repo", "wikipedia", "lobsters",
          "gitlab", "gerrit", "gerrit-project", "gitiles", "pkggodev",
          "youtube", "hackernews", "stackoverflow", "arxiv"}

Listings == {"comments", "reviews"}
Pages == {"live", "snapshot", "page"}

\* Answered by a document rather than by data: what comes with status 200 is
\* the content, however much of it the limit on a body lets through.
TakenAsIs == {"raw", "readme", "rendered", "package"}

\* The control point at which the challenge of a page is answered.
Proof(page) == CASE page = "live" -> "live-proof"
                 [] page = "snapshot" -> "snapshot-proof"
                 [] page = "page" -> "page-proof"

Proofs == {Proof(page) : page \in Pages}

VARIABLES
    target,  \* the call: [op, kind, valid, archive]
    ctx,     \* its context: "live" or "dead"
    pc,      \* the endpoint it asks next, or "start" or "done"
    got,     \* endpoints that answered well
    absent,  \* optional parts that the source said it does not have
    pages,   \* pages read of each listing
    ended,   \* listings read to their end
    thread,  \* Hacker News: how many comments the item has, how many were
             \* tried and kept; the same for the replies to the last comment
    content, \* the body of the page or document that was returned, "cached" if
             \* an earlier read received it, "none" if it was made from data
    err,     \* endpoint and status of the error at hand, or NoError
    outcome  \* "none", "ok" or "error"

vars == <<target, ctx, pc, got, absent, pages, ended, thread, content, err, outcome>>

NoError == [at |-> "none", status |-> 0]

Init ==
    /\ target \in [op : {"read"}, kind : Sites, valid : BOOLEAN, archive : {FALSE}]
              \cup [op : {"read"}, kind : {"generic"}, valid : BOOLEAN, archive : BOOLEAN]
              \cup [op : {"links", "pdf"}, kind : {"generic"}, valid : BOOLEAN, archive : {FALSE}]
    /\ ctx = "live"
    /\ pc = "start"
    /\ got = {} /\ absent = {} /\ ended = {}
    /\ pages = [l \in Listings |-> 0]
    /\ thread = [kids |-> 0, tried |-> 0, kept |-> 0, rkids |-> 0, rtried |-> 0, rkept |-> 0]
    /\ content = "none"
    /\ err = NoError
    /\ outcome = "none"

-----------------------------------------------------------------------------
(* Answers. A request of a dead context gets none (status 0).              *)

Bodies(e) ==
    CASE e \in Listings -> {"good", "more", "full", "bad"}
      [] e \in Pages \cup Proofs ->
            {"article", "text", "binary", "challenge", "unsolvable", "interstitial", "bad"}
      [] e \in TakenAsIs -> {"good", "binary", "challenge", "interstitial", "cut", "bad"}
      [] e = "watch" -> {"good", "no-captions", "bad"}
      [] OTHER -> {"good", "bad"}

Unreachable == [status |-> 0, body |-> "bad"]

Answers(e) ==
    {Unreachable} \cup
    (IF ctx = "dead" THEN {}
     ELSE [status : {200}, body : Bodies(e)]
          \cup [status : {403, 404, 429, 451, 500}, body : {"bad"}])

Ok(a) == a.status = 200 /\ a.body # "bad"

-----------------------------------------------------------------------------
(* The ways a step may end.                                                *)

Go(to) ==
    /\ pc' = to
    /\ outcome' = IF to = "done" THEN "ok" ELSE outcome
    /\ UNCHANGED err

Fail(e, status) == pc' = "done" /\ outcome' = "error" /\ err' = [at |-> e, status |-> status]

\* The fallback failed as well: the first error is returned.
FailAsBefore == pc' = "done" /\ outcome' = "error" /\ UNCHANGED err

\* Another endpoint is tried, and this error kept for when it fails.
FallBack(e, status, to) == pc' = to /\ err' = [at |-> e, status |-> status] /\ UNCHANGED outcome

\* An endpoint that must answer.
Required(e, next) ==
    /\ pc = e
    /\ \E a \in Answers(e) :
        IF Ok(a) THEN got' = got \cup {e} /\ Go(next)
        ELSE Fail(e, a.status) /\ UNCHANGED got
    /\ UNCHANGED <<target, ctx, absent, pages, ended, thread, content>>

\* An endpoint whose error is dropped.
Attempt(e, next, otherwise) ==
    /\ pc = e
    /\ \E a \in Answers(e) :
        IF Ok(a) THEN got' = got \cup {e} /\ Go(next)
        ELSE Go(otherwise) /\ UNCHANGED got
    /\ UNCHANGED <<target, ctx, absent, pages, ended, thread, content>>

Deliver(e, body) == got' = got \cup {e} /\ content' = body /\ Go("done")

\* Mutant: stops one page early.
followed_OneShort(a, n) == a.body = "more" /\ n + 1 < MaxPages

\* A full page names the next one, which is read up to the cap.
followed(a, n) == a.body = "more" /\ n < MaxPages

fetchGitHubPaginated(e, next) ==
    LET n == pages[e] + 1
    IN
    /\ pc = e
    /\ \E a \in Answers(e) :
        IF ~Ok(a) THEN Fail(e, a.status) /\ UNCHANGED <<got, pages, ended>>
        ELSE /\ pages' = [pages EXCEPT ![e] = n]
             /\ IF followed(a, n) THEN UNCHANGED <<pc, got, ended, err, outcome>>
                ELSE /\ got' = got \cup {e}
                     /\ ended' = IF a.body = "more" THEN ended ELSE ended \cup {e}
                     /\ Go(next)
    /\ UNCHANGED <<target, ctx, absent, thread, content>>

-----------------------------------------------------------------------------
(* The site readers.                                                       *)

reddit == Required("reddit", "done")
wikipedia == Required("extract", "done")
lobsters == Required("story", "done")
gitlab == Required("issuable", "notes") \/ Attempt("notes", "done", "done")

\* A binary file is refused; an HTML page in the place of the file is not.
githubFile ==
    /\ pc = "raw"
    /\ \E a \in Answers("raw") :
        IF Ok(a) /\ a.body # "binary" THEN Deliver("raw", a.body)
        ELSE Fail("raw", a.status) /\ UNCHANGED <<got, content>>
    /\ UNCHANGED <<target, ctx, absent, pages, ended, thread>>

\* The documentation section, or else the whole of whatever page this is.
pkggodev ==
    /\ pc = "package"
    /\ \E a \in Answers("package") :
        IF Ok(a) THEN Deliver("package", a.body)
        ELSE Fail("package", a.status) /\ UNCHANGED <<got, content>>
    /\ UNCHANGED <<target, ctx, absent, pages, ended, thread>>

githubThread ==
    \/ Required("issue", "comments")
    \/ fetchGitHubPaginated("comments", IF target.kind = "pull" THEN "pull" ELSE "done")
    \/ Required("pull", "reviews")
    \/ fetchGitHubPaginated("reviews", "done")

\* A missing README is fine, any other failure is not.
fetchGitHubReadme ==
    /\ pc = "readme"
    /\ \E a \in Answers("readme") :
        IF Ok(a) THEN Deliver("readme", a.body) /\ UNCHANGED absent
        ELSE /\ IF a.status = 404 THEN absent' = absent \cup {"readme"} /\ Go("done")
                ELSE Fail("readme", a.status) /\ UNCHANGED absent
             /\ UNCHANGED <<got, content>>
    /\ UNCHANGED <<target, ctx, pages, ended, thread>>

githubRepo == Required("repo", "readme") \/ fetchGitHubReadme

\* The project in the URL may be wrong: the bare change id is tried next.
gerritChange ==
    /\ pc = "change"
    /\ \E a \in Answers("change") :
        IF Ok(a) THEN got' = got \cup {"change"} /\ Go("files")
        ELSE /\ IF target.kind = "gerrit-project"
                THEN FallBack("change", a.status, "bare") ELSE Fail("change", a.status)
             /\ UNCHANGED got
    /\ UNCHANGED <<target, ctx, absent, pages, ended, thread, content>>

gerritBare ==
    /\ pc = "bare"
    /\ \E a \in Answers("bare") :
        IF Ok(a) THEN got' = got \cup {"bare"} /\ Go("files")
        ELSE FailAsBefore /\ UNCHANGED got
    /\ UNCHANGED <<target, ctx, absent, pages, ended, thread, content>>

gerrit == gerritChange \/ gerritBare \/ Attempt("files", "done", "done")

\* Whatever HTML page is served under the URL of the object is its rendering.
fetchGitilesRenderedPage ==
    /\ pc = "rendered"
    /\ \E a \in Answers("rendered") :
        IF Ok(a) THEN Deliver("rendered", a.body) ELSE Go("live") /\ UNCHANGED <<got, content>>
    /\ UNCHANGED <<target, ctx, absent, pages, ended, thread>>

\* After its three routes Read treats the URL as any page.
gitiles ==
    \/ Attempt("TEXT", "done", "JSON")
    \/ Attempt("JSON", "done", "rendered")
    \/ fetchGitilesRenderedPage

youtube ==
    \/ /\ pc = "watch"
       /\ \E a \in Answers("watch") :
            IF ~Ok(a) THEN Fail("watch", a.status) /\ UNCHANGED <<got, absent>>
            ELSE /\ got' = got \cup {"watch"}
                 /\ absent' = IF a.body = "good" THEN absent ELSE absent \cup {"captions"}
                 /\ Go(IF a.body = "good" THEN "captions" ELSE "done")
       /\ UNCHANGED <<target, ctx, pages, ended, thread, content>>
    \/ Required("captions", "done")

\* Mutant: the question alone will do.
stackoverflow_AnswersOptional ==
    Required("question", "answers") \/ Attempt("answers", "done", "done")

stackoverflow == Required("question", "answers") \/ Required("answers", "done")

\* The page itself serves when the API is down, unless the call is over.
arxiv ==
    /\ pc = "atom"
    /\ \E a \in Answers("atom") :
        IF Ok(a) THEN got' = got \cup {"atom"} /\ Go("done")
        ELSE /\ IF ctx = "dead" THEN Fail("atom", 0) ELSE Go("live")
             /\ UNCHANGED got
    /\ UNCHANGED <<target, ctx, absent, pages, ended, thread, content>>

-----------------------------------------------------------------------------
(* Hacker News: comments are fetched one by one; those that fail or are    *)
(* dead are passed over, and replies are read one level deep.              *)

item ==
    /\ pc = "item"
    /\ \E a \in Answers("item"), kids \in 0 .. MaxKids :
        IF Ok(a) THEN /\ got' = got \cup {"item"} /\ Go("comment")
                      /\ thread' = [thread EXCEPT !.kids = kids]
        ELSE Fail("item", a.status) /\ UNCHANGED <<got, thread>>
    /\ UNCHANGED <<target, ctx, absent, pages, ended, content>>

moreComments == thread.tried < thread.kids /\ thread.kept < TopLimit
moreReplies == thread.rtried < thread.rkids /\ thread.rkept < ReplyLimit

comment ==
    /\ pc = "comment"
    /\ IF ~moreComments THEN Go("done") /\ UNCHANGED thread
       ELSE \E a \in Answers("comment"), kids \in 0 .. MaxKids :
            IF ~Ok(a) THEN /\ thread' = [thread EXCEPT !.tried = @ + 1]
                           /\ Go("comment")
            ELSE /\ thread' = [thread EXCEPT !.tried = @ + 1, !.kept = @ + 1,
                                   !.rkids = kids, !.rtried = 0, !.rkept = 0]
                 /\ Go("reply")
    /\ UNCHANGED <<target, ctx, got, absent, pages, ended, content>>

reply ==
    /\ pc = "reply"
    /\ IF ~moreReplies THEN Go("comment") /\ UNCHANGED thread
       ELSE \E a \in Answers("reply") :
            /\ thread' = [thread EXCEPT !.rtried = @ + 1,
                              !.rkept = IF Ok(a) THEN @ + 1 ELSE @]
            /\ Go("reply")
    /\ UNCHANGED <<target, ctx, got, absent, pages, ended, content>>

hackernews == item \/ comment \/ reply

-----------------------------------------------------------------------------
(* Pages.                                                                  *)

isWaybackWorthy(status) == status \in {404, 410, 451} \/ status >= 500

\* Mutant: any failure sends Read to the archive.
PageFails_AlwaysArchive(e, page, status) ==
    CASE page = "live" /\ ~target.archive -> FallBack(e, status, "available")
      [] page = "snapshot" -> FailAsBefore
      [] OTHER -> Fail(e, status)

\* A page could not be read: the archive is asked for a live page that is
\* gone, and a failure of the archive is never the answer.
PageFails(e, page, status) ==
    CASE page = "live" /\ isWaybackWorthy(status) /\ ~target.archive ->
            FallBack(e, status, "available")
      [] page = "snapshot" -> FailAsBefore
      [] OTHER -> Fail(e, status)

\* A fresh copy is in the page cache, or a 304 confirms an old one: what an
\* earlier read stored is returned.
cachedPage(page) ==
    /\ pc = page /\ page # "page"
    /\ Deliver(page, "cached")
    /\ UNCHANGED <<target, ctx, absent, pages, ended, thread>>

\* The page is requested; ExtractLinks accepts HTML only.
requestPage(page) ==
    /\ pc = page
    /\ \E a \in Answers(page) :
        IF a.status # 200 THEN PageFails(page, page, a.status) /\ UNCHANGED <<got, content>>
        ELSE IF a.body \in {"article"} \cup IF page = "page" THEN {} ELSE {"text"}
        THEN Deliver(page, a.body)
        ELSE IF a.body = "challenge" THEN Go(Proof(page)) /\ UNCHANGED <<got, content>>
        ELSE PageFails(page, page, 0) /\ UNCHANGED <<got, content>>
    /\ UNCHANGED <<target, ctx, absent, pages, ended, thread>>

\* What is accepted after the proof: no media type is looked at any more, and
\* ExtractLinks does not look for a second challenge.
afterProof(page) ==
    {"article", "text", "binary"} \cup IF page = "page" THEN {"challenge", "unsolvable"} ELSE {}

\* Mutant: when the challenge persists the page is requested again.
passAnubisChallenge_Again(page) ==
    /\ pc = Proof(page)
    /\ \E a \in Answers(Proof(page)) :
        IF a.status = 200 /\ a.body \in afterProof(page) THEN Deliver(Proof(page), a.body)
        ELSE IF a.status = 200 /\ a.body = "challenge"
        THEN Go(page) /\ UNCHANGED <<got, content>>
        ELSE PageFails(Proof(page), page, a.status) /\ UNCHANGED <<got, content>>
    /\ UNCHANGED <<target, ctx, absent, pages, ended, thread>>

\* Mutant: the answer to the proof is taken for the page.
passAnubisChallenge_Unchecked(page) ==
    /\ pc = Proof(page)
    /\ \E a \in Answers(Proof(page)) :
        IF a.status = 200 THEN Deliver(Proof(page), a.body)
        ELSE PageFails(Proof(page), page, a.status) /\ UNCHANGED <<got, content>>
    /\ UNCHANGED <<target, ctx, absent, pages, ended, thread>>

\* The proof of work is computed and submitted, and what it leads to is read.
passAnubisChallenge(page) ==
    /\ pc = Proof(page)
    /\ \E a \in Answers(Proof(page)) :
        IF a.status = 200 /\ a.body \in afterProof(page) THEN Deliver(Proof(page), a.body)
        ELSE /\ PageFails(Proof(page), page, IF a.status = 200 THEN 0 ELSE a.status)
             /\ UNCHANGED <<got, content>>
    /\ UNCHANGED <<target, ctx, absent, pages, ended, thread>>

fetchPage(page) == cachedPage(page) \/ requestPage(page) \/ passAnubisChallenge(page)

waybackSnapshot ==
    /\ pc = "available"
    /\ \E a \in Answers("available") : IF Ok(a) THEN Go("snapshot") ELSE FailAsBefore
    /\ UNCHANGED <<target, ctx, got, absent, pages, ended, thread, content>>

\* ReadPDF; the text of a PDF is the content.
fetchPDF ==
    /\ pc = "pdf"
    /\ \E a \in Answers("pdf") :
        IF Ok(a) THEN Deliver("pdf", "text")
        ELSE Fail("pdf", a.status) /\ UNCHANGED <<got, content>>
    /\ UNCHANGED <<target, ctx, absent, pages, ended, thread>>

-----------------------------------------------------------------------------
(* The calls.                                                              *)

First(t) ==
    CASE t.op = "links" -> "page"
      [] t.op = "pdf" -> "pdf"
      [] t.kind = "reddit" -> "reddit"
      [] t.kind \in {"issue", "pull"} -> "issue"
      [] t.kind = "blob" -> "raw"
      [] t.kind = "repo" -> "repo"
      [] t.kind = "wikipedia" -> "extract"
      [] t.kind = "lobsters" -> "story"
      [] t.kind = "gitlab" -> "issuable"
      [] t.kind \in {"gerrit", "gerrit-project"} -> "change"
      [] t.kind = "gitiles" -> "TEXT"
      [] t.kind = "pkggodev" -> "package"
      [] t.kind = "youtube" -> "watch"
      [] t.kind = "hackernews" -> "item"
      [] t.kind = "stackoverflow" -> "question"
      [] t.kind = "arxiv" -> "atom"
      [] OTHER -> "live"

\* A dead context or an unacceptable URL ends the call.
Start ==
    /\ pc = "start"
    /\ IF ctx = "dead" \/ ~target.valid THEN Fail("start", 0) ELSE Go(First(target))
    /\ UNCHANGED <<target, ctx, got, absent, pages, ended, thread, content>>

Cancel ==
    /\ pc # "done" /\ ctx = "live"
    /\ ctx' = "dead"
    /\ UNCHANGED <<target, pc, got, absent, pages, ended, thread, content, err, outcome>>

Read ==
    \/ Start
    \/ reddit \/ githubFile \/ githubThread \/ githubRepo \/ wikipedia \/ lobsters
    \/ gitlab \/ gerrit \/ gitiles \/ pkggodev \/ youtube \/ stackoverflow
    \/ arxiv \/ hackernews
    \/ waybackSnapshot \/ fetchPDF
    \/ \E page \in Pages : fetchPage(page)

Next == Read \/ Cancel

Spec == Init /\ [][Next]_vars

-----------------------------------------------------------------------------
\* The endpoints that make a whole document of each kind; any one set will do.
Whole(kind) ==
    CASE kind = "reddit" -> {{"reddit"}}
      [] kind = "issue" -> {{"issue", "comments"}}
      [] kind = "pull" -> {{"issue", "comments", "pull", "reviews"}}
      [] kind = "blob" -> {{"raw"}}
      [] kind = "repo" -> {{"repo", "readme"}}
      [] kind = "wikipedia" -> {{"extract"}}
      [] kind = "lobsters" -> {{"story"}}
      [] kind = "gitlab" -> {{"issuable"}}
      [] kind = "gerrit" -> {{"change"}}
      [] kind = "gerrit-project" -> {{"change"}, {"bare"}}
      [] kind = "gitiles" -> {{"TEXT"}, {"JSON"}, {"rendered"}}
      [] kind = "pkggodev" -> {{"package"}}
      [] kind = "youtube" -> {{"watch", "captions"}}
      [] kind = "hackernews" -> {{"item"}}
      [] kind = "stackoverflow" -> {{"question", "answers"}}
      [] kind = "arxiv" -> {{"atom"}}
      [] kind = "generic" -> {}

(***************************************************************************)
(* A document made from a site's API lacks no part but those the source    *)
(* itself does not have; only GitLab notes, Gerrit files and Hacker News   *)
(* comments are best-effort. Otherwise what is returned is a page.         *)
(***************************************************************************)
NothingIsMissing ==
    outcome = "ok" =>
        \/ \E parts \in Whole(target.kind) : parts \subseteq got \cup absent
        \/ got \cap (Pages \cup Proofs \cup {"pdf"}) # {}

(***************************************************************************)
(* No list is cut short: GitHub's pages of comments are read to the end or *)
(* to gitHubMaxPages, and of the comments of a Hacker News item all or at  *)
(* least the limit are asked for, and no more than the limit kept. (The    *)
(* limit is said to cap what is fetched and rendered, hackernews.go:19;    *)
(* line 112 lets it cap only what is rendered, and this holds of both.)    *)
(***************************************************************************)
ListsAreCutOnlyAtTheCap ==
    outcome = "ok" =>
        /\ \A l \in Listings \cap got : l \in ended \/ pages[l] = MaxPages
        /\ thread.kept <= TopLimit /\ thread.rkept <= ReplyLimit
        /\ thread.tried >= TopLimit \/ thread.tried = thread.kids
        /\ thread.rtried >= ReplyLimit \/ thread.rtried = thread.rkids

(***************************************************************************)
(* The archive answers only for a page that is gone or whose server fails, *)
(* never for one that refuses us or for the archive itself; and when a     *)
(* fallback fails too, the error returned is the first one.                *)
(***************************************************************************)
ArchiveOnlyForGonePages ==
    /\ got \cap {"snapshot", "snapshot-proof"} # {} =>
        /\ err.at \in {"live", "live-proof"}
        /\ err.status \in {404, 410, 451} \/ err.status >= 500
        /\ ~target.archive
    /\ outcome = "error" =>
        err.at \notin {"available", "snapshot", "snapshot-proof", "bare", "none"}

(***************************************************************************)
(* What a read returns or stores is a page it could make sense of, never   *)
(* the challenge it met in its place nor a part of it, as                  *)
(* README.md:235-236 promises. What the code excepts from that promise is  *)
(* named here: behind a challenge the media type is not looked at;         *)
(* ExtractLinks does not look for a second challenge (links.go:65); and    *)
(* the endpoints TakenAsIs, whose body nobody looks at: GitHub files and   *)
(* READMEs (githubfile.go:59, github.go:270), rendered Gitiles pages       *)
(* (gitiles.go:234) and the whole-page fallback of pkg.go.dev              *)
(* (pkggodev.go:52).                                                       *)
(***************************************************************************)
OnlyReadableContent ==
    outcome = "ok" =>
        /\ content # "bad"
        /\ got \cap TakenAsIs = {} =>
            /\ content \in {"challenge", "unsolvable"} => target.op = "links"
            /\ content = "binary" => got \cap Proofs # {}
            /\ content \notin {"interstitial", "cut"}
=============================================================================
