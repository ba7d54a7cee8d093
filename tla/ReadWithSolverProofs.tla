------------------------ MODULE ReadWithSolverProofs ------------------------
(***************************************************************************)
(* First WebRead: what Read, ExtractLinks and ReadPDF return is whole, cut *)
(* only at the caps, from the archive only when it may be, and readable,   *)
(* for every cap and every number of comments. Then ReadWithSolver, for    *)
(* any number of workers and any range of nonces: it implements WebRead,   *)
(* in which solving a challenge takes one step, so it has WebRead's        *)
(* properties, and OneValidSolution holds of it.                           *)
(***************************************************************************)
EXTENDS ReadWithSolver, FiniteSetTheorems, TLAPS

\* What a call is asked for.
TargetOK ==
    target \in [op : {"read"}, kind : Sites, valid : BOOLEAN, archive : {FALSE}]
          \cup [op : {"read"}, kind : {"generic"}, valid : BOOLEAN, archive : BOOLEAN]
          \cup [op : {"links", "pdf"}, kind : {"generic"}, valid : BOOLEAN, archive : {FALSE}]

\* A call in progress has no outcome.
OutcomeOK ==
    /\ outcome \in {"none", "ok", "error"}
    /\ pc # "done" => outcome = "none"

(***************************************************************************)
(* Where a read may be, by the kind of its URL, and what it has by then:   *)
(* the parts asked for before this one, unless the source has none. The    *)
(* end of the way, and only that, is NothingIsMissing.                     *)
(***************************************************************************)
Before ==
    LET at(point, kinds, parts) == pc = point => target.kind \in kinds /\ parts \subseteq got
    IN  /\ at("reddit", {"reddit"}, {}) /\ at("raw", {"blob"}, {})
        /\ at("extract", {"wikipedia"}, {}) /\ at("story", {"lobsters"}, {})
        /\ at("package", {"pkggodev"}, {}) /\ at("atom", {"arxiv"}, {})
        /\ at("issue", {"issue", "pull"}, {})
        /\ at("comments", {"issue", "pull"}, {"issue"})
        /\ at("pull", {"pull"}, {"issue", "comments"})
        /\ at("reviews", {"pull"}, {"issue", "comments", "pull"})
        /\ at("repo", {"repo"}, {}) /\ at("readme", {"repo"}, {"repo"})
        /\ at("issuable", {"gitlab"}, {}) /\ at("notes", {"gitlab"}, {"issuable"})
        /\ at("change", {"gerrit", "gerrit-project"}, {}) /\ at("bare", {"gerrit-project"}, {})
        /\ pc = "files" => \/ target.kind \in {"gerrit", "gerrit-project"} /\ "change" \in got
                           \/ target.kind = "gerrit-project" /\ "bare" \in got
        /\ at("TEXT", {"gitiles"}, {}) /\ at("JSON", {"gitiles"}, {}) /\ at("rendered", {"gitiles"}, {})
        /\ at("watch", {"youtube"}, {}) /\ at("captions", {"youtube"}, {"watch"})
        /\ at("item", {"hackernews"}, {})
        /\ at("comment", {"hackernews"}, {"item"}) /\ at("reply", {"hackernews"}, {"item"})
        /\ at("question", {"stackoverflow"}, {})
        /\ at("answers", {"stackoverflow"}, {"question"})

(***************************************************************************)
(* The loops stay within their bounds: a listing that is still read has a  *)
(* page left, one that is not yet read has no page, and the limits of      *)
(* Hacker News are met exactly, never passed.                              *)
(***************************************************************************)
PagesBounded ==
    /\ pages \in [Listings -> Nat]
    /\ pc \in Listings => pages[pc] < MaxPages
    /\ pc \notin {"reviews", "done"} => pages["reviews"] = 0
    /\ pc \notin {"comments", "pull", "reviews", "done"} => pages["comments"] = 0
    /\ \A l \in Listings \cap got : l \in ended \/ pages[l] = MaxPages

ThreadBounded ==
    /\ thread \in [kids : Nat, tried : Nat, kept : Nat, rkids : Nat, rtried : Nat, rkept : Nat]
    /\ thread.tried <= thread.kids /\ thread.kept <= TopLimit
    /\ thread.rtried <= thread.rkids /\ thread.rkept <= ReplyLimit
    /\ thread.kept <= thread.tried /\ thread.rkept <= thread.rtried
    /\ pc \notin {"comment", "reply", "done"} =>
        thread.kept = 0 /\ thread.tried = 0 /\ thread.kids = 0
    /\ pc = "done" => thread.kept = TopLimit \/ thread.tried = thread.kids
    /\ pc # "reply" => thread.rkept = ReplyLimit \/ thread.rtried = thread.rkids

(***************************************************************************)
(* The error at hand while a second source is asked is the one that sent   *)
(* the read there.                                                         *)
(***************************************************************************)
Archive == {"available", "snapshot", "snapshot-proof"}

Gone ==
    /\ err.at \in {"live", "live-proof"}
    /\ err.status \in {404, 410, 451} \/ err.status >= 500
    /\ ~target.archive

KnownError ==
    /\ pc \in Archive => Gone
    /\ pc = "bare" => err.at = "change"
    /\ got \cap {"snapshot", "snapshot-proof"} # {} => Gone /\ pc = "done"

\* Only a call of ExtractLinks is at its page, and no body before the end.
Unread ==
    /\ pc \in {"page", "page-proof"} => target.op = "links"
    /\ pc # "done" => content = "none"

ReadInv ==
    /\ TargetOK /\ OutcomeOK
    /\ Before /\ NothingIsMissing
    /\ PagesBounded /\ ThreadBounded
    /\ KnownError /\ ArchiveOnlyForGonePages
    /\ Unread /\ OnlyReadableContent

-----------------------------------------------------------------------------
LEMMA ReadInvInit == Init => ReadInv
<1> SUFFICES ASSUME Init PROVE ReadInv
    OBVIOUS
<1>1. PagesBounded
    BY ReadAssumption DEF Init, PagesBounded, Listings
<1>2. ThreadBounded
    BY ReadAssumption DEF Init, ThreadBounded
<1> QED BY <1>1, <1>2 DEF Init, ReadInv, TargetOK, OutcomeOK, Before, NothingIsMissing,
       KnownError, NoError, Archive, ArchiveOnlyForGonePages, Unread, OnlyReadableContent

\* A page that fails goes to the archive only if it may; a failure there brings
\* back the first error.
LEMMA PageFailsStep ==
    ASSUME NEW e, NEW page, NEW status, PageFails(e, page, status)
    PROVE  \/ /\ page = "live" /\ isWaybackWorthy(status) /\ ~target.archive
              /\ pc' = "available" /\ err' = [at |-> e, status |-> status] /\ UNCHANGED outcome
           \/ /\ pc' = "done" /\ outcome' = "error"
              /\ err' = IF page = "snapshot" THEN err ELSE [at |-> e, status |-> status]
BY DEF PageFails, FallBack, FailAsBefore, Fail

\* A page is delivered, or leads to its challenge, or fails.
LEMMA FetchStep ==
    ASSUME NEW page \in Pages, fetchPage(page)
    PROVE  /\ pc \in {page, Proof(page)}
           /\ UNCHANGED <<target, ctx, absent, pages, ended, thread>>
           /\ \/ /\ got' = got \cup {pc} /\ pc' = "done" /\ outcome' = "ok" /\ UNCHANGED err
                 /\ content' \in {"cached", "article", "text"} \cup
                        IF pc = page THEN {} ELSE afterProof(page)
              \/ pc' = Proof(page) /\ UNCHANGED <<got, content, err, outcome>>
              \/ (\E status : PageFails(pc, page, status)) /\ UNCHANGED <<got, content>>
<1>1. CASE cachedPage(page)
    BY <1>1 DEF cachedPage, Deliver, Go
<1>2. CASE requestPage(page)
    BY <1>2 DEF requestPage, Deliver, Go, Proof, Pages
<1>3. CASE passAnubisChallenge(page)
    BY <1>3 DEF passAnubisChallenge, Deliver, Go, Proof, Pages
<1> QED BY <1>1, <1>2, <1>3 DEF fetchPage

\* Every call has a first endpoint, by its kind.
LEMMA FirstOfKind ==
    ASSUME TargetOK
    PROVE  \/ target.op = "links" /\ First(target) = "page"
           \/ target.op = "pdf" /\ First(target) = "pdf"
           \/ target.op = "read" /\ target.kind = "generic" /\ First(target) = "live"
           \/ target.op = "read" /\ target.kind \in {"issue", "pull"} /\ First(target) = "issue"
           \/ /\ target.op = "read" /\ target.kind \in {"gerrit", "gerrit-project"}
              /\ First(target) = "change"
           \/ /\ target.op = "read"
              /\ <<target.kind, First(target)>> \in
                    {<<"reddit", "reddit">>, <<"blob", "raw">>, <<"repo", "repo">>,
                     <<"wikipedia", "extract">>, <<"lobsters", "story">>, <<"gitlab", "issuable">>,
                     <<"gitiles", "TEXT">>, <<"pkggodev", "package">>, <<"youtube", "watch">>,
                     <<"hackernews", "item">>, <<"stackoverflow", "question">>, <<"arxiv", "atom">>}
<1>1. CASE target.op # "read"
    BY <1>1 DEF TargetOK, First
<1>2. CASE target.op = "read" /\ target.kind = "generic"
    BY <1>2 DEF First
<1>3. CASE target.op = "read" /\ target.kind \in Sites
    <2>1. CASE target.kind \in {"issue", "pull", "gerrit", "gerrit-project"}
        BY <1>3, <2>1 DEF First
    <2>2. CASE target.kind \in {"reddit", "blob", "repo", "wikipedia", "lobsters", "gitlab"}
        BY <1>3, <2>2 DEF First
    <2>3. CASE target.kind \in {"gitiles", "pkggodev", "youtube", "hackernews", "stackoverflow", "arxiv"}
        BY <1>3, <2>3 DEF First
    <2> QED BY <1>3, <2>1, <2>2, <2>3 DEF Sites
<1> QED BY <1>1, <1>2, <1>3 DEF TargetOK

\* The target of a call never changes, and its outcome comes with its end.
LEMMA OutcomeStep == ReadInv /\ [Next]_vars => TargetOK' /\ OutcomeOK'
<1> DEFINE Goal == TargetOK' /\ OutcomeOK'
<1> SUFFICES ASSUME ReadInv, [Next]_vars PROVE Goal
    OBVIOUS
<1> USE DEF ReadInv, OutcomeOK, TargetOK
<1> USE DEF Required, Attempt, Go, Fail, FallBack, FailAsBefore
<1>1. CASE Start
    BY <1>1 DEF Start, First, TargetOK, Sites
<1>2. CASE reddit \/ githubFile \/ wikipedia \/ lobsters \/ pkggodev
    BY <1>2 DEF reddit, githubFile, wikipedia, lobsters, pkggodev, Deliver
<1>3. CASE githubThread
    BY <1>3 DEF githubThread, fetchGitHubPaginated
<1>4. CASE githubRepo
    BY <1>4 DEF githubRepo, fetchGitHubReadme, Deliver
<1>5. CASE gitlab
    BY <1>5 DEF gitlab
<1>6. CASE gerrit
    BY <1>6 DEF gerrit, gerritChange, gerritBare
<1>7. CASE gitiles
    BY <1>7 DEF gitiles, fetchGitilesRenderedPage, Deliver
<1>8. CASE youtube
    BY <1>8 DEF youtube
<1>9. CASE stackoverflow
    BY <1>9 DEF stackoverflow
<1>10. CASE arxiv
    BY <1>10 DEF arxiv
<1>11. CASE hackernews
    BY <1>11 DEF hackernews, item, comment, reply
<1>12. CASE waybackSnapshot \/ fetchPDF
    BY <1>12 DEF waybackSnapshot, fetchPDF, Deliver
<1>13. ASSUME NEW page \in Pages, fetchPage(page) PROVE Goal
    BY <1>13, FetchStep, PageFailsStep DEF Proof, Pages, isWaybackWorthy, afterProof
<1>14. CASE Cancel \/ UNCHANGED vars
    BY <1>14 DEF Cancel, vars
<1> HIDE DEF Goal
<1> QED BY <1>1, <1>2, <1>3, <1>4, <1>5, <1>6, <1>7, <1>8, <1>9, <1>10, <1>11, <1>12, <1>13, <1>14 DEF Next, Read

\* No endpoint is asked before those its document needs, and a read that ends
\* well at a site's endpoint has all the parts of its kind.
LEMMA BeforeStep == ReadInv /\ [Next]_vars => Before' /\ NothingIsMissing'
<1> DEFINE Goal == Before' /\ NothingIsMissing'
<1> SUFFICES ASSUME ReadInv, [Next]_vars PROVE Goal
    OBVIOUS
<1> USE DEF ReadInv, Before, NothingIsMissing, Whole
<1> USE DEF Required, Attempt, Go, Fail, FallBack, FailAsBefore
<1>1. CASE Start
    <2>1. UNCHANGED <<target, got, absent, content>>
        BY <1>1 DEF Start
    <2>2. CASE pc' = "done" /\ outcome' = "error"
        BY <2>1, <2>2
    <2>3. CASE pc' = First(target)
        <3> outcome' = "none"
            BY <1>1, <2>3, FirstOfKind DEF Start, OutcomeOK
        <3> QED BY <2>1, <2>3, FirstOfKind
    <2> QED BY <1>1, <2>2, <2>3 DEF Start
<1>2. CASE reddit \/ githubFile \/ wikipedia \/ lobsters \/ pkggodev
    BY <1>2 DEF reddit, githubFile, wikipedia, lobsters, pkggodev, Deliver
<1>3. CASE githubThread
    BY <1>3, ZenonT(60) DEF githubThread, fetchGitHubPaginated
<1>4. CASE githubRepo
    <2>1. CASE Required("repo", "readme")
        BY <2>1 DEF OutcomeOK
    <2>2. CASE fetchGitHubReadme
        <3> PICK a \in Answers("readme") :
                IF Ok(a) THEN Deliver("readme", a.body) /\ UNCHANGED absent
                ELSE /\ IF a.status = 404 THEN absent' = absent \cup {"readme"} /\ Go("done")
                        ELSE Fail("readme", a.status) /\ UNCHANGED absent
                     /\ UNCHANGED <<got, content>>
            BY <2>2 DEF fetchGitHubReadme
        <3>1. pc' = "done" /\ UNCHANGED target /\ target.kind = "repo" /\ "repo" \in got
            BY <2>2 DEF fetchGitHubReadme, Deliver
        <3>2. outcome' = "error" \/ (got \cup {"readme"}) \subseteq got' \cup absent'
            BY <3>1 DEF Deliver
        <3> QED BY <3>1, <3>2, ZenonT(60)
    <2> QED BY <1>4, <2>1, <2>2 DEF githubRepo
<1>5. CASE gitlab
    BY <1>5 DEF gitlab
<1>6. CASE gerrit
    BY <1>6 DEF gerrit, gerritChange, gerritBare
<1>7. CASE gitiles
    BY <1>7 DEF gitiles, fetchGitilesRenderedPage, Deliver
<1>8. CASE youtube
    BY <1>8 DEF youtube
<1>9. CASE stackoverflow
    BY <1>9 DEF stackoverflow
<1>10. CASE arxiv
    BY <1>10 DEF arxiv
<1>11. CASE hackernews
    BY <1>11 DEF hackernews, item, comment, reply
<1>12. CASE waybackSnapshot \/ fetchPDF
    BY <1>12 DEF waybackSnapshot, fetchPDF, Deliver
<1>13. ASSUME NEW page \in Pages, fetchPage(page) PROVE Goal
    <2>1. UNCHANGED <<target, absent>> /\ pc \in Pages \cup Proofs
        BY <1>13, FetchStep DEF Proofs
    <2>2. \/ got' = got \cup {pc} /\ pc' = "done"
          \/ UNCHANGED got /\ pc' \in Proofs /\ outcome' = "none"
          \/ UNCHANGED got /\ pc' = "available" /\ outcome' = "none"
          \/ UNCHANGED got /\ pc' = "done" /\ outcome' = "error"
        BY <1>13, <2>1, FetchStep, PageFailsStep DEF Proofs, Proof, Pages, OutcomeOK
    <2>3. NothingIsMissing'
        BY <2>1, <2>2
    <2>4. Before'
        BY <2>1, <2>2 DEF Proofs, Proof, Pages
    <2> QED BY <2>3, <2>4
<1>14. CASE Cancel \/ UNCHANGED vars
    BY <1>14, ZenonT(60) DEF Cancel, vars
<1> HIDE DEF Goal
<1> QED BY <1>1, <1>2, <1>3, <1>4, <1>5, <1>6, <1>7, <1>8, <1>9, <1>10, <1>11, <1>12, <1>13, <1>14 DEF Next, Read

\* A listing is read page by page up to the cap and left at its end.
LEMMA PagesStep == ReadInv /\ [Next]_vars => PagesBounded'
<1> DEFINE Goal == PagesBounded'
<1> SUFFICES ASSUME ReadInv, [Next]_vars PROVE Goal
    OBVIOUS
<1> USE ReadAssumption DEF ReadInv, PagesBounded, Listings
<1> USE DEF Required, Attempt, Go, Fail, FallBack, FailAsBefore
<1>1. CASE Start
    BY <1>1 DEF Start, First, TargetOK, Sites
<1>2. CASE reddit \/ githubFile \/ wikipedia \/ lobsters \/ pkggodev
    BY <1>2 DEF reddit, githubFile, wikipedia, lobsters, pkggodev, Deliver
<1>3. CASE githubThread
    <2>1. CASE Required("issue", "comments") \/ Required("pull", "reviews")
        BY <2>1
    <2>2. CASE fetchGitHubPaginated("comments", IF target.kind = "pull" THEN "pull" ELSE "done")
        BY <2>2 DEF fetchGitHubPaginated, followed
    <2>3. CASE fetchGitHubPaginated("reviews", "done")
        BY <2>3 DEF fetchGitHubPaginated, followed
    <2> QED BY <1>3, <2>1, <2>2, <2>3 DEF githubThread
<1>4. CASE githubRepo
    BY <1>4 DEF githubRepo, fetchGitHubReadme, Deliver
<1>5. CASE gitlab
    BY <1>5 DEF gitlab
<1>6. CASE gerrit
    BY <1>6 DEF gerrit, gerritChange, gerritBare
<1>7. CASE gitiles
    BY <1>7 DEF gitiles, fetchGitilesRenderedPage, Deliver
<1>8. CASE youtube
    BY <1>8 DEF youtube
<1>9. CASE stackoverflow
    BY <1>9 DEF stackoverflow
<1>10. CASE arxiv
    BY <1>10 DEF arxiv
<1>11. CASE hackernews
    BY <1>11 DEF hackernews, item, comment, reply
<1>12. CASE waybackSnapshot \/ fetchPDF
    BY <1>12 DEF waybackSnapshot, fetchPDF, Deliver
<1>13. ASSUME NEW page \in Pages, fetchPage(page) PROVE Goal
    BY <1>13, FetchStep, PageFailsStep DEF Proof, Pages, isWaybackWorthy, afterProof
<1>14. CASE Cancel \/ UNCHANGED vars
    BY <1>14 DEF Cancel, vars
<1> HIDE DEF Goal
<1> QED BY <1>1, <1>2, <1>3, <1>4, <1>5, <1>6, <1>7, <1>8, <1>9, <1>10, <1>11, <1>12, <1>13, <1>14 DEF Next, Read

\* What trying one more comment or reply makes of the counts.
LEMMA CommentTried ==
    ASSUME ThreadBounded, moreComments, pc = "comment", pc' = "comment",
           thread' = [thread EXCEPT !.tried = @ + 1]
    PROVE  ThreadBounded'
BY ReadAssumption DEF ThreadBounded, moreComments

\* A comment that is kept opens its replies.
LEMMA CommentKept ==
    ASSUME ThreadBounded, moreComments, NEW kids \in Nat, pc' = "reply",
           thread' = [thread EXCEPT !.tried = @ + 1, !.kept = @ + 1,
                          !.rkids = kids, !.rtried = 0, !.rkept = 0]
    PROVE  ThreadBounded'
<1>1. thread.tried + 1 \in Nat /\ thread.kept + 1 \in Nat
    BY DEF ThreadBounded
<1>2. thread' \in [kids : Nat, tried : Nat, kept : Nat, rkids : Nat, rtried : Nat, rkept : Nat]
    BY <1>1 DEF ThreadBounded
<1> QED BY <1>1, <1>2, ReadAssumption DEF ThreadBounded, moreComments

\* A reply is tried, and kept or not.
LEMMA ReplyTried ==
    ASSUME ThreadBounded, moreReplies, pc' = "reply",
           \/ thread' = [thread EXCEPT !.rtried = @ + 1, !.rkept = @ + 1]
           \/ thread' = [thread EXCEPT !.rtried = @ + 1, !.rkept = @]
    PROVE  ThreadBounded'
<1>1. thread.rtried + 1 \in Nat /\ thread.rkept + 1 \in Nat /\ thread.rkept \in Nat
    BY DEF ThreadBounded
<1>2. CASE thread' = [thread EXCEPT !.rtried = @ + 1, !.rkept = @ + 1]
    <2>1. thread' \in [kids : Nat, tried : Nat, kept : Nat, rkids : Nat, rtried : Nat, rkept : Nat]
        BY <1>1, <1>2 DEF ThreadBounded
    <2> QED BY <1>1, <1>2, <2>1, ReadAssumption DEF ThreadBounded, moreReplies
<1>3. CASE thread' = [thread EXCEPT !.rtried = @ + 1, !.rkept = @]
    <2>1. thread' \in [kids : Nat, tried : Nat, kept : Nat, rkids : Nat, rtried : Nat, rkept : Nat]
        BY <1>1, <1>3 DEF ThreadBounded
    <2> QED BY <1>1, <1>3, <2>1, ReadAssumption DEF ThreadBounded, moreReplies
<1> QED BY <1>2, <1>3

\* The loops over comments and replies stop at their limit or at the end.
LEMMA ThreadStep == ReadInv /\ [Next]_vars => ThreadBounded'
<1> DEFINE Goal == ThreadBounded'
<1> SUFFICES ASSUME ReadInv, [Next]_vars PROVE Goal
    OBVIOUS
<1> USE ReadAssumption DEF ReadInv, ThreadBounded
<1> USE DEF Required, Attempt, Go, Fail, FallBack, FailAsBefore
<1>1. CASE Start
    BY <1>1 DEF Start, First, TargetOK, Sites
<1>2. CASE reddit \/ githubFile \/ wikipedia \/ lobsters \/ pkggodev
    BY <1>2 DEF reddit, githubFile, wikipedia, lobsters, pkggodev, Deliver
<1>3. CASE githubThread
    BY <1>3 DEF githubThread, fetchGitHubPaginated
<1>4. CASE githubRepo
    BY <1>4 DEF githubRepo, fetchGitHubReadme, Deliver
<1>5. CASE gitlab
    BY <1>5 DEF gitlab
<1>6. CASE gerrit
    BY <1>6 DEF gerrit, gerritChange, gerritBare
<1>7. CASE gitiles
    BY <1>7 DEF gitiles, fetchGitilesRenderedPage, Deliver
<1>8. CASE youtube
    BY <1>8 DEF youtube
<1>9. CASE stackoverflow
    BY <1>9 DEF stackoverflow
<1>10. CASE arxiv
    BY <1>10 DEF arxiv
<1>11. CASE hackernews
    <2>1. CASE item
        BY <2>1 DEF item
    <2>2. CASE comment
        <3>1. CASE ~moreComments
            BY <2>2, <3>1 DEF comment, moreComments
        <3>2. CASE moreComments
            <4> PICK kids \in 0 .. MaxKids :
                    \/ /\ thread' = [thread EXCEPT !.tried = @ + 1] /\ pc' = "comment"
                    \/ /\ thread' = [thread EXCEPT !.tried = @ + 1, !.kept = @ + 1,
                                          !.rkids = kids, !.rtried = 0, !.rkept = 0]
                       /\ pc' = "reply"
                BY <2>2, <3>2 DEF comment
            <4>1. pc = "comment" /\ ThreadBounded
                BY <2>2 DEF comment
            <4>2. kids \in Nat
                BY ONLY kids \in 0 .. MaxKids, ReadAssumption DEF ReadAssumption
            <4> QED BY ONLY <3>2, <4>1, <4>2, CommentTried, CommentKept,
                        \/ /\ thread' = [thread EXCEPT !.tried = @ + 1] /\ pc' = "comment"
                        \/ /\ thread' = [thread EXCEPT !.tried = @ + 1, !.kept = @ + 1,
                                              !.rkids = kids, !.rtried = 0, !.rkept = 0]
                           /\ pc' = "reply"
        <3> QED BY <3>1, <3>2
    <2>3. CASE reply
        <3>1. CASE ~moreReplies
            BY <2>3, <3>1 DEF reply, moreReplies
        <3>2. CASE moreReplies
            <4>1. pc' = "reply" /\ ThreadBounded
                BY <2>3, <3>2 DEF reply
            <4>2. \/ thread' = [thread EXCEPT !.rtried = @ + 1, !.rkept = @ + 1]
                  \/ thread' = [thread EXCEPT !.rtried = @ + 1, !.rkept = @]
                BY <2>3, <3>2 DEF reply
            <4> QED BY ONLY <3>2, <4>1, <4>2, ReplyTried
        <3> QED BY <3>1, <3>2
    <2> QED BY <1>11, <2>1, <2>2, <2>3 DEF hackernews
<1>12. CASE waybackSnapshot \/ fetchPDF
    BY <1>12 DEF waybackSnapshot, fetchPDF, Deliver
<1>13. ASSUME NEW page \in Pages, fetchPage(page) PROVE Goal
    BY <1>13, FetchStep, PageFailsStep DEF Proof, Pages, isWaybackWorthy, afterProof
<1>14. CASE Cancel \/ UNCHANGED vars
    BY <1>14 DEF Cancel, vars
<1> HIDE DEF Goal
<1> QED BY <1>1, <1>2, <1>3, <1>4, <1>5, <1>6, <1>7, <1>8, <1>9, <1>10, <1>11, <1>12, <1>13, <1>14 DEF Next, Read

\* The archive is entered only by a live page that is gone, and its own
\* failures leave the error that led there.
LEMMA ErrorStep == ReadInv /\ [Next]_vars => KnownError' /\ ArchiveOnlyForGonePages'
<1> DEFINE Goal == KnownError' /\ ArchiveOnlyForGonePages'
<1> SUFFICES ASSUME ReadInv, [Next]_vars PROVE Goal
    OBVIOUS
<1> USE DEF ReadInv, OutcomeOK, KnownError, Gone, Archive, ArchiveOnlyForGonePages
<1> USE DEF Required, Attempt, Go, Fail, FallBack, FailAsBefore
<1>1. CASE Start
    BY <1>1 DEF Start, First, TargetOK, Sites
<1>2. CASE reddit \/ githubFile \/ wikipedia \/ lobsters \/ pkggodev
    BY <1>2 DEF reddit, githubFile, wikipedia, lobsters, pkggodev, Deliver
<1>3. CASE githubThread
    BY <1>3 DEF githubThread, fetchGitHubPaginated
<1>4. CASE githubRepo
    BY <1>4 DEF githubRepo, fetchGitHubReadme, Deliver
<1>5. CASE gitlab
    BY <1>5 DEF gitlab
<1>6. CASE gerrit
    BY <1>6 DEF gerrit, gerritChange, gerritBare
<1>7. CASE gitiles
    BY <1>7 DEF gitiles, fetchGitilesRenderedPage, Deliver
<1>8. CASE youtube
    BY <1>8 DEF youtube
<1>9. CASE stackoverflow
    BY <1>9 DEF stackoverflow
<1>10. CASE arxiv
    BY <1>10 DEF arxiv
<1>11. CASE hackernews
    <2>1. CASE item
        BY <2>1 DEF item
    <2>2. CASE comment
        BY <2>2 DEF comment, moreComments
    <2>3. CASE reply
        BY <2>3 DEF reply, moreReplies
    <2> QED BY <1>11, <2>1, <2>2, <2>3 DEF hackernews
<1>12. CASE waybackSnapshot \/ fetchPDF
    BY <1>12 DEF waybackSnapshot, fetchPDF, Deliver
<1>13. ASSUME NEW page \in Pages, fetchPage(page) PROVE Goal
    BY <1>13, FetchStep, PageFailsStep DEF Proof, Pages, isWaybackWorthy, afterProof
<1>14. CASE Cancel \/ UNCHANGED vars
    BY <1>14 DEF Cancel, vars
<1> HIDE DEF Goal
<1> QED BY <1>1, <1>2, <1>3, <1>4, <1>5, <1>6, <1>7, <1>8, <1>9, <1>10, <1>11, <1>12, <1>13, <1>14 DEF Next, Read

\* A body is returned only by the request that delivers it.
LEMMA ContentStep == ReadInv /\ [Next]_vars => Unread' /\ OnlyReadableContent'
<1> DEFINE Goal == Unread' /\ OnlyReadableContent'
<1> SUFFICES ASSUME ReadInv, [Next]_vars PROVE Goal
    OBVIOUS
<1> USE DEF ReadInv, Unread, OnlyReadableContent
<1> USE DEF Required, Attempt, Go, Fail, FallBack, FailAsBefore
<1>1. CASE Start
    BY <1>1 DEF Start, First, TargetOK, Sites
<1>2. CASE reddit \/ githubFile \/ wikipedia \/ lobsters \/ pkggodev
    BY <1>2 DEF reddit, githubFile, wikipedia, lobsters, pkggodev, Deliver, Ok, TakenAsIs
<1>3. CASE githubThread
    BY <1>3 DEF githubThread, fetchGitHubPaginated
<1>4. CASE githubRepo
    BY <1>4 DEF githubRepo, fetchGitHubReadme, Deliver, Ok, TakenAsIs
<1>5. CASE gitlab
    BY <1>5 DEF gitlab
<1>6. CASE gerrit
    BY <1>6 DEF gerrit, gerritChange, gerritBare
<1>7. CASE gitiles
    BY <1>7 DEF gitiles, fetchGitilesRenderedPage, Deliver, Ok, TakenAsIs
<1>8. CASE youtube
    BY <1>8 DEF youtube
<1>9. CASE stackoverflow
    BY <1>9 DEF stackoverflow
<1>10. CASE arxiv
    BY <1>10 DEF arxiv
<1>11. CASE hackernews
    BY <1>11 DEF hackernews, item, comment, reply
<1>12. CASE waybackSnapshot \/ fetchPDF
    BY <1>12 DEF waybackSnapshot, fetchPDF, Deliver
<1>13. ASSUME NEW page \in Pages, fetchPage(page) PROVE Goal
    <2>1. pc \in {page, Proof(page)} /\ UNCHANGED target /\ content = "none"
        BY <1>13, FetchStep DEF Proof, Pages
    <2>2. CASE got' = got \cup {pc} /\ pc' = "done"
        <3>1. \/ content' \in {"none", "cached", "article", "text"}
              \/ /\ pc = Proof(page)
                 /\ content' \in {"binary", "challenge", "unsolvable"}
                 /\ content' # "binary" => page = "page"
            BY <1>13, <2>1, <2>2, FetchStep, PageFailsStep DEF afterProof
        <3>2. page = "page" => target.op = "links"
            BY <2>1 DEF Proof
        <3>3. pc = Proof(page) => got' \cap Proofs # {}
            BY <2>2 DEF Proofs
        <3> QED BY <2>1, <2>2, <3>1, <3>2, <3>3
    <2>3. CASE content' = "none" /\ (pc' = "page-proof" => page = "page") /\ pc' # "page"
        BY <2>1, <2>3 DEF Proof, Pages
    <2>4. \/ got' = got \cup {pc} /\ pc' = "done"
          \/ content' = "none" /\ (pc' = "page-proof" => page = "page") /\ pc' # "page"
        BY <1>13, <2>1, FetchStep, PageFailsStep DEF Proof, Pages
    <2> QED BY <2>2, <2>3, <2>4
<1>14. CASE Cancel \/ UNCHANGED vars
    BY <1>14 DEF Cancel, vars
<1> HIDE DEF Goal
<1> QED BY <1>1, <1>2, <1>3, <1>4, <1>5, <1>6, <1>7, <1>8, <1>9, <1>10, <1>11, <1>12, <1>13, <1>14 DEF Next, Read

-----------------------------------------------------------------------------
\* What holds between the requests of a read, under every answer.
THEOREM ReadInvariant == Spec => []ReadInv
<1>1. ReadInv /\ [Next]_vars => ReadInv'
    BY OutcomeStep, BeforeStep, PagesStep, ThreadStep, ErrorStep, ContentStep DEF ReadInv
<1> QED BY ReadInvInit, <1>1, PTL DEF Spec

\* A document made from a site's API has every part that the readers in
\* internal/reader must ask for, or the source said that it has none.
THEOREM NothingIsEverMissing == Spec => []NothingIsMissing
<1>1. ReadInv => NothingIsMissing
    BY DEF ReadInv
<1> QED BY ReadInvariant, <1>1, PTL

\* fetchGitHubPaginated and the Hacker News loops end a listing at its end or
\* at its cap, whatever the caps and the number of comments that fail.
THEOREM ListsAreOnlyCutAtTheCap == Spec => []ListsAreCutOnlyAtTheCap
<1>1. ReadInv => ListsAreCutOnlyAtTheCap
    BY ReadAssumption DEF ReadInv, ReadAssumption, OutcomeOK, PagesBounded, ThreadBounded,
                          ListsAreCutOnlyAtTheCap
<1> QED BY ReadInvariant, <1>1, PTL

\* Read turns to the Wayback Machine for pages that are gone only, and when the
\* second source fails too the error is that of the first.
THEOREM ArchiveAnswersOnlyForGonePages == Spec => []ArchiveOnlyForGonePages
<1>1. ReadInv => ArchiveOnlyForGonePages
    BY DEF ReadInv
<1> QED BY ReadInvariant, <1>1, PTL

\* No challenge, interstitial or torn page is taken for the content, but for
\* the exceptions the property names.
THEOREM ContentIsReadable == Spec => []OnlyReadableContent
<1>1. ReadInv => OnlyReadableContent
    BY DEF ReadInv
<1> QED BY ReadInvariant, <1>1, PTL

-----------------------------------------------------------------------------
\* Without a solution the read goes on as if the proof could not be sent.
LEMMA UnsolvedIsUnreachable ==
    ASSUME NEW page \in Pages, pc = Proof(page), PageFails(Proof(page), page, 0),
           UNCHANGED <<target, ctx, got, absent, pages, ended, thread, content>>
    PROVE  passAnubisChallenge(page)
<1>1. Unreachable \in Answers(Proof(page)) /\ Unreachable.status = 0
    BY DEF Answers, Unreachable
<1> QED BY <1>1 DEF passAnubisChallenge

LEMMA EndSearchIsProof ==
    ASSUME NEW page \in Pages, EndSearch(page) PROVE Next
<1>1. passAnubisChallenge(page)
    BY UnsolvedIsUnreachable DEF EndSearch
<1> QED BY <1>1 DEF Next, Read, fetchPage

\* The workers and the caller's select are invisible to the read.
LEMMA SearchIsInvisible ==
    ASSUME SolverSelects \/ SolverCloses \/ \E w \in Solver!Worker : Work(w)
    PROVE  UNCHANGED vars
BY DEF SolverSelects, SolverCloses, Work, Searching, callVars, vars, Solver!Select,
       Solver!Close, Solver!Work, Solver!Check, Solver!Hash, Solver!Claim, Solver!Send

LEMMA StepSimulation == [SolvingNext]_allVars => [Next]_vars
<1> SUFFICES ASSUME [SolvingNext]_allVars PROVE [Next]_vars
    OBVIOUS
<1>1. CASE ReadStep
    BY <1>1 DEF ReadStep, Next
<1>2. CASE BeginSearch
    BY <1>2 DEF BeginSearch
<1>3. CASE CancelRead
    BY <1>3 DEF CancelRead, Next
<1>4. ASSUME NEW page \in Pages, EndSearch(page) PROVE Next
    BY <1>4, EndSearchIsProof
<1>5. CASE SolverSelects \/ SolverCloses \/ \E w \in Solver!Worker : Work(w)
    BY <1>5, SearchIsInvisible
<1>6. CASE UNCHANGED allVars
    BY <1>6 DEF allVars
<1> QED BY <1>1, <1>2, <1>3, <1>4, <1>5, <1>6 DEF SolvingNext

(***************************************************************************)
(* Every behaviour of the read with its solver's goroutines is one of      *)
(* WebRead, so that WebRead's properties are properties of it: between the *)
(* challenge and its proof nothing happens that a read could notice        *)
(* (anubis.go:140-145).                                                    *)
(***************************************************************************)
THEOREM SolvingImplementsWebRead == SolvingSpec => Spec
<1>1. SolvingInit => Init
    BY DEF SolvingInit
<1> QED BY <1>1, StepSimulation, PTL DEF SolvingSpec, Spec

(***************************************************************************)
(* What WebRead promises of a document, its lists, its source and its      *)
(* content is not lost when the challenge is solved by racing goroutines   *)
(* that outlive the search.                                                *)
(***************************************************************************)
THEOREM SolvingReadsAreWhole ==
    SolvingSpec => [](/\ NothingIsMissing
                      /\ ListsAreCutOnlyAtTheCap
                      /\ ArchiveOnlyForGonePages
                      /\ OnlyReadableContent)
BY SolvingImplementsWebRead, NothingIsEverMissing, ListsAreOnlyCutAtTheCap,
   ArchiveAnswersOnlyForGonePages, ContentIsReadable, PTL

-----------------------------------------------------------------------------
(***************************************************************************)
(* OneValidSolution. That at most one worker sends is inductive only with  *)
(* the flag: whoever won the compare-and-swap left it set (OneWinner), and *)
(* what it sends was hashed as a solution before (HashedSolutions). What   *)
(* was submitted stays explained by the result because a read that has the *)
(* page behind a challenge is over and starts no other search (Submitted). *)
(***************************************************************************)

WorkerTypeOK ==
    /\ wpc \in [Solver!Worker -> {"check", "hash", "claim", "send", "exit"}]
    /\ nonce \in [Solver!Worker -> Nat]
    /\ stopped \in BOOLEAN

HashedSolutions ==
    /\ \A w \in Solver!Worker : wpc[w] \in {"claim", "send"} => nonce[w] \in solutions
    /\ found \subseteq sent /\ sent \subseteq solutions
    /\ solved => result.nonce \in solutions

OneWinner ==
    /\ \A v, w \in Solver!Worker : wpc[v] = "send" /\ wpc[w] = "send" => v = w
    /\ (\E w \in Solver!Worker : wpc[w] = "send") => sent = {} /\ stopped
    /\ sent # {} => stopped
    /\ \A m, n \in sent : m = n

Submitted ==
    got \cap Proofs # {} => pc = "done" /\ main = "idle" /\ solved

SolverInv == WorkerTypeOK /\ HashedSolutions /\ OneWinner /\ Submitted

\* Only the endpoint that was asked joins the parts of a document.
LEMMA PartsAreAsked ==
    ASSUME Read, pc \notin Proofs PROVE pc # "done" /\ got' \subseteq got \cup {pc}
<1> USE DEF Required, Attempt, Go, Fail, FallBack, FailAsBefore
<1>1. CASE Start
    BY <1>1 DEF Start
<1>2. CASE reddit \/ githubFile \/ wikipedia \/ lobsters \/ gitlab \/ pkggodev \/ stackoverflow
    BY <1>2 DEF reddit, githubFile, wikipedia, lobsters, gitlab, pkggodev, stackoverflow, Deliver
<1>3. CASE githubThread \/ githubRepo
    BY <1>3 DEF githubThread, githubRepo, fetchGitHubPaginated, fetchGitHubReadme, Deliver
<1>4. CASE gerrit \/ gitiles \/ youtube \/ arxiv
    BY <1>4 DEF gerrit, gerritChange, gerritBare, gitiles, fetchGitilesRenderedPage, youtube,
                    arxiv, Deliver
<1>5. CASE hackernews
    BY <1>5 DEF hackernews, item, comment, reply
<1>6. CASE waybackSnapshot \/ fetchPDF
    BY <1>6 DEF waybackSnapshot, fetchPDF, Deliver
<1>7. ASSUME NEW page \in Pages, fetchPage(page)
      PROVE  pc # "done" /\ got' \subseteq got \cup {pc}
    BY <1>7 DEF fetchPage, cachedPage, requestPage, passAnubisChallenge, Proofs, Deliver, Pages
<1> QED BY <1>1, <1>2, <1>3, <1>4, <1>5, <1>6, <1>7 DEF Read

LEMMA SolverInvInit == SolvingInit => SolverInv
<1> SUFFICES ASSUME SolvingInit PROVE SolverInv
    OBVIOUS
<1>1. Solver!Worker \subseteq Nat
    BY SolverAssumption DEF Solver!Worker
<1> QED BY <1>1 DEF SolvingInit, Init, SolverInv, WorkerTypeOK, HashedSolutions, OneWinner,
                    Submitted, solved, Solver!NoResult

LEMMA WorkStep ==
    ASSUME SolverInv, NEW w \in Solver!Worker, Work(w) PROVE SolverInv'
<1> USE DEF SolverInv, WorkerTypeOK, HashedSolutions, OneWinner, Submitted, Proofs,
            Work, Searching, callVars, Solver!Work, Solver!Move, solved
<1>1. CASE Solver!Check(w)
    BY <1>1 DEF Solver!Check
<1>2. CASE Solver!Hash(w)
  <2>1. \A n \in Nat : Solver!nextNonce(n) \in Nat
      BY SolverAssumption DEF Solver!nextNonce
  <2> QED BY <1>2, <2>1 DEF Solver!Hash
<1>3. CASE Solver!Claim(w)
    BY <1>3 DEF Solver!Claim, Solver!claims
<1>4. CASE Solver!Send(w)
    BY <1>4 DEF Solver!Send, Solver!Solved
<1> QED BY <1>1, <1>2, <1>3, <1>4

LEMMA ReadStepInv == ASSUME SolverInv, ReadStep PROVE SolverInv'
<1>1. got' \cap Proofs \subseteq got \cap Proofs /\ pc # "done"
    BY PartsAreAsked DEF ReadStep
<1>2. Submitted'
    BY <1>1 DEF SolverInv, Submitted, ReadStep, ownVars, solved, Proofs
<1> QED BY <1>2 DEF SolverInv, WorkerTypeOK, HashedSolutions, OneWinner, ReadStep, ownVars, solved

LEMMA BeginSearchInv == ASSUME SolverInv, BeginSearch PROVE SolverInv'
<1>1. Solver!Worker \subseteq Nat
    BY SolverAssumption DEF Solver!Worker
<1>2. pc # "done"
    BY DEF BeginSearch, Proofs, Proof, Pages
<1>3. Submitted'
    BY <1>2 DEF SolverInv, Submitted, BeginSearch, vars, Proofs
<1> QED BY <1>1, <1>3 DEF SolverInv, WorkerTypeOK, HashedSolutions, OneWinner, BeginSearch,
                         solved, Solver!NoResult

LEMMA EndSearchInv ==
    ASSUME SolverInv, NEW page \in Pages, EndSearch(page) PROVE SolverInv'
<1>1. pc # "done"
    BY DEF EndSearch, Proof, Pages
<1>2. passAnubisChallenge(page)
    BY UnsolvedIsUnreachable DEF EndSearch
<1>3. Submitted'
  <2>1. CASE solved
      BY <1>1, <1>2, <2>1 DEF SolverInv, Submitted, EndSearch, passAnubisChallenge, Deliver, Go,
                              solved, Proofs
  <2>2. CASE ~solved
      BY <1>1, <2>2 DEF SolverInv, Submitted, EndSearch, Proofs
  <2> QED BY <2>1, <2>2
<1> QED BY <1>3 DEF SolverInv, WorkerTypeOK, HashedSolutions, OneWinner, EndSearch, solved

LEMMA CancelReadInv == ASSUME SolverInv, CancelRead PROVE SolverInv'
BY DEF SolverInv, WorkerTypeOK, HashedSolutions, OneWinner, Submitted, CancelRead, Cancel,
       Solver!Cancel, ownVars, solved, Proofs

LEMMA SelectInv == ASSUME SolverInv, SolverSelects \/ SolverCloses PROVE SolverInv'
<1> USE DEF SolverInv, SolverSelects, SolverCloses, Searching, callVars, solved
<1>1. UNCHANGED <<wpc, nonce, stopped, sent, solutions, got, pc>> /\ found' \subseteq found
    BY DEF Solver!Select, Solver!Close
<1>2. main = "idle" => main' = "idle" /\ result' = result
    BY DEF Solver!Select, Solver!Close
<1>3. solved' => result'.nonce \in solutions
  <2>1. CASE SolverSelects
      BY <2>1 DEF Solver!Select, Solver!Return, Solver!Solved, HashedSolutions
  <2>2. CASE SolverCloses
      BY <2>2 DEF Solver!Close, HashedSolutions
  <2> QED BY <2>1, <2>2
<1>4. HashedSolutions'
    BY <1>1, <1>3 DEF HashedSolutions
<1>5. Submitted'
    BY <1>1, <1>2 DEF Submitted, Proofs
<1> QED BY <1>1, <1>4, <1>5 DEF WorkerTypeOK, OneWinner

LEMMA SolverInvStep == SolverInv /\ [SolvingNext]_allVars => SolverInv'
<1> SUFFICES ASSUME SolverInv, [SolvingNext]_allVars PROVE SolverInv'
    OBVIOUS
<1>1. CASE UNCHANGED allVars
    BY <1>1 DEF allVars, vars, ownVars, SolverInv, WorkerTypeOK, HashedSolutions, OneWinner,
                Submitted, solved, Proofs
<1>2. ASSUME NEW w \in Solver!Worker, Work(w) PROVE SolverInv'
    BY <1>2, WorkStep
<1>3. ASSUME NEW page \in Pages, EndSearch(page) PROVE SolverInv'
    BY <1>3, EndSearchInv
<1> QED BY <1>1, <1>2, <1>3, ReadStepInv, BeginSearchInv, CancelReadInv, SelectInv DEF SolvingNext

LEMMA SolverInvImplies == SolverInv => OneValidSolution
<1> SUFFICES ASSUME SolverInv PROVE OneValidSolution
    OBVIOUS
<1> DEFINE senders == {w \in Solver!Worker : wpc[w] = "send"}
<1>1. Cardinality(sent) \in 0 .. 1 /\ (sent = {} => Cardinality(sent) = 0)
  <2>1. CASE sent = {}
      BY <2>1, FS_EmptySet
  <2>2. CASE sent # {}
    <3>1. PICK n : sent = {n}
        BY <2>2 DEF SolverInv, OneWinner
    <3> QED BY <3>1, <2>2, FS_Singleton
  <2> QED BY <2>1, <2>2
<1>2. Cardinality(senders) \in 0 .. 1 /\ (senders = {} => Cardinality(senders) = 0)
  <2>1. CASE senders = {}
      BY <2>1, FS_EmptySet
  <2>2. CASE senders # {}
    <3>1. PICK w : senders = {w}
        BY <2>2 DEF SolverInv, OneWinner
    <3> QED BY <3>1, <2>2, FS_Singleton
  <2> QED BY <2>1, <2>2
<1>3. senders = {} \/ sent = {}
    BY DEF SolverInv, OneWinner
<1>4. Cardinality(senders) + Cardinality(sent) <= 1
    BY <1>1, <1>2, <1>3
<1>5. Solver!OneValidSolution
    BY <1>4, Zenon DEF Cardinality, Solver!Cardinality, SolverInv, HashedSolutions, solved, Solver!OneValidSolution
<1> QED BY <1>5 DEF SolverInv, HashedSolutions, Submitted, solved, OneValidSolution

(***************************************************************************)
(* However the workers race, and whenever the read is cancelled, at most   *)
(* one of them sends, what it sends is a solution, and a page is accepted  *)
(* behind a challenge only for a solution (anubis.go:112, 142).            *)
(***************************************************************************)
THEOREM SolvingSendsOneSolution == SolvingSpec => []OneValidSolution
BY SolverInvInit, SolverInvStep, SolverInvImplies, PTL DEF SolvingSpec
=============================================================================
