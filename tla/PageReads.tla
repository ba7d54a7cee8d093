----------------------------- MODULE PageReads -----------------------------
(***************************************************************************)
(* What a caller of fetchGenericHTMLAsMarkdown is promised, with no cache   *)
(* in sight (internal/reader/cache.go:1-18): a read of a page either fails  *)
(* or, in one step, returns a version the origin was still serving at most  *)
(* Lag ago. Reads neither wait for nor disturb one another, and a restart   *)
(* of the process takes every running read with it.                         *)
(***************************************************************************)
EXTENDS Naturals

CONSTANTS
    Urls,
    Readers,
    Changing,    \* the URLs whose page changes at the origin
    MaxVersion,  \* bound: changes of such a page
    Lag          \* how old the version a read returns may be

VARIABLES
    version,  \* what the origin serves now
    retired,  \* time since each version was replaced, capped at Lag + 1
    asked,    \* the URL each running read asked for, or Nothing
    answer    \* <<>> until it returns <<a version>> or <<Failure>>

vars == <<version, retired, asked, answer>>

Nothing == "nothing"
Versions == 0 .. MaxVersion
Failure == MaxVersion + 1

Init ==
    /\ version = [u \in Urls |-> 0]
    /\ retired = [u \in Urls |-> [v \in Versions |-> 0]]
    /\ asked = [r \in Readers |-> Nothing]
    /\ answer = [r \in Readers |-> <<>>]

Ask(r, u) ==
    /\ asked[r] = Nothing
    /\ asked' = [asked EXCEPT ![r] = u]
    /\ UNCHANGED <<version, retired, answer>>

\* Versions the page at u had no longer than Lag ago, the current one included.
Recent(u) == {v \in 0 .. version[u] : retired[u][v] <= Lag}

\* The answer reaches the read: the linearization point of the call.
Reply(r) ==
    /\ asked[r] # Nothing /\ answer[r] = <<>>
    /\ \E v \in Recent(asked[r]) : answer' = [answer EXCEPT ![r] = <<v>>]
    /\ UNCHANGED <<version, retired, asked>>

\* A fresh copy at hand: the read is asked and answered at once.
ReplyAtOnce(r, u) ==
    /\ asked[r] = Nothing
    /\ asked' = [asked EXCEPT ![r] = u]
    /\ \E v \in Recent(u) : answer' = [answer EXCEPT ![r] = <<v>>]
    /\ UNCHANGED <<version, retired>>

Fail(r) ==
    /\ asked[r] # Nothing /\ answer[r] = <<>>
    /\ answer' = [answer EXCEPT ![r] = <<Failure>>]
    /\ UNCHANGED <<version, retired, asked>>

Return(r) ==
    /\ answer[r] # <<>>
    /\ asked' = [asked EXCEPT ![r] = Nothing]
    /\ answer' = [answer EXCEPT ![r] = <<>>]
    /\ UNCHANGED <<version, retired>>

Restart ==
    /\ asked' = [r \in Readers |-> Nothing]
    /\ answer' = [r \in Readers |-> <<>>]
    /\ UNCHANGED <<version, retired>>

OriginChanges(u) ==
    /\ version[u] < MaxVersion
    /\ version' = [version EXCEPT ![u] = @ + 1]
    /\ UNCHANGED <<retired, asked, answer>>

Tick ==
    /\ retired' = [u \in Urls |-> [v \in Versions |->
            IF v >= version[u] THEN 0
            ELSE IF retired[u][v] > Lag THEN retired[u][v] ELSE retired[u][v] + 1]]
    /\ UNCHANGED <<version, asked, answer>>

Next ==
    \/ Restart
    \/ Tick
    \/ \E u \in Changing : OriginChanges(u)
    \/ \E r \in Readers :
        \/ \E u \in Urls : Ask(r, u) \/ ReplyAtOnce(r, u)
        \/ Reply(r)
        \/ Fail(r)
        \/ Return(r)

Spec == Init /\ [][Next]_vars
=============================================================================
