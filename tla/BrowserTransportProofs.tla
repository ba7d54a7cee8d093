----------------------- MODULE BrowserTransportProofs -----------------------
(***************************************************************************)
(* ConnectionsAreAccountedFor for any number of requests and any stream    *)
(* limit.                                                                  *)
(*                                                                         *)
(* The invariant is not inductive alone. The loser of a race to publish    *)
(* closes its own connection, and that nobody else was given it follows    *)
(* only because connections are given out once their request has passed    *)
(* Publish (Given), and because until then nobody but the dialling request *)
(* moves them on (Dialling).                                               *)
(***************************************************************************)
EXTENDS BrowserTransport, TLAPS

Alive == {"open", "goaway", "lost"}
Published(c) == c \in Requests /\ pc[c] \in {"use", "stream", "ok", "failed"}

\* The state of a connection that only the request that dials it knows.
Dialling ==
    \A r \in Requests :
        /\ pc[r] \in {"idle", "dial"} => conn[r] = "unused"
        /\ pc[r] = "preface" => conn[r] = "secure"
        /\ pc[r] \in {"publish", "drop"} => conn[r] \in Alive

\* The pool's connection and those in use have been published.
Given ==
    /\ h2Conn # None => Published(h2Conn) /\ conn[h2Conn] \in Alive
    /\ \A r \in Requests : pc[r] \in {"drop", "use", "stream"} =>
        Published(cc[r]) /\ conn[cc[r]] \in Alive

TransportInv == TypeOK /\ Dialling /\ Given /\ OpenIsHeld

LEMMA InitInv == Init => TransportInv
BY NoneAssumption DEF Init, TransportInv, TypeOK, Dialling, Given, OpenIsHeld

\* Whatever replaces it, an open connection leaves the pool only at its limit.
LEMMA LeavesAtLimit ==
    ASSUME TransportInv, LeavesPool, ~CanTakeNewRequest(h2Conn), h2Conn # None,
           conn[h2Conn] \in {"secure", "open"}
    PROVE  h2Conn \in saturated'
BY DEF TransportInv, TypeOK, Given, Alive, LeavesPool, AtLimit

LEMMA LookupStep ==
    ASSUME TransportInv, NEW r \in Requests, Lookup(r) PROVE TransportInv'
<1> USE DEF TransportInv, Lookup, Move, Use
<1>1. TypeOK'
    BY DEF TypeOK, LeavesPool, CanTakeNewRequest
<1>2. Dialling'
    BY DEF TypeOK, Dialling
<1>3. Given'
    BY DEF TypeOK, Given, Published, CanTakeNewRequest
<1>4. OpenIsHeld'
  <2>1. CASE CanTakeNewRequest(h2Conn)
      BY <2>1 DEF TypeOK, OpenIsHeld
  <2>2. CASE ~CanTakeNewRequest(h2Conn)
    <3>1. CASE UNCHANGED <<h2Conn, saturated>>
        BY <3>1 DEF TypeOK, OpenIsHeld
    <3>2. CASE LeavesPool
        BY <2>2, <3>2, LeavesAtLimit DEF TypeOK, OpenIsHeld, LeavesPool
    <3> QED BY <2>2, <3>1, <3>2
  <2> QED BY <2>1, <2>2
<1> QED BY <1>1, <1>2, <1>3, <1>4

LEMMA PublishStep ==
    ASSUME TransportInv, NEW r \in Requests, Publish(r) PROVE TransportInv'
<1> USE DEF TransportInv, Publish, Move, Use, existing
<1>1. TypeOK'
    BY DEF TypeOK, LeavesPool, CanTakeNewRequest
<1>2. Dialling'
    BY DEF TypeOK, Dialling
<1>3. Given'
    BY NoneAssumption DEF TypeOK, Dialling, Given, Published, CanTakeNewRequest
<1>4. OpenIsHeld'
  <2>1. CASE CanTakeNewRequest(h2Conn)
      BY <2>1 DEF TypeOK, OpenIsHeld
  <2>2. CASE ~CanTakeNewRequest(h2Conn)
    <3> SUFFICES ASSUME NEW c \in Requests, conn'[c] \in {"secure", "open"}
                 PROVE  \/ c = h2Conn'
                        \/ pc'[c] \in {"preface", "publish", "drop"}
                        \/ c \in saturated'
        BY DEF OpenIsHeld
    <3>1. h2Conn' = r /\ LeavesPool /\ conn' = conn
        BY <2>2
    <3>2. CASE c = h2Conn
        BY <2>2, <3>1, <3>2, NoneAssumption, LeavesAtLimit
    <3>3. CASE c # h2Conn /\ c # r
        BY <3>1, <3>3 DEF TypeOK, OpenIsHeld, LeavesPool
    <3> QED BY <3>1, <3>2, <3>3
  <2> QED BY <2>1, <2>2
<1> QED BY <1>1, <1>2, <1>3, <1>4

\* The other steps of a request leave the pool alone.
LEMMA RoundTripStep ==
    ASSUME TransportInv, NEW r \in Requests, RoundTrip(r) PROVE TransportInv'
<1> USE DEF TransportInv, Move, Become
<1>1. CASE dialTLS(r)
    BY <1>1 DEF dialTLS, TypeOK, Dialling, Given, Published, OpenIsHeld, Alive
<1>2. CASE Remember(r)
    BY <1>2 DEF Remember, TypeOK, Dialling, Given, Published, OpenIsHeld
<1>3. CASE NewClientConn(r)
    BY <1>3 DEF NewClientConn, TypeOK, Dialling, Given, Published, OpenIsHeld, Alive
<1>4. CASE Publish(r)
    BY <1>4, PublishStep
<1>5. CASE Drop(r)
    BY <1>5 DEF Drop, TypeOK, Dialling, Given, Published, OpenIsHeld, Alive
<1>6. CASE Send(r) \/ Answer(r) \/ StreamFails(r) \/ H1Answers(r)
    BY <1>6 DEF Send, Answer, StreamFails, H1Answers, TypeOK, Dialling, Given, Published, OpenIsHeld
<1> QED BY <1>1, <1>2, <1>3, <1>4, <1>5, <1>6 DEF RoundTrip

\* What happens to connections between the steps of the requests.
LEMMA ConnectionStep ==
    ASSUME TransportInv, NEW c \in Requests, Shutdown(c) \/ CloseBehind(c) \/ ServerEnds(c)
    PROVE  TransportInv'
<1> USE DEF TransportInv, Become
<1>1. CASE Shutdown(c)
    BY <1>1 DEF Shutdown, TypeOK, Dialling, Given, Published, OpenIsHeld, Alive
<1>2. CASE CloseBehind(c)
    BY <1>2 DEF CloseBehind, TypeOK, Dialling, Given, Published, OpenIsHeld, Alive
<1>3. CASE ServerEnds(c)
    BY <1>3 DEF ServerEnds, TypeOK, Dialling, Given, Published, OpenIsHeld, Alive
<1> QED BY <1>1, <1>2, <1>3

LEMMA CloseStep ==
    ASSUME TransportInv, CloseIdleConnections PROVE TransportInv'
BY NoneAssumption DEF TransportInv, CloseIdleConnections, Final,
                      TypeOK, Dialling, Given, Published, OpenIsHeld, Alive

LEMMA NextInv == TransportInv /\ [Next]_vars => TransportInv'
<1> SUFFICES ASSUME TransportInv, [Next]_vars PROVE TransportInv'
    OBVIOUS
<1>1. ASSUME NEW r \in Requests, Lookup(r) PROVE TransportInv'
    BY <1>1, LookupStep
<1>2. ASSUME NEW r \in Requests, RoundTrip(r) PROVE TransportInv'
    BY <1>2, RoundTripStep
<1>3. ASSUME NEW c \in Requests, Shutdown(c) \/ CloseBehind(c) \/ ServerEnds(c) PROVE TransportInv'
    BY <1>3, ConnectionStep
<1>4. CASE CloseIdleConnections
    BY <1>4, CloseStep
<1>5. CASE UNCHANGED vars
    BY <1>5 DEF vars, TransportInv, TypeOK, Dialling, Given, Published, OpenIsHeld
<1> QED BY <1>1, <1>2, <1>3, <1>4, <1>5 DEF Next

LEMMA AlwaysInv == Spec => []TransportInv
BY InitInv, NextInv, PTL DEF Spec

(***************************************************************************)
(* Type correctness of the transport's state.                              *)
(***************************************************************************)
THEOREM TransportTypeOK == Spec => []TypeOK
<1>1. TransportInv => TypeOK
    BY DEF TransportInv
<1> QED BY <1>1, AlwaysInv, PTL

(***************************************************************************)
(* However many requests dial, race and fail at once, RoundTrip closes no  *)
(* connection that it gave to a request and forgets no open one that was   *)
(* not at its limit (transport.go:174-184).                                *)
(***************************************************************************)
THEOREM TransportAccountsForConnections == Spec => []ConnectionsAreAccountedFor
<1>1. TransportInv => ConnectionsAreAccountedFor
    BY DEF TransportInv, Given, OpenIsHeld, InUseIsNotClosed, ConnectionsAreAccountedFor, Alive
<1> QED BY <1>1, AlwaysInv, PTL
=============================================================================
