-------------------------- MODULE BrowserTransport --------------------------
(***************************************************************************)
(* internal/browserhttp: how Transport.RoundTrip shares HTTP/2 connections *)
(* to one address. The pool entry is looked up under a lock that is not    *)
(* held while a connection is dialled or used, so that concurrent requests *)
(* may dial at once, lose the race to publish, or find the connection they *)
(* were given unusable.                                                    *)
(*                                                                         *)
(* A provider keeps one Transport for the life of the process and uses it  *)
(* concurrently; a read makes its own, sends one request after the other,  *)
(* and closes it. Addresses share nothing but the lock: one is enough. The *)
(* connection that request r dialled is called r.                          *)
(*                                                                         *)
(* The fhttp2 client (external) refuses new requests on a connection that  *)
(* is closed, told to go away, shutting down or at its stream limit, and   *)
(* closes one that is going away when its last stream ends.                *)
(***************************************************************************)
EXTENDS Naturals, FiniteSets

CONSTANTS
    Requests,
    MaxStreams  \* the server's limit of concurrent streams on a connection

ASSUME TransportAssumption == MaxStreams \in Nat \ {0}

None == "none"
ASSUME NoneAssumption == None \notin Requests

VARIABLES
    owner,     \* who made the Transport: "provider" or "read"
    h2Conn,    \* t.h2Conns[address], or None
    h1Host,    \* t.h1Hosts[address]
    pc,        \* control point of each request
    cc,        \* the connection it was given
    conn,      \* "unused", "secure" (handshaken), "open", "goaway",
               \* "shutdown" (by us), "dropped" (closed by us) or "lost"
    saturated, \* connections that left the pool at their stream limit
    closed     \* the read has called CloseIdleConnections

vars == <<owner, h2Conn, h1Host, pc, cc, conn, saturated, closed>>

Final == {"idle", "ok", "failed"}

Init ==
    /\ owner \in {"provider", "read"}
    /\ h2Conn = None /\ h1Host = FALSE
    /\ pc = [r \in Requests |-> "idle"]
    /\ cc = [r \in Requests |-> None]
    /\ conn = [r \in Requests |-> "unused"]
    /\ saturated = {} /\ closed = FALSE

streams(c) == {r \in Requests : pc[r] = "stream" /\ cc[r] = c}

CanTakeNewRequest(c) == c # None /\ conn[c] = "open" /\ Cardinality(streams(c)) < MaxStreams

Move(r, from, to) == pc[r] = from /\ pc' = [pc EXCEPT ![r] = to]

Use(r, c) == cc' = [cc EXCEPT ![r] = c]

Become(c, state) == conn' = [conn EXCEPT ![c] = state]

AtLimit(c) == c # None /\ conn[c] = "open" /\ ~CanTakeNewRequest(c)

\* The pool entry is removed or replaced.
LeavesPool == saturated' = saturated \cup {c \in Requests : c = h2Conn /\ AtLimit(c)}

-----------------------------------------------------------------------------
(* RoundTrip                                                               *)

\* A request that is not https goes to the HTTP/1.1 transport. The others look
\* at the pool, and drop an entry that takes no more requests.
Lookup(r) ==
    /\ owner = "read" => ~closed /\ \A q \in Requests : pc[q] \in Final
    /\ \/ Move(r, "idle", "h1") /\ UNCHANGED <<h2Conn, cc, saturated>>
       \/ /\ CanTakeNewRequest(h2Conn)
          /\ Move(r, "idle", "use") /\ Use(r, h2Conn)
          /\ UNCHANGED <<h2Conn, saturated>>
       \/ /\ ~CanTakeNewRequest(h2Conn)
          /\ h2Conn' = None /\ LeavesPool
          /\ Move(r, "idle", IF h1Host THEN "h1" ELSE "dial")
          /\ UNCHANGED cc
    /\ UNCHANGED <<owner, h1Host, conn, closed>>

\* The handshake fails, or negotiates a protocol; a connection that speaks
\* HTTP/1.1 is closed.
dialTLS(r) ==
    /\ \/ Move(r, "dial", "failed") /\ UNCHANGED conn
       \/ Move(r, "dial", "preface") /\ Become(r, "secure")
       \/ Move(r, "dial", "remember") /\ Become(r, "dropped")
    /\ UNCHANGED <<owner, h2Conn, h1Host, cc, saturated, closed>>

Remember(r) ==
    /\ Move(r, "remember", "h1")
    /\ h1Host' = TRUE
    /\ UNCHANGED <<owner, h2Conn, cc, conn, saturated, closed>>

\* Sends the client preface, which may fail.
NewClientConn(r) ==
    /\ \/ Move(r, "preface", "publish") /\ Become(r, "open")
       \/ Move(r, "preface", "failed") /\ Become(r, "dropped")
    /\ UNCHANGED <<owner, h2Conn, h1Host, cc, saturated, closed>>

\* Mutant: the new connection replaces whatever is in the pool.
existing_Ignored(r) == FALSE

\* Another request has put a connection in the pool meanwhile.
existing(r) == CanTakeNewRequest(h2Conn)

Publish(r) ==
    /\ IF existing(r)
       THEN Move(r, "publish", "drop") /\ Use(r, h2Conn) /\ UNCHANGED <<h2Conn, saturated>>
       ELSE Move(r, "publish", "use") /\ Use(r, r) /\ h2Conn' = r /\ LeavesPool
    /\ UNCHANGED <<owner, h1Host, conn, closed>>

\* The unused connection is closed.
Drop(r) ==
    /\ Move(r, "drop", "use")
    /\ Become(r, "dropped")
    /\ UNCHANGED <<owner, h2Conn, h1Host, cc, saturated, closed>>

\* roundTripH2: the connection may have become unusable since it was chosen,
\* and another one is not tried.
Send(r) ==
    /\ Move(r, "use", IF CanTakeNewRequest(cc[r]) THEN "stream" ELSE "failed")
    /\ UNCHANGED <<owner, h2Conn, h1Host, cc, conn, saturated, closed>>

Answer(r) ==
    /\ Move(r, "stream", "ok")
    /\ conn[cc[r]] \in {"open", "goaway"}
    /\ UNCHANGED <<owner, h2Conn, h1Host, cc, conn, saturated, closed>>

\* The context ends, or the connection is lost.
StreamFails(r) ==
    /\ Move(r, "stream", "failed")
    /\ UNCHANGED <<owner, h2Conn, h1Host, cc, conn, saturated, closed>>

\* The HTTP/1.1 transport of net/http.
H1Answers(r) ==
    /\ Move(r, "h1", "ok") \/ Move(r, "h1", "failed")
    /\ UNCHANGED <<owner, h2Conn, h1Host, cc, conn, saturated, closed>>

RoundTrip(r) ==
    \/ dialTLS(r) \/ Remember(r) \/ NewClientConn(r) \/ Publish(r) \/ Drop(r)
    \/ Send(r) \/ Answer(r) \/ StreamFails(r) \/ H1Answers(r)

-----------------------------------------------------------------------------
\* Mutant: only the HTTP/1.1 transport's connections are closed.
CloseIdleConnections_H1Only ==
    /\ owner = "read" /\ ~closed
    /\ \A r \in Requests : pc[r] \in Final
    /\ closed' = TRUE
    /\ UNCHANGED <<owner, h2Conn, h1Host, pc, cc, conn, saturated>>

\* A read is over: no request of it is left.
CloseIdleConnections ==
    /\ owner = "read" /\ ~closed
    /\ \A r \in Requests : pc[r] \in Final
    /\ closed' = TRUE
    /\ h2Conn' = None
    /\ conn' = [c \in Requests |->
                 IF c = h2Conn /\ conn[c] \in {"open", "goaway"} THEN "shutdown" ELSE conn[c]]
    /\ UNCHANGED <<owner, h1Host, pc, cc, saturated>>

\* The goroutine that waits for the streams to end.
Shutdown(c) ==
    /\ conn[c] = "shutdown" /\ streams(c) = {}
    /\ Become(c, "dropped")
    /\ UNCHANGED <<owner, h2Conn, h1Host, pc, cc, saturated, closed>>

\* A connection that is going away is closed behind its last stream.
CloseBehind(c) ==
    /\ conn[c] = "goaway" /\ streams(c) = {}
    /\ Become(c, "lost")
    /\ UNCHANGED <<owner, h2Conn, h1Host, pc, cc, saturated, closed>>

\* The server retires the connection, or it breaks.
ServerEnds(c) ==
    /\ \/ conn[c] = "open" /\ Become(c, "goaway")
       \/ conn[c] \in {"open", "goaway", "shutdown"} /\ Become(c, "lost")
    /\ UNCHANGED <<owner, h2Conn, h1Host, pc, cc, saturated, closed>>

Next ==
    \/ \E r \in Requests : Lookup(r) \/ RoundTrip(r) \/ Shutdown(r) \/ CloseBehind(r) \/ ServerEnds(r)
    \/ CloseIdleConnections

Spec == Init /\ [][Next]_vars

\* Goroutines run, dials and streams end with the request's context, and a
\* read closes its Transport; nobody has to send a request.
FairSpec ==
    /\ Spec
    /\ \A r \in Requests : WF_vars(RoundTrip(r)) /\ WF_vars(Shutdown(r)) /\ WF_vars(CloseBehind(r))
    /\ WF_vars(CloseIdleConnections)

-----------------------------------------------------------------------------
TypeOK ==
    /\ owner \in {"provider", "read"}
    /\ h2Conn \in Requests \cup {None}
    /\ h1Host \in BOOLEAN
    /\ pc \in [Requests -> {"idle", "dial", "remember", "preface", "publish", "drop", "use",
                            "stream", "h1", "ok", "failed"}]
    /\ cc \in [Requests -> Requests \cup {None}]
    /\ conn \in [Requests -> {"unused", "secure", "open", "goaway", "shutdown", "dropped", "lost"}]
    /\ saturated \subseteq Requests
    /\ closed \in BOOLEAN

\* Nothing is closed by us that a request was given.
InUseIsNotClosed ==
    \A r \in Requests : pc[r] \in {"drop", "use", "stream"} =>
        conn[cc[r]] \in {"open", "goaway", "lost"}

\* Whoever dialled it still holds it, or it is in the pool.
OpenIsHeld ==
    \A c \in Requests : conn[c] \in {"secure", "open"} =>
        \/ c = h2Conn
        \/ pc[c] \in {"preface", "publish", "drop"}
        \/ c \in saturated

(***************************************************************************)
(* The transport never closes a connection that it gave to a request, the  *)
(* loser of a race to publish included ("drop this unused one",            *)
(* transport.go:177), and never forgets an open one, except when it was at *)
(* its stream limit as another took its place in the pool.                 *)
(***************************************************************************)
ConnectionsAreAccountedFor == InUseIsNotClosed /\ OpenIsHeld

(***************************************************************************)
(* Every request returns, whatever becomes of the connections; and once a  *)
(* read has closed its Transport no connection stays open                  *)
(* (transport.go:187-188).                                                 *)
(***************************************************************************)
EverythingEnds ==
    /\ \A r \in Requests : (pc[r] # "idle") ~> (pc[r] \in {"ok", "failed"})
    /\ (owner = "read") ~> \A c \in Requests : conn[c] \in {"unused", "dropped", "lost"}
=============================================================================
