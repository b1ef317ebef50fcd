----------------------------- MODULE NetSession -----------------------------
(***************************************************************************)
(* The connection table of the listener (utilities/netsession) and the     *)
(* session table of the gNMI server that it feeds (gnmi/server/session.go).*)
(*                                                                         *)
(* Both tables are keyed by the remote address.  Accept runs in the Serve  *)
(* goroutine; Close is called by goroutines of gRPC, more than once for one*)
(* connection.  netsession.mutex guards the connection table only: between *)
(* its release and the call of Started or Closed other goroutines run, and *)
(* the map of the sessions is written with no lock at all.                 *)
(***************************************************************************)
EXTENDS Naturals

CONSTANTS
    Conns,       \* connections, each made once
    Addrs,       \* remote addresses
    None,        \* no entry, no address
    MaxCloses,   \* how often gRPC closes one connection
    ReusedAddrs  \* the addresses that clients reuse before the server has
                 \* finished closing the connection that had it

ASSUME NetAssumption ==
    /\ None \notin Conns \cup Addrs
    /\ MaxCloses \in Nat \ {0}
    /\ ReusedAddrs \subseteq Addrs

VARIABLES
    listening,  \* the listener is open
    remote,     \* RemoteAddr() of each connection, None before it is made
    up,         \* connections the network still has
    accept,     \* how far Accept got with each connection
    done,       \* how many Close calls of it have finished which step
    conns,      \* netsession.conns
    sessions,   \* Server.sessions: the connection a session was started for
    sessionID,  \* sessions started
    fatal       \* the process ended: concurrent map writes

tables == <<conns, sessions, sessionID>>
vars == <<listening, remote, up, accept, done, tables, fatal>>

Steps == [conns : 0..MaxCloses, session : 0..MaxCloses, net : 0..MaxCloses]

\* Listen has returned.
Init ==
    /\ listening = TRUE
    /\ remote = [c \in Conns |-> None]
    /\ up = {}
    /\ accept = [c \in Conns |-> "none"]
    /\ done = [c \in Conns |-> [conns |-> 0, session |-> 0, net |-> 0]]
    /\ conns = [a \in Addrs |-> None]
    /\ sessions = [a \in Addrs |-> None]
    /\ sessionID = 0
    /\ fatal = FALSE

-----------------------------------------------------------------------------
(* The network *)

\* The connections of the address are no more, for the client or for all.
AddrFree(a) ==
    \A c \in Conns : remote[c] = a =>
        /\ c \notin up
        /\ a \in ReusedAddrs \/ done[c].net = MaxCloses

Dial(c, a) ==
    /\ listening /\ remote[c] = None /\ AddrFree(a)
    /\ remote' = [remote EXCEPT ![c] = a]
    /\ up' = up \cup {c}
    /\ UNCHANGED <<listening, accept, done, tables, fatal>>

\* The client resets the connection; the server has not noticed yet.
Reset(c) ==
    /\ c \in up
    /\ up' = up \ {c}
    /\ UNCHANGED <<listening, remote, accept, done, tables, fatal>>

-----------------------------------------------------------------------------
(* NetListener *)

\* One connection at a time: Serve calls Accept in a loop.
Accept(c) ==
    /\ listening /\ remote[c] # None /\ accept[c] = "none"
    /\ \A d \in Conns : accept[d] # "accepted"
    /\ accept' = [accept EXCEPT ![c] = "accepted"]
    /\ conns' = [conns EXCEPT ![remote[c]] = c]
    /\ UNCHANGED <<listening, remote, up, done, sessions, sessionID, fatal>>

Known(a) == sessions[a] # None

\* A session that exists already is kept.
Started(c) ==
    /\ accept[c] = "accepted"
    /\ accept' = [accept EXCEPT ![c] = "started"]
    /\ \/ /\ Known(remote[c])
          /\ UNCHANGED <<sessions, sessionID>>
       \/ /\ ~Known(remote[c])
          /\ sessionID' = sessionID + 1
          /\ sessions' = [sessions EXCEPT ![remote[c]] = c]
    /\ UNCHANGED <<listening, remote, up, done, conns, fatal>>

ListenerClose ==
    /\ listening
    /\ listening' = FALSE
    /\ UNCHANGED <<remote, up, accept, done, tables, fatal>>

-----------------------------------------------------------------------------
(* NetConn.Close *)

\* gRPC calls Close: the entry of the address is deleted ...
Close(c) ==
    /\ accept[c] = "started" /\ done[c].conns < MaxCloses
    /\ done' = [done EXCEPT ![c].conns = @ + 1]
    /\ conns' = [conns EXCEPT ![remote[c]] = None]
    /\ UNCHANGED <<listening, remote, up, accept, sessions, sessionID, fatal>>

\* Defect: the session stays.
KeepsSession(a) == UNCHANGED sessions

DeletesSession(a) == sessions' = [sessions EXCEPT ![a] = None]

\* A Close call of c is about to call Closed.
InClosed(c) == done[c].session < done[c].conns

\* ... then the session ...
Closed(c) ==
    /\ InClosed(c)
    /\ done' = [done EXCEPT ![c].session = @ + 1]
    /\ DeletesSession(remote[c])
    /\ UNCHANGED <<listening, remote, up, accept, conns, sessionID, fatal>>

\* ... and the connection itself.
NetClose(c) ==
    /\ done[c].net < done[c].session
    /\ done' = [done EXCEPT ![c].net = @ + 1]
    /\ up' = up \ {c}
    /\ UNCHANGED <<listening, remote, accept, tables, fatal>>

\* Two goroutines write the map of the sessions at the same time: the Go
\* runtime may notice and end the process.
ConcurrentMapWrites(c, d) ==
    /\ InClosed(c)
    /\ \/ c # d /\ (accept[d] = "accepted" \/ InClosed(d))
       \/ c = d /\ done[c].session + 1 < done[c].conns
    /\ fatal' = TRUE
    /\ UNCHANGED <<listening, remote, up, accept, done, tables>>

-----------------------------------------------------------------------------
Finished ==
    /\ fatal \/ \A c \in Conns : done[c].net = MaxCloses \/ (accept[c] = "none" /\ ~listening)
    /\ UNCHANGED vars

Next ==
    \/ /\ ~fatal
       /\ \/ \E c \in Conns, a \in Addrs : Dial(c, a)
          \/ \E c \in Conns :
               Reset(c) \/ Accept(c) \/ Started(c) \/ Close(c) \/ Closed(c) \/ NetClose(c)
          \/ \E c, d \in Conns : ConcurrentMapWrites(c, d)
          \/ ListenerClose
    \/ Finished

Spec == Init /\ [][Next]_vars

-----------------------------------------------------------------------------
(* Properties *)

\* The two tables stay within their types, and no step of Close is taken more
\* often than Close is called.
TypeOK ==
    /\ listening \in BOOLEAN /\ fatal \in BOOLEAN
    /\ remote \in [Conns -> Addrs \cup {None}]
    /\ up \subseteq Conns
    /\ accept \in [Conns -> {"none", "accepted", "started"}]
    /\ done \in [Conns -> Steps]
    /\ conns \in [Addrs -> Conns \cup {None}]
    /\ sessions \in [Addrs -> Conns \cup {None}]
    /\ sessionID \in Nat

\* Accept has returned c and nobody has called Close on it yet.
InUse(c) == accept[c] = "started" /\ done[c].conns = 0

\* A connection in use has its own entry in both tables, so that its client is
\* never taken for another one, whichever connections of its address came
\* before and whatever happens at other addresses (Accept, Started, Close,
\* Closed).  An address that is reused early is excepted: see NothingLeft.
OwnSession ==
    \A c \in Conns : (InUse(c) /\ remote[c] \notin ReusedAddrs) =>
        conns[remote[c]] = c /\ sessions[remote[c]] = c

\* No Accept is running, and every accepted connection was closed.
AllClosed ==
    \A c \in Conns :
        \/ accept[c] = "none"
        \/ done[c].conns > 0 /\ done[c].net = done[c].conns

\* Nothing is left behind in the tables once all connections are closed, also
\* when an address was reused while its last connection was being closed
\* (Close, Closed).
NothingLeft ==
    AllClosed => \A a \in Addrs : conns[a] = None /\ sessions[a] = None

\* "These interface will be invoked if registered on which a connection is
\* started or terminated" (netsession.go): a connection in use has a session.
\* Does NOT hold when its address was reused: the old connection is closed
\* late, or once more (MCNetSessionLost.cfg).
SessionWhileInUse ==
    \A c \in Conns : InUse(c) => sessions[remote[c]] # None

=============================================================================
