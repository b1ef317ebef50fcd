-------------------------- MODULE NetSessionProofs --------------------------
(***************************************************************************)
(* Proofs about NetSession for any number of connections, addresses and    *)
(* Close calls, and any set of addresses that are reused early.            *)
(***************************************************************************)
EXTENDS NetSession, TLAPS

\* The steps of Close are taken in their order, and only on a connection that
\* Accept has returned.
StepsInOrder ==
    \A c \in Conns :
        /\ done[c].net <= done[c].session /\ done[c].session <= done[c].conns
        /\ accept[c] # "started" => done[c].conns = 0
        /\ accept[c] # "none" => remote[c] # None

\* An entry of either table belongs to a connection of that address which has
\* not taken the step of Close that deletes it.
EntriesOpen ==
    \A a \in Addrs :
        /\ conns[a] # None =>
             /\ remote[conns[a]] = a /\ accept[conns[a]] # "none"
             /\ done[conns[a]].conns = 0
        /\ sessions[a] # None =>
             /\ remote[sessions[a]] = a /\ accept[sessions[a]] = "started"
             /\ done[sessions[a]].session = 0

\* Of two connections of an address that is not reused early, one is closed
\* for good.
OneOpenPerAddr ==
    \A c, d \in Conns :
        (c # d /\ remote[c] = remote[d] /\ remote[c] \in Addrs \ ReusedAddrs) =>
            done[c].net = MaxCloses \/ done[d].net = MaxCloses

\* A connection in the middle of Accept has its entry too.
AcceptedHasEntry ==
    \A c \in Conns : (accept[c] = "accepted" /\ remote[c] \notin ReusedAddrs) =>
        conns[remote[c]] = c

\* The inductive invariant.
IInv ==
    /\ TypeOK
    /\ StepsInOrder
    /\ EntriesOpen
    /\ OneOpenPerAddr
    /\ AcceptedHasEntry
    /\ OwnSession

-----------------------------------------------------------------------------
\* The listener starts with empty tables.
LEMMA InitIInv == Init => IInv
<1> SUFFICES ASSUME Init PROVE IInv
  OBVIOUS
<1>1. [conns |-> 0, session |-> 0, net |-> 0] \in Steps
  BY NetAssumption DEF Steps
<1>2. TypeOK
  BY <1>1, Zenon DEF Init, TypeOK
<1>3. StepsInOrder
  <2> SUFFICES ASSUME NEW c \in Conns
               PROVE  /\ done[c].net <= done[c].session /\ done[c].session <= done[c].conns
                      /\ accept[c] # "started" => done[c].conns = 0
                      /\ accept[c] # "none" => remote[c] # None
    BY DEF StepsInOrder
  <2> QED
    BY DEF Init
<1>4. EntriesOpen /\ OneOpenPerAddr
  BY NetAssumption DEF Init, EntriesOpen, OneOpenPerAddr
<1>5. AcceptedHasEntry /\ OwnSession
  BY DEF Init, AcceptedHasEntry, OwnSession, InUse
<1> QED
  BY <1>2, <1>3, <1>4, <1>5 DEF IInv

\* Two connections of an address that is not reused early, neither of which is
\* closed for good, are the same one.
LEMMA SameConn ==
    ASSUME IInv, NEW c \in Conns, NEW d \in Conns, remote[c] = remote[d],
           remote[c] \in Addrs \ ReusedAddrs,
           done[c].net < MaxCloses, done[d].net < MaxCloses
    PROVE  c = d
  BY NetAssumption DEF IInv, TypeOK, Steps, OneOpenPerAddr

\* A connection that Accept has not returned, or that nobody has closed, is not
\* closed for good.
LEMMA NotClosedForGood ==
    ASSUME IInv, NEW c \in Conns, done[c].session = 0 \/ done[c].conns = 0
    PROVE  done[c].net < MaxCloses
  BY NetAssumption DEF IInv, TypeOK, Steps, StepsInOrder

\* A connection with an address has one of Addrs, which is not None.
LEMMA RemoteType ==
    ASSUME IInv, NEW c \in Conns, accept[c] # "none"
    PROVE  remote[c] \in Addrs
  BY DEF IInv, TypeOK, StepsInOrder

\* A client dials (Dial) or resets its connection (Reset).
LEMMA StepNetwork ==
    ASSUME IInv, NEW c \in Conns, Reset(c) \/ \E a \in Addrs : Dial(c, a)
    PROVE  IInv'
<1> USE NetAssumption DEF IInv
<1>1. CASE Reset(c)
  BY <1>1 DEF Reset, tables, TypeOK, StepsInOrder, EntriesOpen, OneOpenPerAddr,
              AcceptedHasEntry, OwnSession, InUse
<1>2. ASSUME NEW a \in Addrs, Dial(c, a) PROVE IInv'
  <2>1. /\ remote[c] = None /\ AddrFree(a)
        /\ remote' = [remote EXCEPT ![c] = a]
        /\ UNCHANGED <<listening, accept, done, conns, sessions, sessionID, fatal>>
    BY <1>2 DEF Dial, tables
  <2>2. TypeOK'
    BY <1>2, <2>1 DEF TypeOK, Dial
  <2>3. accept[c] = "none"
    BY <2>1 DEF StepsInOrder
  <2>4. StepsInOrder'
    BY <2>1 DEF StepsInOrder, TypeOK
  <2>5. EntriesOpen'
    BY <2>1, <2>3 DEF EntriesOpen, TypeOK
  <2>6. OneOpenPerAddr'
    BY <2>1 DEF OneOpenPerAddr, AddrFree, TypeOK
  <2>7. AcceptedHasEntry' /\ OwnSession'
    BY <2>1, <2>3 DEF AcceptedHasEntry, OwnSession, InUse, TypeOK
  <2> QED
    BY <2>2, <2>4, <2>5, <2>6, <2>7
<1> QED
  BY <1>1, <1>2

\* Accept enters the connection in the table.
LEMMA StepAccept ==
    ASSUME IInv, NEW c \in Conns, Accept(c)
    PROVE  IInv'
<1> USE NetAssumption DEF IInv
<1>1. /\ accept[c] = "none" /\ \A d \in Conns : accept[d] # "accepted"
      /\ accept' = [accept EXCEPT ![c] = "accepted"]
      /\ conns' = [conns EXCEPT ![remote[c]] = c]
      /\ UNCHANGED <<listening, remote, up, done, sessions, sessionID, fatal>>
  BY DEF Accept
<1>2. remote[c] \in Addrs
  BY DEF Accept, TypeOK
<1>3. TypeOK' /\ StepsInOrder' /\ OneOpenPerAddr'
  BY <1>1, <1>2 DEF TypeOK, StepsInOrder, OneOpenPerAddr
<1>4. done[c].conns = 0
  BY <1>1 DEF StepsInOrder
<1>5. EntriesOpen'
  BY <1>1, <1>2, <1>4 DEF EntriesOpen, TypeOK
<1>6. AcceptedHasEntry'
  BY <1>1, <1>2 DEF AcceptedHasEntry, TypeOK
<1>7. ASSUME NEW d \in Conns, InUse(d)', remote'[d] \notin ReusedAddrs
      PROVE  conns'[remote'[d]] = d /\ sessions'[remote'[d]] = d
  <2>1. d # c /\ InUse(d) /\ remote[d] \in Addrs \ ReusedAddrs
    BY <1>1, <1>7, RemoteType DEF InUse, TypeOK
  <2>2. remote[d] # remote[c]
    BY <1>4, <2>1, SameConn, NotClosedForGood DEF InUse
  <2> QED
    BY <1>1, <1>2, <2>1, <2>2 DEF OwnSession, TypeOK
<1> QED
  BY <1>3, <1>5, <1>6, <1>7 DEF OwnSession

\* Started makes a session, or keeps the one that is there.
LEMMA StepStarted ==
    ASSUME IInv, NEW c \in Conns, Started(c)
    PROVE  IInv'
<1> USE NetAssumption DEF IInv
<1>1. /\ accept[c] = "accepted"
      /\ accept' = [accept EXCEPT ![c] = "started"]
      /\ UNCHANGED <<listening, remote, up, done, conns, fatal>>
  BY DEF Started
<1>2. remote[c] \in Addrs
  BY <1>1, RemoteType
<1>3. done[c].conns = 0 /\ done[c].session = 0
  BY <1>1 DEF StepsInOrder, TypeOK, Steps
<1>4. \/ sessions[remote[c]] # None /\ sessions' = sessions /\ sessionID' = sessionID
      \/ /\ sessions[remote[c]] = None /\ sessionID' = sessionID + 1
         /\ sessions' = [sessions EXCEPT ![remote[c]] = c]
  BY DEF Started, Known
<1>5. TypeOK'
  BY <1>1, <1>2, <1>4 DEF TypeOK
<1>6. StepsInOrder' /\ OneOpenPerAddr' /\ AcceptedHasEntry'
  BY <1>1, <1>3 DEF TypeOK, StepsInOrder, OneOpenPerAddr, AcceptedHasEntry
<1>7. EntriesOpen'
  BY <1>1, <1>2, <1>3, <1>4 DEF EntriesOpen, TypeOK
<1>8. remote[c] \notin ReusedAddrs => sessions' = [sessions EXCEPT ![remote[c]] = c]
  <2> SUFFICES ASSUME remote[c] \notin ReusedAddrs, sessions[remote[c]] # None PROVE FALSE
    BY <1>4
  <2> DEFINE d == sessions[remote[c]]
  <2>1. /\ d \in Conns /\ remote[d] = remote[c]
        /\ accept[d] = "started" /\ done[d].session = 0
    BY <1>2 DEF EntriesOpen, TypeOK
  <2>2. d = c
    BY <1>2, <1>3, <2>1, SameConn, NotClosedForGood
  <2> QED
    BY <1>1, <2>1, <2>2
<1>9. ASSUME NEW d \in Conns, InUse(d)', remote'[d] \notin ReusedAddrs
      PROVE  conns'[remote'[d]] = d /\ sessions'[remote'[d]] = d
  <2>1. CASE d = c
    BY <1>1, <1>2, <1>8, <1>9, <2>1 DEF AcceptedHasEntry, TypeOK
  <2>2. CASE d # c
    <3>1. InUse(d) /\ remote[d] \in Addrs \ ReusedAddrs
      BY <1>1, <1>9, <2>2, RemoteType DEF InUse, TypeOK
    <3>2. remote[d] # remote[c]
      BY <1>3, <2>2, <3>1, SameConn, NotClosedForGood DEF InUse
    <3> QED
      BY <1>1, <1>2, <1>4, <3>1, <3>2 DEF OwnSession, TypeOK
  <2> QED
    BY <2>1, <2>2
<1> QED
  BY <1>5, <1>6, <1>7, <1>9 DEF OwnSession

\* Close deletes the entry of the address, Closed its session.
LEMMA StepClose ==
    ASSUME IInv, NEW c \in Conns, Close(c) \/ Closed(c)
    PROVE  IInv'
<1> USE NetAssumption DEF IInv
<1>1. /\ UNCHANGED <<listening, remote, up, accept, sessionID, fatal>>
      /\ accept[c] = "started" /\ done[c].net < MaxCloses
  BY DEF Close, Closed, InClosed, StepsInOrder, TypeOK, Steps
<1>2. remote[c] \in Addrs
  BY <1>1, RemoteType
<1>3. /\ done' \in [Conns -> Steps]
      /\ \A d \in Conns : d # c => done'[d] = done[d]
      /\ done'[c].net = done[c].net
      /\ done'[c].session <= done'[c].conns /\ done'[c].net <= done'[c].session
      /\ done'[c].conns > 0
  <2>1. done[c] \in Steps
    BY DEF TypeOK
  <2>2. /\ done[c].net <= done[c].session /\ done[c].session <= done[c].conns
        /\ done[c].conns <= MaxCloses
    BY <2>1 DEF StepsInOrder, Steps
  <2>3. CASE Close(c)
    <3> DEFINE r == [done[c] EXCEPT !.conns = done[c].conns + 1]
    <3>1. done' = [done EXCEPT ![c] = r] /\ done[c].conns < MaxCloses
      BY <2>3 DEF Close
    <3>2. /\ r \in Steps /\ r.conns = done[c].conns + 1
          /\ r.session = done[c].session /\ r.net = done[c].net
      BY <2>1, <3>1 DEF Steps
    <3>3. done'[c] = r /\ done' \in [Conns -> Steps] /\ \A d \in Conns : d # c => done'[d] = done[d]
      BY <3>1, <3>2 DEF TypeOK
    <3> QED
      BY <2>1, <2>2, <3>2, <3>3 DEF Steps
  <2>4. CASE Closed(c)
    <3> DEFINE r == [done[c] EXCEPT !.session = done[c].session + 1]
    <3>1. done' = [done EXCEPT ![c] = r] /\ done[c].session < done[c].conns
      BY <2>4 DEF Closed, InClosed
    <3>2. /\ r \in Steps /\ r.session = done[c].session + 1
          /\ r.conns = done[c].conns /\ r.net = done[c].net
      BY <2>1, <2>2, <3>1 DEF Steps
    <3>3. done'[c] = r /\ done' \in [Conns -> Steps] /\ \A d \in Conns : d # c => done'[d] = done[d]
      BY <3>1, <3>2 DEF TypeOK
    <3> QED
      BY <2>1, <2>2, <3>1, <3>2, <3>3 DEF Steps
  <2> QED
    BY <2>3, <2>4
<1>4. \/ /\ conns' = [conns EXCEPT ![remote[c]] = None] /\ sessions' = sessions
         /\ done'[c].session = done[c].session
      \/ /\ sessions' = [sessions EXCEPT ![remote[c]] = None] /\ conns' = conns
         /\ done'[c].conns = done[c].conns
  BY DEF Close, Closed, DeletesSession, TypeOK, Steps
<1>5. TypeOK'
  BY <1>1, <1>2, <1>3, <1>4 DEF TypeOK
<1>6. StepsInOrder' /\ OneOpenPerAddr'
  BY <1>1, <1>3 DEF StepsInOrder, OneOpenPerAddr
<1>7. EntriesOpen'
  <2> SUFFICES ASSUME NEW a \in Addrs
               PROVE  /\ conns'[a] # None =>
                           /\ remote'[conns'[a]] = a /\ accept'[conns'[a]] # "none"
                           /\ done'[conns'[a]].conns = 0
                      /\ sessions'[a] # None =>
                           /\ remote'[sessions'[a]] = a /\ accept'[sessions'[a]] = "started"
                           /\ done'[sessions'[a]].session = 0
    BY DEF EntriesOpen
  <2>1. conns[a] \in Conns \cup {None} /\ sessions[a] \in Conns \cup {None}
    BY DEF TypeOK
  <2>2. CASE done'[c].session = done[c].session /\ conns' = [conns EXCEPT ![remote[c]] = None] /\ sessions' = sessions
    <3>1. conns'[a] # None => conns'[a] = conns[a] /\ a # remote[c]
      BY <1>2, <2>2 DEF TypeOK
    <3> QED
      BY <1>1, <1>3, <2>1, <2>2, <3>1 DEF EntriesOpen
  <2>3. CASE done'[c].conns = done[c].conns /\ sessions' = [sessions EXCEPT ![remote[c]] = None] /\ conns' = conns
    <3>1. sessions'[a] # None => sessions'[a] = sessions[a] /\ a # remote[c]
      BY <1>2, <2>3 DEF TypeOK
    <3> QED
      BY <1>1, <1>3, <2>1, <2>3, <3>1 DEF EntriesOpen
  <2> QED
    BY <1>4, <2>2, <2>3
<1>8. ASSUME NEW d \in Conns, d # c, remote[d] \in Addrs \ ReusedAddrs,
             done[d].conns = 0
      PROVE  conns'[remote[d]] = conns[remote[d]] /\ sessions'[remote[d]] = sessions[remote[d]]
  <2>1. remote[d] # remote[c]
    BY <1>1, <1>8, SameConn, NotClosedForGood
  <2> QED
    BY <1>2, <1>4, <1>8, <2>1 DEF TypeOK
<1>9. AcceptedHasEntry'
  <2> SUFFICES ASSUME NEW d \in Conns, accept[d] = "accepted", remote[d] \notin ReusedAddrs
               PROVE  conns'[remote[d]] = d
    BY <1>1 DEF AcceptedHasEntry
  <2> QED
    BY <1>1, <1>8, RemoteType DEF AcceptedHasEntry, StepsInOrder
<1>10. OwnSession'
  <2> SUFFICES ASSUME NEW d \in Conns, InUse(d)', remote[d] \notin ReusedAddrs
               PROVE  conns'[remote[d]] = d /\ sessions'[remote[d]] = d
    BY <1>1 DEF OwnSession
  <2>1. d # c /\ InUse(d)
    BY <1>1, <1>3 DEF InUse, Steps
  <2> QED
    BY <1>8, <2>1, RemoteType DEF OwnSession, InUse
<1> QED
  BY <1>5, <1>6, <1>7, <1>9, <1>10

\* The connection itself is closed, or the listener, or the process ends.
LEMMA StepOutsideTables ==
    ASSUME IInv,
           \/ \E c \in Conns : NetClose(c)
           \/ \E c, d \in Conns : ConcurrentMapWrites(c, d)
           \/ ListenerClose
           \/ UNCHANGED vars
    PROVE  IInv'
<1> USE NetAssumption DEF IInv
<1>1. ASSUME NEW c \in Conns, NetClose(c) PROVE IInv'
  <2>1. /\ UNCHANGED <<listening, remote, accept, conns, sessions, sessionID, fatal>>
        /\ up' \subseteq Conns
    BY <1>1 DEF NetClose, tables, TypeOK
  <2>2. done' \in [Conns -> Steps]
    BY <1>1 DEF NetClose, StepsInOrder, TypeOK, Steps
  <2>3. ASSUME NEW d \in Conns
        PROVE  /\ done'[d].conns = done[d].conns /\ done'[d].session = done[d].session
               /\ done'[d].net <= done'[d].session
               /\ done[d].net = MaxCloses => done'[d].net = MaxCloses
    BY <1>1 DEF NetClose, StepsInOrder, TypeOK, Steps
  <2>4. TypeOK'
    BY <2>1, <2>2 DEF TypeOK
  <2>5. StepsInOrder'
    BY <2>1, <2>3 DEF StepsInOrder
  <2>6. OneOpenPerAddr'
    BY <2>1, <2>3 DEF OneOpenPerAddr
  <2>7. EntriesOpen'
    BY <2>1, <2>3 DEF EntriesOpen, TypeOK
  <2>8. AcceptedHasEntry' /\ OwnSession'
    BY <2>1, <2>3 DEF AcceptedHasEntry, OwnSession, InUse
  <2> QED
    BY <2>4, <2>5, <2>6, <2>7, <2>8
<1>2. ASSUME \/ \E c, d \in Conns : ConcurrentMapWrites(c, d)
             \/ ListenerClose
             \/ UNCHANGED vars
      PROVE  IInv'
  <2>1. /\ UNCHANGED <<remote, up, accept, done, conns, sessions, sessionID>>
        /\ listening' \in BOOLEAN /\ fatal' \in BOOLEAN
    BY <1>2 DEF ConcurrentMapWrites, ListenerClose, vars, tables, TypeOK
  <2>2. TypeOK'
    BY <2>1 DEF TypeOK
  <2>3. StepsInOrder' /\ OneOpenPerAddr' /\ EntriesOpen'
    BY <2>1 DEF StepsInOrder, OneOpenPerAddr, EntriesOpen
  <2>4. AcceptedHasEntry' /\ OwnSession'
    BY <2>1 DEF AcceptedHasEntry, OwnSession, InUse
  <2> QED
    BY <2>2, <2>3, <2>4
<1> QED
  BY <1>1, <1>2

\* Every step keeps the inductive invariant.
LEMMA StepIInv == IInv /\ [Next]_vars => IInv'
  BY StepNetwork, StepAccept, StepStarted, StepClose, StepOutsideTables
     DEF Next, Finished

-----------------------------------------------------------------------------
\* The inductive invariant holds in every behaviour of the listener.
THEOREM SpecIInv == Spec => []IInv
  BY InitIInv, StepIInv, PTL DEF Spec

\* A connection in use has its own entry in both tables, whatever happens at
\* other addresses and with earlier connections of its own (netsession.go,
\* session.go).
THEOREM SpecOwnSession == Spec => []OwnSession
<1>1. IInv => OwnSession
  BY DEF IInv
<1> QED
  BY <1>1, SpecIInv, PTL

\* Nothing is left in the tables once all connections are closed, early reuse
\* of an address or not: an entry that is left belongs to a connection that
\* has not taken the step which deletes it.
THEOREM SpecNothingLeft == Spec => []NothingLeft
<1>1. IInv => NothingLeft
  <2> SUFFICES ASSUME IInv, AllClosed, NEW a \in Addrs
               PROVE  conns[a] = None /\ sessions[a] = None
    BY DEF NothingLeft
  <2>1. conns[a] = None
    BY NetAssumption DEF IInv, TypeOK, EntriesOpen, AllClosed, Steps
  <2>2. sessions[a] = None
    BY NetAssumption DEF IInv, TypeOK, EntriesOpen, AllClosed, Steps, StepsInOrder
  <2> QED
    BY <2>1, <2>2
<1> QED
  BY <1>1, SpecIInv, PTL

=============================================================================
