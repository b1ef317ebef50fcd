-------------------------- MODULE TelemetryProofs --------------------------
(***************************************************************************)
(* Proofs about Telemetry for every number of sessions, leaves, values and *)
(* transactions, and every capacity of the queues: a client sees           *)
(* sync_response first, and a settled client has the data of the model.    *)
(***************************************************************************)
EXTENDS Telemetry, TLAPS

\* No session subscribes to two leaves: the tree of an event also has leaves
\* the subscription did not have when the event was made.
OneLeafEach == MaxReq <= 1 \/ \A p, q \in Paths : p = q

-----------------------------------------------------------------------------
(* The goroutine of a subscription and its session *)

\* The goroutine runs if the subscription is marked started, and the waitgroup
\* counts it.
Counted(s) ==
    /\ started[s] <=> run[s] # "none"
    /\ run[s] # "none" => runners[s] > 0

\* initTelemetryUpdate has something left to send, in the end sync_response.
EndsInSync(q) ==
    q = <<Sync>> \/ \E m \in Message : m.kind = "init" /\ q = <<m, Sync>>

Sends(s) ==
    /\ at[s] \in {"init", "sending", "add"} => req[s] \in Paths
    /\ at[s] = "sending" => EndsInSync(outbox[s])

TypeInv ==
    /\ TypeOK
    /\ reqs \in [Subs -> Nat]
    /\ eventque \in [Subs -> Seq(Event)] /\ timers \in [Subs -> Seq(BOOLEAN)]
    /\ respchan \in [Subs -> Seq(Message)] /\ outbox \in [Subs -> Seq(Message)]
    /\ \A s \in Subs : Sends(s)

RunInv == \A s \in Subs : Counted(s)

-----------------------------------------------------------------------------
(* sync_response before telemetry *)

HasSync(q) == \E i \in 1..Len(q) : q[i].kind = "sync"

\* In q every telemetry update comes after a sync_response, unless one has
\* been seen.
SyncFirst(q, seen) ==
    \A i \in 1..Len(q) : q[i].kind = "update" =>
        seen \/ \E j \in 1..(i - 1) : q[j].kind = "sync"

\* A subscription is only added and started with a sync_response on its way.
SyncsFirst(s) ==
    /\ ~early[s]
    /\ SyncFirst(respchan[s], synced[s])
    /\ (at[s] \in {"add", "info", "start"} \/ run[s] # "none") =>
         synced[s] \/ HasSync(respchan[s])

SyncInv == \A s \in Subs : SyncsFirst(s)

-----------------------------------------------------------------------------
(* The client's copy *)

\* A message says something of leaf p: that it has a value, or none any more.
Speaks(m, p) == m.updates[p] # None \/ p \in m.deletes

Silent(q, p) == \A i \in 1..Len(q) : ~Speaks(q[i], p)

\* The last message of q about p gives it the value v.
Says(q, p, v) ==
    \E i \in 1..Len(q) :
        /\ Speaks(q[i], p) /\ q[i].updates[p] = v
        /\ \A j \in (i + 1)..Len(q) : ~Speaks(q[j], p)

\* Once respchan is delivered the client's copy of its leaf is v.
WillBe(s, v) ==
    \/ Says(respchan[s], req[s], v)
    \/ Silent(respchan[s], req[s]) /\ view[s][req[s]] = v

Live(s) == at[s] \in {"recv", "init", "sending", "add", "info", "start"}

Registered(s) == req[s] \in Paths /\ s \in lookup[req[s]]

\* The subscription is about the leaf of the one request.
Subscribed(s) ==
    /\ paths[s] \subseteq {req[s]} \cap Paths
    /\ \A p \in Paths : s \in lookup[p] => p \in paths[s]
    /\ at[s] \in {"init", "sending", "add", "info", "start"} => req[s] \in Paths
    /\ at[s] \in {"info", "start", "recv"} /\ req[s] # None => req[s] \in paths[s]
    /\ reqs[s] = 0 => req[s] = None

\* Before the first request is answered nothing was sent, and before the
\* subscription is registered there are no events.
Fresh(s) ==
    /\ Live(s) /\ (req[s] = None \/ (at[s] = "init" /\ req[s] \notin paths[s])) =>
         respchan[s] = <<>> /\ view[s] = Empty
    /\ Live(s) /\ ~Registered(s) =>
         run[s] = "none" /\ ready[s] = None /\ eventque[s] = <<>>

\* An event is about the leaf and has its present value.
Current(s, updated, deleted, root) ==
    /\ req[s] \in updated \cup deleted
    /\ root[req[s]] = db[req[s]]
    /\ db[req[s]] = None => req[s] \in deleted

LatestEvent(s) ==
    /\ ready[s] # None => Current(s, ready[s].updated, ready[s].deleted, updatedroot)
    /\ (ready[s] = None /\ eventque[s] # <<>>) =>
         LET e == eventque[s][Len(eventque[s])]
         IN  Current(s, e.updated, e.deleted, e.root)

NoEvents(s) == ready[s] = None /\ eventque[s] = <<>>

\* With no event left, what is being sent has the present value ...
LatestMessage(s) ==
    /\ run[s] = "read" /\ from[s] # None => from[s][req[s]] = db[req[s]]
    /\ run[s] = "send" => message[s].updates[req[s]] = db[req[s]]

\* ... and the client has it, or gets it.
OnItsWay(s) ==
    \/ WillBe(s, db[req[s]])
    \/ at[s] = "sending" /\ \E i \in 1..Len(outbox[s]) : Speaks(outbox[s][i], req[s])
    \/ run[s] = "send" /\ db[req[s]] # None
    \/ /\ req[s] \in updatedList[s] \cup deletedList[s]
       /\ db[req[s]] = None => req[s] \in deletedList[s]

\* Unless the last change of the leaf made no event.  The messages of
\* initTelemetryUpdate are sent under the lock they were read with.
Follows(s) ==
    Live(s) /\ req[s] \in Paths =>
        /\ at[s] = "sending" =>
             \A i \in 1..Len(outbox[s]) : Speaks(outbox[s][i], req[s]) =>
                 outbox[s][i].updates[req[s]] = db[req[s]]
        /\ req[s] \notin missed[s] =>
             /\ LatestEvent(s)
             /\ NoEvents(s) => LatestMessage(s)
             /\ NoEvents(s) /\ (req[s] \in paths[s] \/ at[s] \in {"sending", "add"}) =>
                  OnItsWay(s)

\* The message being sent has all the deletes.
AllDeletes(s) == run[s] = "send" => message[s].deletes = deletedList[s]

\* The tree of changes belongs to a writing transaction, events are made inside
\* a transaction, and nobody sends meanwhile.
Changes ==
    /\ tx \in {"none", "delete"} => updatedroot = Empty
    /\ tx = "none" => \A s \in Subs : ready[s] = None
    /\ tx # "none" => \A s \in Subs : at[s] # "sending" /\ run[s] # "send"

Followed(s) == Subscribed(s) /\ Fresh(s) /\ AllDeletes(s) /\ Follows(s)

ViewInv == Changes /\ \A s \in Subs : Followed(s)

TInv == TypeInv /\ RunInv /\ SyncInv /\ ViewInv

-----------------------------------------------------------------------------
(* Trees, messages and outboxes *)

\* The values of the model's trees.
LEMMA TreeTypes ==
    /\ Empty \in Tree /\ Sync \in Message /\ Sync.kind = "sync"
    /\ \A t \in Tree, p \in Paths, v \in Values \cup {None} : Set(t, p, v) \in Tree
    /\ \A t \in Tree, ps \in SUBSET Paths : Only(t, ps) \in Tree
<1>1. Empty \in Tree
  BY DEF Empty, Tree
<1>2. \A t \in Tree, p \in Paths, v \in Values \cup {None} : Set(t, p, v) \in Tree
  BY DEF Tree, Set
<1>3. \A t \in Tree, ps \in SUBSET Paths : Only(t, ps) \in Tree
  BY DEF Tree, Only
<1> QED
  BY <1>1, <1>2, <1>3 DEF Sync, Message

\* The messages of initTelemetryUpdate end with sync_response.
LEMMA InitMessagesType ==
    ASSUME TypeInv, NEW s \in Subs, req[s] \in Paths
    PROVE  InitMessages(s) \in Seq(Message) /\ EndsInSync(InitMessages(s))
<1> DEFINE m == [kind |-> "init", updates |-> Only(db, {req[s]}), deletes |-> {}]
<1>1. m \in Message /\ m.kind = "init" /\ Sync \in Message
  BY TreeTypes DEF TypeInv, TypeOK, Message
<1>2. InitMessages(s) = <<Sync>> \/ InitMessages(s) = <<m, Sync>>
  BY DEF InitMessages
<1>3. <<Sync>> \in Seq(Message) /\ <<m, Sync>> \in Seq(Message)
  BY <1>1
<1>4. EndsInSync(<<Sync>>) /\ EndsInSync(<<m, Sync>>)
  BY <1>1 DEF EndsInSync
<1> QED
  BY <1>2, <1>3, <1>4

\* Sending the first message of an outbox.
LEMMA OutboxStep ==
    ASSUME NEW q \in Seq(Message), EndsInSync(q)
    PROVE  /\ Head(q) \in Message /\ Tail(q) \in Seq(Message) /\ Len(q) \in {1, 2}
           /\ Len(q) = 1 => Head(q) = Sync
           /\ Len(q) # 1 => EndsInSync(Tail(q)) /\ Tail(q) = <<Sync>> /\ Head(q).kind = "init"
<1>1. CASE q = <<Sync>>
  BY <1>1, TreeTypes
<1>2. CASE \E m \in Message : m.kind = "init" /\ q = <<m, Sync>>
  BY <1>2, TreeTypes DEF EndsInSync
<1> QED
  BY <1>1, <1>2 DEF EndsInSync

\* The queues stay within their capacities.
LEMMA QueueTypes ==
    ASSUME NEW T, NEW q \in Seq(T)
    PROVE  /\ Len(q) \in Nat
           /\ \A e \in T : Append(q, e) \in Seq(T) /\ Len(Append(q, e)) = Len(q) + 1
           /\ q # <<>> => /\ Head(q) \in T /\ Tail(q) \in Seq(T)
                          /\ Len(Tail(q)) = Len(q) - 1
  OBVIOUS

-----------------------------------------------------------------------------
(* Types *)

\* A transaction of the model and its callbacks.
LEMMA TransactionTypes ==
    ASSUME TypeInv, Transaction
    PROVE  TypeInv'
<1> USE TelemetryAssumption
<1>0. \A s \in Subs : Sends(s)' = Sends(s)
  BY DEF Transaction, UpdateStart, UpdateCreate, UpdateReplace, UpdateDelete, updateTeleEvent,
         ChangeCompleted, SendEvent, UpdateEnd, SetSilently, session, subscription, Sends
<1>1. CASE \E kind \in {"write", "delete"} : UpdateStart(kind)
  BY <1>0, <1>1 DEF UpdateStart, TypeInv, TypeOK, session, subscription, client
<1>2. CASE ChangeCompleted \/ UpdateEnd
  BY <1>0, <1>2, TreeTypes DEF ChangeCompleted, UpdateEnd, TypeInv, TypeOK, session, subscription,
         client, bounds
<1>3. ASSUME NEW p \in Paths,
             \/ \E v \in Values : UpdateCreate(p, v) \/ UpdateReplace(p, v)
             \/ UpdateDelete(p)
      PROVE  TypeInv'
  <2>1. db' \in Tree /\ updatedroot' \in Tree
    BY <1>3, TreeTypes DEF UpdateCreate, UpdateReplace, UpdateDelete, TypeInv, TypeOK
  <2>2. PICK updated \in SUBSET Paths, deleted \in SUBSET Paths :
          updateTeleEvent(p, updated, deleted)
    BY <1>3 DEF UpdateCreate, UpdateReplace, UpdateDelete
  <2>3. ready' \in [Subs -> Event \cup {None}]
    <3>1. ASSUME NEW e \in Event
          PROVE  [e EXCEPT !.updated = @ \cup updated, !.deleted = @ \cup deleted] \in Event
      BY DEF Event
    <3>2. [updated |-> {}, deleted |-> {}, root |-> Empty] \in Event
      BY TreeTypes DEF Event
    <3> QED
      BY <2>2, <3>1, <3>2 DEF updateTeleEvent, TypeInv, TypeOK
  <2>4. missed' \in [Subs -> SUBSET Paths]
    BY <2>2 DEF updateTeleEvent, TypeInv, TypeOK
  <2> QED
    BY <1>0, <2>1, <2>2, <2>3, <2>4 DEF updateTeleEvent, TypeInv, TypeOK, session, subscription,
         client, bounds
<1>4. ASSUME NEW s \in Subs, SendEvent(s) PROVE TypeInv'
  <2> DEFINE e == [ready[s] EXCEPT !.root = updatedroot]
  <2>0. ready[s] \in Event /\ updatedroot \in Tree /\ eventque[s] \in Seq(Event)
    BY <1>4 DEF SendEvent, TypeInv, TypeOK
  <2>1. e \in Event
    BY <2>0 DEF Event
  <2>2. eventque' = [eventque EXCEPT ![s] = Append(eventque[s], e)]
        /\ Len(eventque[s]) < EventCap
    BY <1>4 DEF SendEvent, Set, QueueHasRoom
  <2>3. eventque' \in [Subs -> Seq(Event)] /\ \A t \in Subs : Len(eventque'[t]) <= EventCap
    BY <2>0, <2>1, <2>2, QueueTypes DEF TypeInv, TypeOK
  <2>4. ready' \in [Subs -> Event \cup {None}]
    BY <1>4 DEF SendEvent, Set, TypeInv, TypeOK
  <2> QED
    BY <1>0, <1>4, <2>3, <2>4 DEF SendEvent, TypeInv, TypeOK, session, subscription, client, bounds
<1>5. ASSUME NEW p \in Paths, NEW v \in Values \cup {None}, SetSilently(p, v) PROVE TypeInv'
  <2>1. db' \in Tree
    BY <1>5, TreeTypes DEF SetSilently, TypeInv, TypeOK
  <2>2. missed' \in [Subs -> SUBSET Paths]
    BY <1>5 DEF SetSilently, TypeInv, TypeOK
  <2> QED
    BY <1>0, <1>5, <2>1, <2>2 DEF SetSilently, TypeInv, TypeOK, session, subscription, client
<1> QED
  BY <1>1, <1>2, <1>3, <1>4, <1>5 DEF Transaction

Places == {"recv", "init", "sending", "add", "info", "start", "stop", "unregister", "close",
           "wait", "closed"}

\* A step of the RPC goroutine of session s.
LEMMA SessionTypes ==
    ASSUME TypeInv, NEW s \in Subs,
           \/ \E p \in Paths : Request(s, p)
           \/ Proceed(s) \/ Refuse(s) \/ StreamEnds(s)
    PROVE  TypeInv'
<1> USE TelemetryAssumption
<1>0. Sends(s) /\ outbox[s] \in Seq(Message) /\ respchan[s] \in Seq(Message)
  BY DEF TypeInv
<1>1. CASE \E p \in Paths : Request(s, p)
  <2>1. PICK p \in Paths : Request(s, p)
    BY <1>1
  <2>2. at' = [at EXCEPT ![s] = "init"] /\ req' = [req EXCEPT ![s] = p]
        /\ reqs' = [reqs EXCEPT ![s] = reqs[s] + 1] /\ outbox' = outbox
    BY <2>1 DEF Request, Set
  <2>3. \A t \in Subs : Sends(t)'
    BY <2>2 DEF Sends, TypeInv, TypeOK
  <2>4. at' \in [Subs -> Places] /\ req' \in [Subs -> Paths \cup {None}]
        /\ reqs' \in [Subs -> Nat]
    BY <2>2 DEF TypeInv, TypeOK, Places
  <2> QED
    BY <2>1, <2>3, <2>4 DEF Request, TypeInv, TypeOK, Places, model, subscription, client
<1>2. CASE InitRead(s)
  <2>1. at' = [at EXCEPT ![s] = "sending"] /\ req' = req
        /\ outbox' = [outbox EXCEPT ![s] = InitMessages(s)] /\ req[s] \in Paths
    BY <1>0, <1>2 DEF InitRead, Set, Sends
  <2>2. InitMessages(s) \in Seq(Message) /\ EndsInSync(InitMessages(s))
    BY <2>1, InitMessagesType
  <2>3. \A t \in Subs : Sends(t)'
    BY <2>1, <2>2 DEF Sends, TypeInv, TypeOK
  <2>4. missed' \in [Subs -> SUBSET Paths]
    BY <1>2 DEF InitRead, Set, TypeInv, TypeOK
  <2>5. at' \in [Subs -> Places] /\ outbox' \in [Subs -> Seq(Message)]
    BY <2>1, <2>2 DEF TypeInv, TypeOK, Places
  <2> QED
    BY <1>2, <2>3, <2>4, <2>5 DEF InitRead, TypeInv, TypeOK, Places, model, subscription, client, bounds
<1>3. CASE InitSend(s)
  <2>1. /\ at' = [at EXCEPT ![s] = IF Len(outbox[s]) = 1 THEN "add" ELSE "sending"] /\ req' = req
        /\ outbox' = [outbox EXCEPT ![s] = Tail(outbox[s])]
        /\ respchan' = [respchan EXCEPT ![s] = Append(respchan[s], Head(outbox[s]))]
        /\ Len(respchan[s]) < RespCap /\ EndsInSync(outbox[s])
    BY <1>0, <1>3 DEF InitSend, Set, Sends, RespHasRoom
  <2>2. /\ Head(outbox[s]) \in Message /\ Tail(outbox[s]) \in Seq(Message)
        /\ Len(outbox[s]) # 1 => EndsInSync(Tail(outbox[s]))
    BY <1>0, <2>1, OutboxStep
  <2>3. ASSUME NEW t \in Subs PROVE Sends(t)'
    <3>1. CASE t = s
      <4>1. at'[s] = (IF Len(outbox[s]) = 1 THEN "add" ELSE "sending") /\ req'[s] = req[s]
            /\ outbox'[s] = Tail(outbox[s]) /\ req[s] \in Paths
        BY <1>0, <1>3, <2>1 DEF InitSend, Sends, TypeInv, TypeOK
      <4> QED
        BY <2>2, <3>1, <4>1 DEF Sends
    <3>2. CASE t # s
      BY <2>1, <3>2 DEF Sends, TypeInv, TypeOK
    <3> QED
      BY <3>1, <3>2
  <2>4. respchan' \in [Subs -> Seq(Message)] /\ \A t \in Subs : Len(respchan'[t]) <= RespCap
    BY <1>0, <2>1, <2>2, QueueTypes DEF TypeInv, TypeOK
  <2>5. outbox' \in [Subs -> Seq(Message)]
    BY <2>1, <2>2 DEF TypeInv
  <2>6. at' \in [Subs -> Places]
    BY <2>1 DEF TypeInv, TypeOK, Places
  <2> QED
    BY <1>3, <2>3, <2>4, <2>5, <2>6 DEF InitSend, TypeInv, TypeOK, Places, model, subscription, client, bounds
<1>4. CASE \/ AddPath(s) \/ AddInfo(s) \/ StartTelemetryUpdate(s) \/ DeleteInfo(s)
           \/ Unregister(s) \/ Close(s) \/ Refuse(s) \/ StreamEnds(s) \/ Closed(s)
  <2>1. PICK a \in {"recv", "info", "start", "stop", "unregister", "close", "wait", "closed"} :
          at' = [at EXCEPT ![s] = a]
    BY <1>4 DEF AddPath, AddInfo, StartTelemetryUpdate, DeleteInfo, Unregister, Close, Refuse,
                StreamEnds, Closed, Set
  <2>2. UNCHANGED <<req, outbox, model, from, updatedList, deletedList, message, eventque,
                    client, missed, crashed, bounds>>
    BY <1>4 DEF AddPath, AddInfo, StartTelemetryUpdate, DeleteInfo, Unregister, Close, Refuse,
                StreamEnds, Closed, subscription
  <2>3. \A t \in Subs : Sends(t)'
    BY <2>1, <2>2 DEF Sends, TypeInv, TypeOK
  <2>4. at' \in [Subs -> Places]
    BY <2>1 DEF TypeInv, TypeOK, Places
  <2>5. paths' \in [Subs -> SUBSET Paths]
    <3>1. CASE AddPath(s)
      <4>1. at[s] = "add" /\ paths' = [paths EXCEPT ![s] = paths[s] \cup {req[s]}]
        BY <3>1 DEF AddPath, Set
      <4>2. req[s] \in Paths
        BY <1>0, <4>1 DEF Sends
      <4> QED
        BY <4>1, <4>2 DEF TypeInv, TypeOK
    <3>2. CASE ~AddPath(s)
      BY <1>4, <3>2 DEF AddInfo, StartTelemetryUpdate, DeleteInfo, Unregister, Close, Refuse,
                StreamEnds, Closed, subscription, TypeInv, TypeOK
    <3> QED
      BY <3>1, <3>2
  <2>6. lookup' \in [Paths -> SUBSET Subs]
    <3>1. CASE StartTelemetryUpdate(s) \/ Unregister(s)
      <4>1. lookup \in [Paths -> SUBSET Subs]
        BY DEF TypeInv, TypeOK
      <4>2. \/ lookup' = [p \in Paths |-> IF p \in paths[s] THEN lookup[p] \cup {s} ELSE lookup[p]]
            \/ lookup' = [p \in Paths |-> lookup[p] \ {s}]
        BY <3>1 DEF StartTelemetryUpdate, Unregister
      <4> QED
        BY <4>1, <4>2
    <3>2. CASE ~(StartTelemetryUpdate(s) \/ Unregister(s))
      BY <1>4, <3>2 DEF AddPath, AddInfo, DeleteInfo, Close, Refuse, StreamEnds, Closed, TypeInv,
                TypeOK
    <3> QED
      BY <3>1, <3>2
  <2>7. /\ started' \in [Subs -> BOOLEAN] /\ runners' \in [Subs -> Nat]
        /\ timers' \in [Subs -> Seq(BOOLEAN)] /\ \A t \in Subs : Len(timers'[t]) <= TimerCap
        /\ run' \in [Subs -> {"none", "wait", "read", "send", "quit", "stuck"}]
    <3>1. CASE StartTelemetryUpdate(s)
      <4>1. /\ started \in [Subs -> BOOLEAN] /\ runners \in [Subs -> Nat]
            /\ timers \in [Subs -> Seq(BOOLEAN)] /\ \A t \in Subs : Len(timers[t]) <= TimerCap
            /\ run \in [Subs -> {"none", "wait", "read", "send", "quit", "stuck"}]
        BY DEF TypeInv, TypeOK
      <4>2. \/ UNCHANGED <<started, runners, run, timers>>
            \/ /\ started' = [started EXCEPT ![s] = TRUE]
               /\ runners' = [runners EXCEPT ![s] = runners[s] + 1]
               /\ run' = [run EXCEPT ![s] = "wait"]
               /\ timers' = [timers EXCEPT ![s] = <<>>]
        BY <3>1 DEF StartTelemetryUpdate, Set
      <4>3. started' \in [Subs -> BOOLEAN]
        BY <4>1, <4>2
      <4>4. runners[s] + 1 \in Nat
        BY <4>1
      <4>5. runners' \in [Subs -> Nat]
        BY <4>1, <4>2, <4>4
      <4>6. run' \in [Subs -> {"none", "wait", "read", "send", "quit", "stuck"}]
        BY <4>1, <4>2
      <4>7. timers' \in [Subs -> Seq(BOOLEAN)] /\ \A t \in Subs : Len(timers'[t]) <= TimerCap
        <5>1. <<>> \in Seq(BOOLEAN) /\ Len(<<>>) = 0
          OBVIOUS
        <5>2. timers' = timers \/ timers' = [timers EXCEPT ![s] = <<>>]
          BY <4>2
        <5>3. timers' \in [Subs -> Seq(BOOLEAN)]
          BY <4>1, <5>1, <5>2
        <5>4. \A t \in Subs : timers'[t] = timers[t] \/ timers'[t] = <<>>
          BY <4>1, <5>2
        <5>5. 0 <= TimerCap
          OBVIOUS
        <5>6. \A t \in Subs : Len(timers'[t]) <= TimerCap
          BY <4>1, <5>1, <5>4, <5>5, Zenon
        <5> QED
          BY <5>3, <5>6
      <4> QED
        BY <4>3, <4>5, <4>6, <4>7
    <3>2. CASE ~StartTelemetryUpdate(s)
      BY <1>4, <3>2 DEF AddPath, AddInfo, DeleteInfo, Unregister, Close, Refuse, StreamEnds, Closed,
                TypeInv, TypeOK, subscription
    <3> QED
      BY <3>1, <3>2
  <2>8. respchan' \in [Subs -> Seq(Message)] /\ \A t \in Subs : Len(respchan'[t]) <= RespCap
    <3>1. CASE Closed(s)
      <4>1. respchan' = [respchan EXCEPT ![s] = <<>>]
        BY <3>1 DEF Closed, Set
      <4>2. <<>> \in Seq(Message) /\ Len(<<>>) = 0
        OBVIOUS
      <4> QED
        BY <4>1, <4>2 DEF TypeInv, TypeOK
    <3>2. CASE ~Closed(s)
      BY <1>4, <3>2 DEF AddPath, AddInfo, StartTelemetryUpdate, DeleteInfo, Unregister, Close, Refuse,
                StreamEnds, TypeInv, TypeOK
    <3> QED
      BY <3>1, <3>2
  <2> QED
    BY <2>2, <2>3, <2>4, <2>5, <2>6, <2>7, <2>8 DEF TypeInv, TypeOK, Places, model, client, bounds
<1> QED
  BY <1>1, <1>2, <1>3, <1>4 DEF Proceed

\* A step of the goroutine of subscription s, of its timers or the responder.
LEMMA RunnerTypes ==
    ASSUME TypeInv, NEW s \in Subs, Runner(s) \/ Timer(s) \/ Deliver(s)
    PROVE  TypeInv'
<1> USE TelemetryAssumption
<1>0. \A t \in Subs : Sends(t)' = Sends(t)
  BY DEF Runner, ReceiveEvent, ReadTree, SendUpdate, SendPanics, UpdateError, Shutdown, RunReturns,
         ClearStarted, RunDone, Timer, TimerFires, TimerJams, ReceiveTimer, Deliver, session, Sends
<1>1. respchan[s] \in Seq(Message) /\ eventque[s] \in Seq(Event)
  BY DEF TypeInv
<1>2. CASE ReceiveEvent(s)
  <2> DEFINE e == Head(eventque[s])
  <2>1. e \in Event /\ Tail(eventque[s]) \in Seq(Event) /\ Len(Tail(eventque[s])) <= EventCap
    BY <1>1, <1>2, QueueTypes DEF ReceiveEvent, TypeInv, TypeOK
  <2>2. e.updated \in SUBSET Paths /\ e.deleted \in SUBSET Paths /\ e.root \in Tree
    BY <2>1 DEF Event
  <2>3. /\ updatedList' = [updatedList EXCEPT ![s] = updatedList[s] \cup e.updated]
        /\ deletedList' = [deletedList EXCEPT ![s] = deletedList[s] \cup e.deleted]
        /\ from' = [from EXCEPT ![s] = IF s \in OnChange THEN e.root ELSE None]
        /\ eventque' = [eventque EXCEPT ![s] = Tail(eventque[s])]
        /\ run' = [run EXCEPT ![s] = IF s \in OnChange THEN "read" ELSE "wait"]
    BY <1>2 DEF ReceiveEvent, Set
  <2> HIDE DEF e
  <2>4. eventque' \in [Subs -> Seq(Event)] /\ \A t \in Subs : Len(eventque'[t]) <= EventCap
    BY <2>1, <2>3 DEF TypeInv, TypeOK
  <2>5. updatedList' \in [Subs -> SUBSET Paths] /\ deletedList' \in [Subs -> SUBSET Paths]
    BY <2>2, <2>3 DEF TypeInv, TypeOK
  <2>6. from' \in [Subs -> Tree \cup {None}]
    BY <2>2, <2>3 DEF TypeInv, TypeOK
  <2>7. run' \in [Subs -> {"none", "wait", "read", "send", "quit", "stuck"}]
    BY <2>3 DEF TypeInv, TypeOK
  <2> QED
    BY <1>0, <1>2, <2>4, <2>5, <2>6, <2>7 DEF ReceiveEvent, TypeInv, TypeOK, model, session, client, bounds
<1>3. CASE ReadTree(s)
  <2> DEFINE tree == IF from[s] = None THEN db ELSE from[s]
             m == [kind |-> "update", updates |-> Only(tree, paths[s]), deletes |-> getDeletes(s)]
  <2>1. tree \in Tree
    BY DEF TypeInv, TypeOK
  <2>2. m \in Message
    BY <2>1, TreeTypes DEF TypeInv, TypeOK, Message, getDeletes
  <2>3. /\ \/ message' = [message EXCEPT ![s] = m]
           \/ message' = message
        /\ \E r \in {"send", "wait"} : run' = [run EXCEPT ![s] = r]
        /\ \/ UNCHANGED <<updatedList, deletedList>>
           \/ /\ updatedList' = [updatedList EXCEPT ![s] = {}]
              /\ deletedList' = [deletedList EXCEPT ![s] = {}]
    BY <1>3 DEF ReadTree, Set
  <2> HIDE DEF tree, m
  <2>4. /\ message' \in [Subs -> Message]
        /\ updatedList' \in [Subs -> SUBSET Paths] /\ deletedList' \in [Subs -> SUBSET Paths]
        /\ run' \in [Subs -> {"none", "wait", "read", "send", "quit", "stuck"}]
    <3>1. /\ message \in [Subs -> Message]
          /\ updatedList \in [Subs -> SUBSET Paths] /\ deletedList \in [Subs -> SUBSET Paths]
          /\ run \in [Subs -> {"none", "wait", "read", "send", "quit", "stuck"}]
      BY DEF TypeInv, TypeOK
    <3>2. message' \in [Subs -> Message]
      BY <2>2, <2>3, <3>1
    <3>3. updatedList' \in [Subs -> SUBSET Paths] /\ deletedList' \in [Subs -> SUBSET Paths]
      BY <2>3, <3>1
    <3> QED
      BY <2>3, <3>1, <3>2, <3>3
  <2>5. missed' \in [Subs -> SUBSET Paths]
    BY <1>3 DEF ReadTree, Set, TypeInv, TypeOK
  <2> QED
    BY <1>0, <1>3, <2>4, <2>5 DEF ReadTree, TypeInv, TypeOK, model, session, client, bounds
<1>4. CASE SendUpdate(s)
  <2>1. /\ respchan' = [respchan EXCEPT ![s] = Append(respchan[s], message[s])]
        /\ Len(respchan[s]) < RespCap /\ message[s] \in Message
    BY <1>4 DEF SendUpdate, Set, RespHasRoom, TypeInv, TypeOK
  <2>2. respchan' \in [Subs -> Seq(Message)] /\ \A t \in Subs : Len(respchan'[t]) <= RespCap
    BY <1>1, <2>1, QueueTypes DEF TypeInv, TypeOK
  <2>3. /\ message' \in [Subs -> Message]
        /\ updatedList' \in [Subs -> SUBSET Paths] /\ deletedList' \in [Subs -> SUBSET Paths]
        /\ run' \in [Subs -> {"none", "wait", "read", "send", "quit", "stuck"}]
        /\ from' \in [Subs -> Tree \cup {None}]
    BY <1>4, TreeTypes DEF SendUpdate, Set, TypeInv, TypeOK
  <2> QED
    BY <1>0, <1>4, <2>2, <2>3 DEF SendUpdate, TypeInv, TypeOK, model, session, client, bounds
<1>5. CASE SendPanics(s)
  BY <1>0, <1>5 DEF SendPanics, TypeInv, TypeOK, model, session, subscription, client, bounds
<1>6. CASE Timer(s) \/ ReceiveTimer(s)
  <2>0. /\ timers \in [Subs -> Seq(BOOLEAN)] /\ timers[s] \in Seq(BOOLEAN)
        /\ \A t \in Subs : Len(timers[t]) <= TimerCap
    BY DEF TypeInv, TypeOK
  <2>1. \/ timers' = timers
        \/ /\ Len(timers[s]) < TimerCap
           /\ \E beat \in BOOLEAN : timers' = [timers EXCEPT ![s] = Append(timers[s], beat)]
        \/ timers[s] # <<>> /\ timers' = [timers EXCEPT ![s] = Tail(timers[s])]
    BY <1>6 DEF Timer, TimerFires, TimerJams, ReceiveTimer, Set
  <2>2. timers' \in [Subs -> Seq(BOOLEAN)] /\ \A t \in Subs : Len(timers'[t]) <= TimerCap
    <3>1. PICK q \in Seq(BOOLEAN) : timers' = [timers EXCEPT ![s] = q] /\ Len(q) <= TimerCap
      <4>1. CASE timers' = timers
        BY <2>0, <4>1
      <4>2. ASSUME Len(timers[s]) < TimerCap, NEW beat \in BOOLEAN,
                   timers' = [timers EXCEPT ![s] = Append(timers[s], beat)]
            PROVE  \E q \in Seq(BOOLEAN) : timers' = [timers EXCEPT ![s] = q] /\ Len(q) <= TimerCap
        <5>1. /\ Append(timers[s], beat) \in Seq(BOOLEAN) /\ Len(timers[s]) \in Nat
              /\ Len(Append(timers[s], beat)) = Len(timers[s]) + 1
          BY <2>0, QueueTypes
        <5>2. Len(Append(timers[s], beat)) <= TimerCap
          BY <4>2, <5>1
        <5> QED
          BY <4>2, <5>1, <5>2
      <4>3. CASE timers[s] # <<>> /\ timers' = [timers EXCEPT ![s] = Tail(timers[s])]
        <5>1. /\ Tail(timers[s]) \in Seq(BOOLEAN) /\ Len(timers[s]) \in Nat
              /\ Len(Tail(timers[s])) = Len(timers[s]) - 1
          BY <2>0, <4>3, QueueTypes
        <5>2. Len(Tail(timers[s])) <= TimerCap
          BY <2>0, <5>1
        <5> QED
          BY <4>3, <5>1, <5>2
      <4> QED
        BY <2>1, <4>1, <4>2, <4>3
    <3>2. timers' \in [Subs -> Seq(BOOLEAN)]
      BY <2>0, <3>1
    <3>3. \A t \in Subs : Len(timers'[t]) <= TimerCap
      BY <2>0, <3>1
    <3> QED
      BY <3>2, <3>3
  <2>3. /\ run' \in [Subs -> {"none", "wait", "read", "send", "quit", "stuck"}]
        /\ from' \in [Subs -> Tree \cup {None}]
    BY <1>6 DEF Timer, TimerFires, TimerJams, ReceiveTimer, Set, TypeInv, TypeOK
  <2> QED
    BY <1>0, <1>6, <2>2, <2>3 DEF Timer, TimerFires, TimerJams, ReceiveTimer, TypeInv, TypeOK, model,
         session, client, bounds
<1>7. CASE UpdateError(s) \/ Shutdown(s)
  <2>1. /\ run' = [run EXCEPT ![s] = "quit"] /\ from' = [from EXCEPT ![s] = None]
        /\ timers' = [timers EXCEPT ![s] = <<>>]
    BY <1>7 DEF UpdateError, Shutdown, RunReturns, Set
  <2>2. <<>> \in Seq(BOOLEAN) /\ Len(<<>>) = 0
    OBVIOUS
  <2>3. timers' \in [Subs -> Seq(BOOLEAN)] /\ \A t \in Subs : Len(timers'[t]) <= TimerCap
    BY <2>1, <2>2 DEF TypeInv, TypeOK
  <2>4. /\ run' \in [Subs -> {"none", "wait", "read", "send", "quit", "stuck"}]
        /\ from' \in [Subs -> Tree \cup {None}]
    BY <2>1 DEF TypeInv, TypeOK
  <2> QED
    BY <1>0, <1>7, <2>3, <2>4 DEF UpdateError, Shutdown, RunReturns, TypeInv, TypeOK, model, session,
         client, bounds
<1>9. CASE ClearStarted(s)
  <2>1. /\ run' \in [Subs -> {"none", "wait", "read", "send", "quit", "stuck"}]
        /\ started' \in [Subs -> BOOLEAN]
    BY <1>9 DEF ClearStarted, Set, TypeInv, TypeOK
  <2> QED
    BY <1>0, <1>9, <2>1 DEF ClearStarted, TypeInv, TypeOK, model, session, client, bounds
<1>10. CASE RunDone(s)
  <2>1. runners[s] \in Nat /\ Leaving(s) > 0
    BY <1>10 DEF RunDone, TypeInv, TypeOK
  <2>2. runners[s] - 1 \in Nat
    BY <2>1 DEF Leaving
  <2>3. runners' \in [Subs -> Nat]
    BY <1>10, <2>2 DEF RunDone, Set, TypeInv, TypeOK
  <2> QED
    BY <1>0, <1>10, <2>3 DEF RunDone, TypeInv, TypeOK, model, session, client, bounds
<1>8. CASE Deliver(s)
  <2> DEFINE m == Head(respchan[s])
             copy == [p \in Paths |-> IF m.updates[p] # None THEN m.updates[p]
                        ELSE IF p \in m.deletes THEN None ELSE view[s][p]]
  <2>1. m \in Message /\ Tail(respchan[s]) \in Seq(Message) /\ Len(Tail(respchan[s])) <= RespCap
    BY <1>1, <1>8, QueueTypes DEF Deliver, TypeInv, TypeOK
  <2>2. m.updates \in Tree /\ view[s] \in Tree
    BY <2>1 DEF Message, TypeInv, TypeOK
  <2>3. copy \in Tree
    BY <2>2 DEF Tree
  <2>4. /\ view' = [view EXCEPT ![s] = copy]
        /\ synced' = [synced EXCEPT ![s] = synced[s] \/ m.kind = "sync"]
        /\ early' = [early EXCEPT ![s] = early[s] \/ (m.kind = "update" /\ ~synced[s])]
        /\ respchan' = [respchan EXCEPT ![s] = Tail(respchan[s])]
    BY <1>8 DEF Deliver, Set
  <2> HIDE DEF m, copy
  <2>5. respchan' \in [Subs -> Seq(Message)] /\ \A t \in Subs : Len(respchan'[t]) <= RespCap
    BY <2>1, <2>4 DEF TypeInv, TypeOK
  <2>6. view' \in [Subs -> Tree]
    BY <2>3, <2>4 DEF TypeInv, TypeOK
  <2>7. synced' \in [Subs -> BOOLEAN] /\ early' \in [Subs -> BOOLEAN]
    BY <2>4 DEF TypeInv, TypeOK
  <2> QED
    BY <1>0, <1>8, <2>5, <2>6, <2>7 DEF Deliver, TypeInv, TypeOK, model, session, subscription, bounds
<1> QED
  BY <1>2, <1>3, <1>4, <1>5, <1>6, <1>7, <1>8, <1>9, <1>10 DEF Runner

\* Every step keeps the types.
LEMMA StepTypeInv == TypeInv /\ [Next]_vars => TypeInv'
<1> SUFFICES ASSUME TypeInv, [Next]_vars PROVE TypeInv'
  OBVIOUS
<1>1. CASE UNCHANGED vars
  <2>1. \A s \in Subs : Sends(s)' = Sends(s)
    BY <1>1 DEF vars, session, Sends
  <2> QED
    BY <1>1, <2>1 DEF vars, model, session, subscription, client, bounds, TypeInv, TypeOK
<1> QED
  BY <1>1, TransactionTypes, SessionTypes, RunnerTypes DEF Next, Finished

\* Every step keeps the count of the goroutines: the waitgroup is told of one
\* when StartTelmetryUpdate starts it, and run clears the mark before Done.
LEMMA StepRunInv == TypeInv /\ RunInv /\ [Next]_vars => RunInv'
<1> SUFFICES ASSUME TypeInv, RunInv, [Next]_vars, NEW t \in Subs PROVE Counted(t)'
  BY DEF RunInv
<1>0. /\ Counted(t) /\ runners \in [Subs -> Nat] /\ started \in [Subs -> BOOLEAN]
      /\ run \in [Subs -> {"none", "wait", "read", "send", "quit", "stuck"}]
  BY DEF TypeInv, TypeOK, RunInv
<1>1. CASE UNCHANGED <<run, started, runners>>
  BY <1>0, <1>1 DEF Counted
<1>2. ASSUME NEW s \in Subs, StartTelemetryUpdate(s) PROVE Counted(t)'
  <2>1. CASE ~started[s]
    <3>1. /\ started' = [started EXCEPT ![s] = TRUE]
          /\ runners' = [runners EXCEPT ![s] = runners[s] + 1]
          /\ run' = [run EXCEPT ![s] = "wait"]
      BY <1>2, <2>1 DEF StartTelemetryUpdate, Set
    <3> QED
      BY <1>0, <3>1 DEF Counted
  <2>2. CASE started[s]
    BY <1>1, <1>2, <2>2 DEF StartTelemetryUpdate
  <2> QED
    BY <2>1, <2>2
<1>3. ASSUME NEW s \in Subs, ClearStarted(s) PROVE Counted(t)'
  <2>1. /\ started' = [started EXCEPT ![s] = FALSE] /\ runners' = runners
        /\ run' = [run EXCEPT ![s] = "none"]
    BY <1>3 DEF ClearStarted, Set
  <2> QED
    BY <1>0, <2>1 DEF Counted
<1>4. ASSUME NEW s \in Subs, \/ ReceiveEvent(s) \/ ReadTree(s) \/ SendUpdate(s) \/ Timer(s)
                              \/ ReceiveTimer(s) \/ UpdateError(s) \/ Shutdown(s)
      PROVE  Counted(t)'
  <2>1. UNCHANGED <<started, runners>> /\ run[s] # "none"
    BY <1>4 DEF ReceiveEvent, ReadTree, SendUpdate, Timer, TimerFires, TimerJams, ReceiveTimer,
                UpdateError, Shutdown, RunReturns
  <2>2. \/ run' = run
        \/ \E r \in {"wait", "read", "send", "quit", "stuck"} : run' = [run EXCEPT ![s] = r]
    BY <1>4 DEF ReceiveEvent, ReadTree, SendUpdate, Timer, TimerFires, TimerJams, ReceiveTimer,
                UpdateError, Shutdown, RunReturns, Set
  <2> QED
    BY <1>0, <2>1, <2>2 DEF Counted
<1>5. ASSUME NEW s \in Subs, SendPanics(s) \/ Deliver(s) \/ Refuse(s) \/ StreamEnds(s)
                              \/ \E p \in Paths : Request(s, p)
      PROVE  Counted(t)'
  BY <1>1, <1>5 DEF SendPanics, Deliver, Refuse, StreamEnds, Request, subscription
<1>6. ASSUME NEW s \in Subs, Proceed(s), ~StartTelemetryUpdate(s) PROVE Counted(t)'
  BY <1>1, <1>6 DEF Proceed, InitRead, InitSend, AddPath, AddInfo, DeleteInfo, Unregister, Close,
                    Closed, subscription
<1>7. CASE Transaction
  BY <1>1, <1>7 DEF Transaction, UpdateStart, UpdateCreate, UpdateReplace, UpdateDelete,
       updateTeleEvent, ChangeCompleted, SendEvent, UpdateEnd, SetSilently, subscription
<1>8. CASE UNCHANGED vars
  BY <1>1, <1>8 DEF vars, subscription
<1>9. ASSUME NEW s \in Subs, RunDone(s) PROVE Counted(t)'
  <2>1. /\ runners' = [runners EXCEPT ![s] = runners[s] - 1] /\ UNCHANGED <<started, run>>
        /\ run[s] # "none" => runners[s] - 1 > 0
    BY <1>9 DEF RunDone, Leaving, Set
  <2> QED
    BY <1>0, <2>1 DEF Counted
<1> QED
  BY <1>2, <1>3, <1>4, <1>5, <1>6, <1>7, <1>8, <1>9 DEF Next, Runner, Finished

\* The initial state.
LEMMA InitTypeInv == Init => TypeInv /\ RunInv
<1> SUFFICES ASSUME Init PROVE TypeInv /\ RunInv
  OBVIOUS
<1>1. Empty \in Tree /\ Sync \in Message
  BY TreeTypes
<1>2. \A s \in Subs : Sends(s) /\ Counted(s)
  BY DEF Init, Sends, Counted
<1>3. \A s \in Subs : /\ eventque[s] \in Seq(Event) /\ Len(eventque[s]) <= EventCap
                      /\ respchan[s] \in Seq(Message) /\ Len(respchan[s]) <= RespCap
                      /\ timers[s] \in Seq(BOOLEAN) /\ Len(timers[s]) <= TimerCap
                      /\ outbox[s] \in Seq(Message)
  <2>1. \A s \in Subs : /\ eventque[s] = <<>> /\ respchan[s] = <<>> /\ outbox[s] = <<>>
                        /\ timers[s] = <<>>
    BY DEF Init
  <2>2. /\ Len(<<>>) = 0 /\ <<>> \in Seq(Event) /\ <<>> \in Seq(Message)
        /\ <<>> \in Seq(BOOLEAN)
    OBVIOUS
  <2>3. 0 <= EventCap /\ 0 <= RespCap /\ 0 <= TimerCap
    BY TelemetryAssumption
  <2> QED
    BY <2>1, <2>2, <2>3, Zenon
<1>4. /\ eventque \in [Subs -> Seq(Event)] /\ timers \in [Subs -> Seq(BOOLEAN)] /\ reqs \in [Subs -> Nat]
      /\ respchan \in [Subs -> Seq(Message)] /\ outbox \in [Subs -> Seq(Message)]
  BY DEF Init
<1>5. TypeOK
  BY <1>1, <1>3 DEF Init, TypeOK
<1> QED
  BY <1>2, <1>4, <1>5 DEF TypeInv, RunInv

\* The trees, lists and channels stay within their types and capacities.
THEOREM SpecTypeOK == Spec => []TypeOK
<1>1. TypeInv => TypeOK
  BY DEF TypeInv
<1> QED
  BY <1>1, InitTypeInv, StepTypeInv, PTL DEF Spec

-----------------------------------------------------------------------------
(* sync_response before telemetry *)

\* A message is put into respchan.
LEMMA SyncSent ==
    ASSUME NEW q \in Seq(Message), NEW m \in Message, NEW seen \in BOOLEAN, SyncFirst(q, seen),
           m.kind = "update" => seen \/ HasSync(q)
    PROVE  /\ SyncFirst(Append(q, m), seen)
           /\ HasSync(q) \/ m.kind = "sync" => HasSync(Append(q, m))
<1> DEFINE a == Append(q, m)
<1>1. /\ Len(q) \in Nat /\ Len(a) = Len(q) + 1 /\ a[Len(q) + 1] = m
      /\ \A i \in 1..Len(q) : a[i] = q[i]
  OBVIOUS
<1> HIDE DEF a
<1>2. SyncFirst(a, seen)
  <2> SUFFICES ASSUME NEW i \in 1..Len(a), a[i].kind = "update"
               PROVE  seen \/ \E j \in 1..(i - 1) : a[j].kind = "sync"
    BY DEF SyncFirst
  <2>1. CASE i \in 1..Len(q)
    <3>1. seen \/ \E j \in 1..(i - 1) : q[j].kind = "sync"
      BY <1>1, <2>1 DEF SyncFirst
    <3> QED
      BY <1>1, <2>1, <3>1
  <2>2. CASE i = Len(q) + 1
    BY <1>1, <2>2 DEF HasSync
  <2> QED
    BY <1>1, <2>1, <2>2
<1>3. HasSync(q) \/ m.kind = "sync" => HasSync(a)
  <2>1. 1..Len(q) \subseteq 1..Len(a) /\ Len(q) + 1 \in 1..Len(a)
    BY <1>1
  <2> QED
    BY <1>1, <2>1 DEF HasSync
<1> QED
  BY <1>2, <1>3 DEF a

\* The responder takes the first message of respchan.
LEMMA SyncDelivered ==
    ASSUME NEW q \in Seq(Message), q # <<>>, NEW seen \in BOOLEAN, SyncFirst(q, seen)
    PROVE  /\ Head(q).kind = "update" => seen
           /\ SyncFirst(Tail(q), seen \/ Head(q).kind = "sync")
           /\ HasSync(q) => HasSync(Tail(q)) \/ Head(q).kind = "sync"
<1> DEFINE r == Tail(q)
<1>1. /\ Len(q) \in Nat \ {0} /\ Len(r) = Len(q) - 1 /\ q[1] = Head(q)
      /\ \A i \in 1..Len(r) : r[i] = q[i + 1]
  OBVIOUS
<1> HIDE DEF r
<1>2. Head(q).kind = "update" => seen
  BY <1>1 DEF SyncFirst
<1>3. ASSUME NEW i \in 1..Len(r), r[i].kind = "update"
      PROVE  seen \/ Head(q).kind = "sync" \/ \E j \in 1..(i - 1) : r[j].kind = "sync"
  <2>1. i + 1 \in 1..Len(q) /\ q[i + 1].kind = "update"
    BY <1>1, <1>3
  <2>2. CASE \E j \in 1..i : q[j].kind = "sync"
    <3>1. PICK j \in 1..i : q[j].kind = "sync"
      BY <2>2
    <3>2. CASE j = 1
      BY <1>1, <3>1, <3>2
    <3>3. CASE j # 1
      <4>1. j - 1 \in 1..(i - 1) /\ j - 1 \in 1..Len(r) /\ r[j - 1] = q[(j - 1) + 1]
        BY <1>1, <3>3
      <4> QED
        BY <3>1, <4>1
    <3> QED
      BY <3>2, <3>3
  <2> QED
    BY <2>1, <2>2 DEF SyncFirst
<1>4. ASSUME HasSync(q), Head(q).kind # "sync" PROVE HasSync(r)
  <2>1. PICK j \in 1..Len(q) : q[j].kind = "sync"
    BY <1>4 DEF HasSync
  <2>2. j - 1 \in 1..Len(r) /\ r[j - 1] = q[(j - 1) + 1] /\ (j - 1) + 1 = j
    BY <1>1, <1>4, <2>1
  <2> QED
    BY <2>1, <2>2 DEF HasSync
<1> QED
  BY <1>2, <1>3, <1>4 DEF r, SyncFirst

\* Every step keeps the order: initTelemetryUpdate puts sync_response into
\* respchan before the subscription is added and started.
LEMMA StepSyncInv == TypeInv /\ RunInv /\ SyncInv /\ [Next]_vars => SyncInv'
<1> SUFFICES ASSUME TypeInv, RunInv, SyncInv, [Next]_vars, NEW t \in Subs PROVE SyncsFirst(t)'
  BY DEF SyncInv
<1>0. /\ SyncsFirst(t) /\ Sends(t) /\ Counted(t)
      /\ respchan \in [Subs -> Seq(Message)] /\ outbox \in [Subs -> Seq(Message)]
      /\ at \in [Subs -> Places] /\ run \in [Subs -> {"none", "wait", "read", "send", "quit", "stuck"}]
      /\ synced \in [Subs -> BOOLEAN] /\ early \in [Subs -> BOOLEAN]
      /\ respchan[t] \in Seq(Message) /\ outbox[t] \in Seq(Message) /\ synced[t] \in BOOLEAN
  BY DEF TypeInv, TypeOK, SyncInv, RunInv, Places
<1>1. ASSUME respchan'[t] = respchan[t], synced'[t] = synced[t], early'[t] = early[t],
             \/ at'[t] = at[t]
             \/ at'[t] \notin {"add", "info", "start"}
             \/ at[t] \in {"add", "info", "start"},
             run'[t] = "none" \/ run[t] # "none" \/ at[t] \in {"add", "info", "start"}
      PROVE  SyncsFirst(t)'
  BY <1>0, <1>1 DEF SyncsFirst
<1>2. CASE Transaction \/ UNCHANGED vars
  <2>1. UNCHANGED <<respchan, synced, early, at, run>>
    BY <1>2 DEF Transaction, UpdateStart, UpdateCreate, UpdateReplace, UpdateDelete,
       updateTeleEvent, ChangeCompleted, SendEvent, UpdateEnd, SetSilently, session, subscription,
       client, vars
  <2> QED
    BY <1>1, <2>1
<1>3. ASSUME NEW s \in Subs,
             \/ \E p \in Paths : Request(s, p)
             \/ InitRead(s) \/ AddPath(s) \/ AddInfo(s) \/ DeleteInfo(s) \/ Unregister(s)
             \/ Close(s) \/ Refuse(s) \/ StreamEnds(s)
      PROVE  SyncsFirst(t)'
  <2>1. UNCHANGED <<respchan, synced, early, run>>
    BY <1>3 DEF Request, InitRead, AddPath, AddInfo, DeleteInfo, Unregister, Close, Refuse,
                StreamEnds, subscription, client
  <2>2. \E a : at' = [at EXCEPT ![s] = a]
               /\ (a \in {"add", "info", "start"} => at[s] \in {"add", "info", "start"})
    BY <1>3 DEF Request, InitRead, AddPath, AddInfo, DeleteInfo, Unregister, Close, Refuse,
                StreamEnds, Set
  <2>3. at'[t] = at[t] \/ at'[t] \notin {"add", "info", "start"} \/ at[t] \in {"add", "info", "start"}
    BY <1>0, <2>2
  <2> QED
    BY <1>1, <2>1, <2>3
<1>4. ASSUME NEW s \in Subs, StartTelemetryUpdate(s) PROVE SyncsFirst(t)'
  <2>1. UNCHANGED <<respchan, synced, early>> /\ at[s] = "start"
        /\ at' = [at EXCEPT ![s] = "recv"]
        /\ (run' = [run EXCEPT ![s] = "wait"] \/ run' = run)
    BY <1>4 DEF StartTelemetryUpdate, client, Set
  <2> QED
    BY <1>0, <1>1, <2>1
<1>5. ASSUME NEW s \in Subs, InitSend(s) PROVE SyncsFirst(t)'
  <2>1. /\ UNCHANGED <<synced, early, run>>
        /\ respchan' = [respchan EXCEPT ![s] = Append(respchan[s], Head(outbox[s]))]
        /\ at[s] = "sending"
        /\ at' = [at EXCEPT ![s] = IF Len(outbox[s]) = 1 THEN "add" ELSE "sending"]
    BY <1>5 DEF InitSend, subscription, client, Set
  <2>2. CASE t # s
    BY <1>0, <1>1, <2>1, <2>2
  <2>3. CASE t = s
    <3>1. /\ Head(outbox[t]) \in Message /\ Head(outbox[t]).kind # "update"
          /\ Len(outbox[t]) = 1 => Head(outbox[t]).kind = "sync"
      BY <1>0, <2>1, <2>3, OutboxStep, TreeTypes DEF Sends
    <3>2. /\ SyncFirst(respchan'[t], synced[t])
          /\ HasSync(respchan[t]) \/ Head(outbox[t]).kind = "sync" => HasSync(respchan'[t])
      BY <1>0, <2>1, <2>3, <3>1, SyncSent DEF SyncsFirst
    <3> QED
      BY <1>0, <2>1, <2>3, <3>1, <3>2 DEF SyncsFirst
  <2> QED
    BY <2>2, <2>3
<1>6. ASSUME NEW s \in Subs, Closed(s) PROVE SyncsFirst(t)'
  <2>1. /\ UNCHANGED <<synced, early, run>> /\ runners[s] = 0
        /\ respchan' = [respchan EXCEPT ![s] = <<>>]
        /\ at' = [at EXCEPT ![s] = "closed"]
    BY <1>6 DEF Closed, subscription, client, Set
  <2>2. CASE t # s
    BY <1>0, <1>1, <2>1, <2>2
  <2>3. CASE t = s
    <3>1. run[t] = "none"
      BY <1>0, <2>1, <2>3 DEF Counted
    <3>2. SyncFirst(<<>>, synced[t])
      BY DEF SyncFirst
    <3> QED
      BY <1>0, <2>1, <2>3, <3>1, <3>2 DEF SyncsFirst
  <2> QED
    BY <2>2, <2>3
<1>7. ASSUME NEW s \in Subs,
             \/ ReceiveEvent(s) \/ ReadTree(s) \/ SendPanics(s) \/ UpdateError(s)
             \/ Shutdown(s) \/ Timer(s) \/ ReceiveTimer(s) \/ ClearStarted(s) \/ RunDone(s)
      PROVE  SyncsFirst(t)'
  <2>1. UNCHANGED <<respchan, synced, early, at>>
    BY <1>7 DEF ReceiveEvent, ReadTree, SendPanics, UpdateError, Shutdown, RunReturns, Timer,
                TimerFires, TimerJams, ReceiveTimer, ClearStarted, RunDone, session, client
  <2>2. run' = run \/ (run[s] # "none" /\ \E r : run' = [run EXCEPT ![s] = r])
    BY <1>7 DEF ReceiveEvent, ReadTree, SendPanics, UpdateError, Shutdown, RunReturns, Timer,
                TimerFires, TimerJams, ReceiveTimer, ClearStarted, RunDone, subscription, Set
  <2>3. run'[t] = run[t] \/ run[t] # "none"
    BY <1>0, <2>2
  <2> QED
    BY <1>1, <2>1, <2>3
<1>8. ASSUME NEW s \in Subs, SendUpdate(s) PROVE SyncsFirst(t)'
  <2>1. /\ UNCHANGED <<synced, early, at>> /\ run[s] = "send"
        /\ respchan' = [respchan EXCEPT ![s] = Append(respchan[s], message[s])]
        /\ run' = [run EXCEPT ![s] = "wait"] /\ message[s] \in Message
    BY <1>8 DEF SendUpdate, session, client, Set, TypeInv, TypeOK
  <2>2. CASE t # s
    BY <1>0, <1>1, <2>1, <2>2
  <2>3. CASE t = s
    <3>1. synced[t] \/ HasSync(respchan[t])
      BY <1>0, <2>1, <2>3 DEF SyncsFirst
    <3>2. /\ SyncFirst(respchan'[t], synced[t])
          /\ HasSync(respchan[t]) => HasSync(respchan'[t])
      BY <1>0, <2>1, <2>3, <3>1, SyncSent DEF SyncsFirst
    <3> QED
      BY <1>0, <2>1, <2>3, <3>1, <3>2 DEF SyncsFirst
  <2> QED
    BY <2>2, <2>3
<1>9. ASSUME NEW s \in Subs, Deliver(s) PROVE SyncsFirst(t)'
  <2> DEFINE m == Head(respchan[s])
  <2>1. /\ UNCHANGED <<at, run>> /\ respchan[s] # <<>>
        /\ synced' = [synced EXCEPT ![s] = synced[s] \/ m.kind = "sync"]
        /\ early' = [early EXCEPT ![s] = early[s] \/ (m.kind = "update" /\ ~synced[s])]
        /\ respchan' = [respchan EXCEPT ![s] = Tail(respchan[s])]
    BY <1>9 DEF Deliver, session, subscription, Set
  <2>2. CASE t # s
    BY <1>0, <1>1, <2>1, <2>2
  <2>3. CASE t = s
    <3>1. /\ m.kind = "update" => synced[t]
          /\ SyncFirst(Tail(respchan[t]), synced[t] \/ m.kind = "sync")
          /\ HasSync(respchan[t]) => HasSync(Tail(respchan[t])) \/ m.kind = "sync"
      BY <1>0, <2>1, <2>3, SyncDelivered DEF SyncsFirst
    <3>2. /\ synced'[t] = (synced[t] \/ m.kind = "sync")
          /\ early'[t] = (early[t] \/ (m.kind = "update" /\ ~synced[t]))
          /\ respchan'[t] = Tail(respchan[t])
      BY <1>0, <2>1, <2>3
    <3> QED
      BY <1>0, <2>1, <3>1, <3>2 DEF SyncsFirst
  <2> QED
    BY <2>2, <2>3
<1> QED
  BY <1>2, <1>3, <1>4, <1>5, <1>6, <1>7, <1>8, <1>9 DEF Next, Runner, Proceed, Finished

\* No telemetry update reaches a client before a sync_response, for any number
\* of requests, failures and restarts of the goroutine.
THEOREM SpecSyncedBeforeTelemetry == Spec => []SyncedBeforeTelemetry
<1>1. ASSUME Init PROVE SyncInv
  <2>1. \A s \in Subs : /\ respchan[s] = <<>> /\ ~early[s]
                        /\ at[s] = "recv" /\ run[s] = "none"
    BY <1>1 DEF Init
  <2>2. \A seen : SyncFirst(<<>>, seen)
    BY DEF SyncFirst
  <2> QED
    BY <2>1, <2>2 DEF SyncInv, SyncsFirst
<1>2. SyncInv => SyncedBeforeTelemetry
  BY DEF SyncInv, SyncsFirst, SyncedBeforeTelemetry
<1> QED
  BY <1>1, <1>2, InitTypeInv, StepTypeInv, StepRunInv, StepSyncInv, PTL DEF Spec

-----------------------------------------------------------------------------
(* The client's copy *)

\* The last word on a leaf when a message is put into respchan.
LEMMA WordSent ==
    ASSUME NEW q \in Seq(Message), NEW m \in Message, NEW p
    PROVE  /\ Speaks(m, p) => Says(Append(q, m), p, m.updates[p])
           /\ ~Speaks(m, p) => /\ \A v : Says(q, p, v) => Says(Append(q, m), p, v)
                               /\ Silent(q, p) => Silent(Append(q, m), p)
<1> DEFINE a == Append(q, m)
<1>1. /\ Len(q) \in Nat /\ Len(a) = Len(q) + 1 /\ a[Len(q) + 1] = m
      /\ \A i \in 1..Len(q) : a[i] = q[i]
  OBVIOUS
<1> HIDE DEF a
<1>2. ASSUME Speaks(m, p) PROVE Says(a, p, m.updates[p])
  BY <1>1, <1>2 DEF Says
<1>3. ASSUME ~Speaks(m, p), NEW v, Says(q, p, v) PROVE Says(a, p, v)
  <2>1. PICK i \in 1..Len(q) :
          /\ Speaks(q[i], p) /\ q[i].updates[p] = v
          /\ \A j \in (i + 1)..Len(q) : ~Speaks(q[j], p)
    BY <1>3 DEF Says
  <2>2. i \in 1..Len(a) /\ a[i] = q[i]
    BY <1>1
  <2>3. ASSUME NEW j \in (i + 1)..Len(a) PROVE ~Speaks(a[j], p)
    <3>1. (j \in (i + 1)..Len(q) /\ a[j] = q[j]) \/ a[j] = m
      BY <1>1, <2>1
    <3> QED
      BY <1>3, <2>1, <3>1
  <2> QED
    BY <2>1, <2>2, <2>3 DEF Says
<1>4. ASSUME ~Speaks(m, p), Silent(q, p) PROVE Silent(a, p)
  <2>1. ASSUME NEW j \in 1..Len(a) PROVE ~Speaks(a[j], p)
    <3>1. (j \in 1..Len(q) /\ a[j] = q[j]) \/ a[j] = m
      BY <1>1
    <3> QED
      BY <1>4, <3>1 DEF Silent
  <2> QED
    BY <2>1 DEF Silent
<1> QED
  BY <1>2, <1>3, <1>4 DEF a

\* The client's copy of p after message m.
Applied(m, p, w) ==
    IF m.updates[p] # None THEN m.updates[p] ELSE IF p \in m.deletes THEN None ELSE w

\* The last word is the same after the first message is delivered.
LEMMA WordDelivered ==
    ASSUME NEW q \in Seq(Message), q # <<>>, NEW p, NEW v, NEW w,
           Says(q, p, v) \/ (Silent(q, p) /\ w = v)
    PROVE  Says(Tail(q), p, v) \/ (Silent(Tail(q), p) /\ Applied(Head(q), p, w) = v)
<1> DEFINE r == Tail(q)
<1>1. /\ Len(q) \in Nat \ {0} /\ Len(r) = Len(q) - 1 /\ q[1] = Head(q)
      /\ \A i \in 1..Len(r) : r[i] = q[i + 1]
  OBVIOUS
<1> HIDE DEF r
<1>2. CASE Says(q, p, v)
  <2>1. PICK i \in 1..Len(q) :
          /\ Speaks(q[i], p) /\ q[i].updates[p] = v
          /\ \A j \in (i + 1)..Len(q) : ~Speaks(q[j], p)
    BY <1>2 DEF Says
  <2>2. \A j \in 1..Len(r) : j + 1 \in 1..Len(q) /\ r[j] = q[j + 1]
    BY <1>1
  <2>3. CASE i = 1
    <3>1. ASSUME NEW j \in 1..Len(r) PROVE ~Speaks(r[j], p)
      <4>1. j + 1 \in (i + 1)..Len(q)
        BY <1>1, <2>3
      <4> QED
        BY <2>1, <2>2, <4>1
    <3>2. Applied(Head(q), p, w) = v
      BY <1>1, <2>1, <2>3 DEF Applied, Speaks
    <3> QED
      BY <3>1, <3>2 DEF Silent, r
  <2>4. CASE i # 1
    <3>1. i - 1 \in 1..Len(r) /\ r[i - 1] = q[i]
      <4>1. i - 1 \in 1..Len(r) /\ (i - 1) + 1 = i
        BY <1>1, <2>4
      <4> QED
        BY <1>1, <4>1
    <3>2. ASSUME NEW j \in ((i - 1) + 1)..Len(r) PROVE ~Speaks(r[j], p)
      <4>1. j \in 1..Len(r) /\ j + 1 \in (i + 1)..Len(q)
        BY <1>1, <2>1
      <4> QED
        BY <2>1, <2>2, <4>1
    <3> QED
      BY <2>1, <3>1, <3>2 DEF Says, r
  <2> QED
    BY <2>3, <2>4
<1>3. CASE Silent(q, p) /\ w = v
  <2>1. ~Speaks(Head(q), p)
    BY <1>1, <1>3 DEF Silent
  <2>2. Applied(Head(q), p, w) = v
    BY <1>3, <2>1 DEF Applied, Speaks
  <2>3. ASSUME NEW j \in 1..Len(r) PROVE ~Speaks(r[j], p)
    <3>1. j + 1 \in 1..Len(q)
      BY <1>1
    <3> QED
      BY <1>1, <1>3, <3>1 DEF Silent
  <2> QED
    BY <2>2, <2>3 DEF Silent, r
<1> QED
  BY <1>2, <1>3

\* The last event of a queue.
LEMMA LastOfTail ==
    ASSUME NEW q \in Seq(Event), q # <<>>
    PROVE  /\ Tail(q) = <<>> => Head(q) = q[Len(q)]
           /\ Tail(q) # <<>> => Tail(q)[Len(Tail(q))] = q[Len(q)]
<1>1. /\ Len(q) \in Nat \ {0} /\ Len(Tail(q)) = Len(q) - 1 /\ q[1] = Head(q)
      /\ \A i \in 1..Len(Tail(q)) : Tail(q)[i] = q[i + 1]
  OBVIOUS
<1>0. Tail(q) = <<>> <=> Len(Tail(q)) = 0
  <2>1. \A r \in Seq(Event) : r = <<>> <=> Len(r) = 0
    OBVIOUS
  <2>2. Tail(q) \in Seq(Event)
    OBVIOUS
  <2> QED
    BY <2>1, <2>2
<1>2. CASE Len(q) = 1
  BY <1>0, <1>1, <1>2
<1>3. CASE Len(q) # 1
  <2>1. Len(Tail(q)) \in 1..Len(Tail(q)) /\ Len(Tail(q)) + 1 = Len(q)
    BY <1>1, <1>3
  <2> QED
    BY <1>0, <1>1, <1>3, <2>1
<1> QED
  BY <1>2, <1>3

\* The last event after one is put into the queue.
LEMMA LastAppended ==
    ASSUME NEW q \in Seq(Event), NEW e \in Event
    PROVE  Append(q, e) # <<>> /\ Append(q, e)[Len(Append(q, e))] = e
<1> DEFINE a == Append(q, e)
<1>1. Len(a) = Len(q) + 1 /\ a[Len(q) + 1] = e /\ Len(q) \in Nat
  OBVIOUS
<1> HIDE DEF a
<1>2. a # <<>> /\ a[Len(a)] = e
  BY <1>1
<1> QED
  BY <1>2 DEF a

\* Nothing happens to session t, but perhaps to the mark and the bounds.
SameSession(t) ==
    /\ at'[t] = at[t] /\ req'[t] = req[t] /\ outbox'[t] = outbox[t]
    /\ paths'[t] = paths[t] /\ run'[t] = run[t] /\ from'[t] = from[t]
    /\ updatedList'[t] = updatedList[t] /\ deletedList'[t] = deletedList[t]
    /\ message'[t] = message[t] /\ eventque'[t] = eventque[t]
    /\ respchan'[t] = respchan[t] /\ view'[t] = view[t] /\ reqs'[t] = reqs[t]
    /\ \A p \in Paths : t \in lookup'[p] <=> t \in lookup[p]

\* Such a session is followed as before, while the data and its events stay.
LEMMA FollowedAsBefore ==
    ASSUME NEW t \in Subs, SameSession(t), Followed(t),
           req[t] \in Paths => db'[req[t]] = db[req[t]] /\ updatedroot'[req[t]] = updatedroot[req[t]],
           ready'[t] = ready[t], req[t] \in missed'[t] <=> req[t] \in missed[t]
    PROVE  Followed(t)'
<1>1. Subscribed(t)'
  BY DEF SameSession, Followed, Subscribed
<1>2. Registered(t)' <=> Registered(t)
  BY DEF SameSession, Registered
<1>3. Live(t)' <=> Live(t)
  BY DEF SameSession, Live
<1>4. Fresh(t)'
  BY <1>2, <1>3 DEF SameSession, Followed, Fresh
<1>5. AllDeletes(t)'
  BY DEF SameSession, Followed, AllDeletes
<1>6. ASSUME Live(t), req[t] \in Paths
      PROVE  /\ LatestEvent(t)' <=> LatestEvent(t)
             /\ NoEvents(t)' <=> NoEvents(t)
             /\ LatestMessage(t)' <=> LatestMessage(t)
             /\ OnItsWay(t)' <=> OnItsWay(t)
  <2>1. LatestEvent(t)' <=> LatestEvent(t)
    BY <1>6 DEF SameSession, LatestEvent, Current
  <2>2. NoEvents(t)' <=> NoEvents(t)
    BY DEF SameSession, NoEvents
  <2>3. LatestMessage(t)' <=> LatestMessage(t)
    BY <1>6 DEF SameSession, LatestMessage
  <2>4. WillBe(t, db[req[t]])' <=> WillBe(t, db[req[t]])
    BY <1>6 DEF SameSession, WillBe
  <2>5. OnItsWay(t)' <=> OnItsWay(t)
    BY <1>6, <2>4 DEF SameSession, OnItsWay
  <2> QED
    BY <2>1, <2>2, <2>3, <2>5
<1>7. Follows(t)'
  BY <1>3, <1>6 DEF SameSession, Followed, Follows
<1> QED
  BY <1>1, <1>4, <1>5, <1>7 DEF Followed

\* A change of the data: its subscribers get an event with the new value, the
\* others have missed it.
LEMMA ChangeFollowed ==
    ASSUME TypeInv, ViewInv, NEW p \in Paths,
           \/ \E v \in Values : UpdateCreate(p, v) \/ UpdateReplace(p, v)
           \/ UpdateDelete(p)
    PROVE  ViewInv'
<1> USE TelemetryAssumption, NoneAssumption
<1>1. PICK v \in Values \cup {None}, updated \in SUBSET {p}, deleted \in SUBSET {p} :
        /\ updateTeleEvent(p, updated, deleted) /\ tx \in {"write", "delete"}
        /\ db' = [db EXCEPT ![p] = v]
        /\ \/ v # None /\ updatedroot' = [updatedroot EXCEPT ![p] = v]
           \/ v = None /\ tx = "delete" /\ UNCHANGED updatedroot
        /\ p \in updated \cup deleted
        /\ v = None => p \in deleted
        /\ tx = "delete" => v = None
  <2>1. CASE \E v \in Values : UpdateCreate(p, v)
    <3>1. PICK v \in Values : UpdateCreate(p, v)
      BY <2>1
    <3>2. /\ updateTeleEvent(p, {p}, {}) /\ tx = "write" /\ db' = [db EXCEPT ![p] = v]
          /\ v # None /\ updatedroot' = [updatedroot EXCEPT ![p] = v]
      BY <3>1 DEF UpdateCreate, Set
    <3> WITNESS v \in Values \cup {None}, {p} \in SUBSET {p}, {} \in SUBSET {p}
    <3> QED
      BY <3>2
  <2>2. CASE \E v \in Values : UpdateReplace(p, v)
    <3>1. PICK v \in Values : UpdateReplace(p, v)
      BY <2>2
    <3>2. /\ updateTeleEvent(p, {p}, {p}) /\ tx = "write" /\ db' = [db EXCEPT ![p] = v]
          /\ v # None /\ updatedroot' = [updatedroot EXCEPT ![p] = v]
      BY <3>1 DEF UpdateReplace, Set
    <3> WITNESS v \in Values \cup {None}, {p} \in SUBSET {p}, {p} \in SUBSET {p}
    <3> QED
      BY <3>2
  <2>3. CASE UpdateDelete(p)
    <3>1. /\ updateTeleEvent(p, {}, {p}) /\ tx = "delete" /\ db' = [db EXCEPT ![p] = None]
          /\ UNCHANGED updatedroot
      BY <2>3 DEF UpdateDelete, Set
    <3> WITNESS None \in Values \cup {None}, {} \in SUBSET {p}, {p} \in SUBSET {p}
    <3> QED
      BY <3>1
  <2> QED
    BY <2>1, <2>2, <2>3
<1>2. /\ db \in Tree /\ updatedroot \in Tree /\ ready \in [Subs -> Event \cup {None}]
      /\ missed \in [Subs -> SUBSET Paths]
  BY DEF TypeInv, TypeOK
<1>3. \A q \in Paths : q # p => db'[q] = db[q] /\ updatedroot'[q] = updatedroot[q]
  BY <1>1, <1>2 DEF Tree
<1>4. db'[p] = v /\ updatedroot'[p] = v
  <2>1. tx = "delete" => updatedroot[p] = None
    BY DEF ViewInv, Changes, Empty
  <2> QED
    BY <1>1, <1>2, <2>1 DEF Tree
<1>5. Changes'
  <2>1. UNCHANGED <<tx, at, run>>
    BY <1>1 DEF updateTeleEvent, session, subscription
  <2>2. tx = "delete" => updatedroot' = updatedroot
    BY <1>1
  <2> QED
    BY <1>1, <2>1, <2>2 DEF ViewInv, Changes
<1>6. ASSUME NEW t \in Subs PROVE Followed(t)'
  <2>1. SameSession(t) /\ Followed(t) /\ at[t] # "sending" /\ run[t] # "send"
    BY <1>1 DEF updateTeleEvent, session, subscription, client, bounds, SameSession, ViewInv, Changes
  <2>2. t \in lookup[p] => p = req[t]
    BY <2>1 DEF Followed, Subscribed
  <2>3. /\ t \notin lookup[p] => ready'[t] = ready[t] /\ missed'[t] = missed[t] \cup {p}
        /\ t \in lookup[p] => missed'[t] = missed[t] \ {p}
    BY <1>1 DEF updateTeleEvent
  <2>4. CASE p # req[t]
    BY <1>3, <2>1, <2>2, <2>3, <2>4, FollowedAsBefore
  <2>5. CASE p = req[t] /\ t \in lookup[p]
    <3>1. ready'[t] # None /\ p \in ready'[t].updated \cup ready'[t].deleted
          /\ (v = None => p \in ready'[t].deleted)
      <4> DEFINE e == IF ready[t] = None THEN [updated |-> {}, deleted |-> {}, root |-> Empty]
                                         ELSE ready[t]
                 n == [e EXCEPT !.updated = e.updated \cup updated, !.deleted = e.deleted \cup deleted]
      <4>1. e \in Event
        BY <1>2, TreeTypes DEF Event
      <4>2. ready'[t] = n
        BY <1>1, <2>5 DEF updateTeleEvent
      <4>3. n \in Event /\ n.updated = e.updated \cup updated /\ n.deleted = e.deleted \cup deleted
        BY <4>1 DEF Event
      <4> HIDE DEF n, e
      <4> QED
        BY <1>1, <4>2, <4>3
    <3>2. Subscribed(t)'
      BY <2>1 DEF SameSession, Followed, Subscribed
    <3>3. AllDeletes(t)'
      BY <2>1 DEF SameSession, Followed, AllDeletes
    <3>4. Registered(t)' /\ p \in paths'[t] /\ p # None /\ req'[t] = p /\ p \notin missed'[t]
      BY <2>1, <2>3, <2>5 DEF SameSession, Registered, Followed, Subscribed
    <3>5. Fresh(t)'
      BY <3>4 DEF Fresh
    <3>6. LatestEvent(t)' /\ ~NoEvents(t)'
      BY <1>4, <3>1, <3>4 DEF LatestEvent, NoEvents, Current
    <3>7. Follows(t)'
      BY <2>1, <3>6 DEF Follows, SameSession
    <3> QED
      BY <3>2, <3>3, <3>5, <3>7 DEF Followed
  <2>6. CASE p = req[t] /\ t \notin lookup[p]
    <3>1. ~Registered(t) /\ ~Registered(t)'
      BY <2>1, <2>6 DEF Registered, SameSession
    <3>2. Subscribed(t)'
      BY <2>1 DEF SameSession, Followed, Subscribed
    <3>3. AllDeletes(t)'
      BY <2>1 DEF SameSession, Followed, AllDeletes
    <3>4. Live(t)' => NoEvents(t)' /\ run'[t] = "none"
      BY <2>1, <2>3, <2>6, <3>1 DEF SameSession, Followed, Fresh, NoEvents, Live
    <3>5. Fresh(t)'
      BY <2>1, <3>4 DEF SameSession, Followed, Fresh, NoEvents, Live
    <3>6. req'[t] \in missed'[t] /\ at'[t] # "sending"
      BY <2>1, <2>3, <2>6 DEF SameSession
    <3>7. Follows(t)'
      BY <3>6 DEF Follows
    <3> QED
      BY <3>2, <3>3, <3>5, <3>7 DEF Followed
  <2> QED
    BY <2>4, <2>5, <2>6
<1> QED
  BY <1>5, <1>6 DEF ViewInv

\* The other steps of a transaction: an event moves to the queue with the tree
\* of all changes.
LEMMA TransactionFollowed ==
    ASSUME TypeInv, ViewInv, Transaction
    PROVE  ViewInv'
<1> USE TelemetryAssumption, NoneAssumption
<1>1. ASSUME NEW kind \in {"write", "delete"}, UpdateStart(kind) PROVE ViewInv'
  <2>1. /\ tx = "none" /\ tx' = kind /\ updatedroot' = updatedroot /\ db' = db
        /\ \A s \in Subs : at[s] # "sending" /\ run[s] # "send"
        /\ UNCHANGED <<at, run, missed>>
    BY <1>1 DEF UpdateStart, CanLock, session, subscription
  <2>2. \A t \in Subs : ready[t] = None /\ ready'[t] = None
    BY <1>1, <2>1 DEF UpdateStart, ViewInv, Changes
  <2>3. Changes'
    BY <2>1 DEF ViewInv, Changes
  <2>4. \A t \in Subs : SameSession(t)
    BY <1>1 DEF UpdateStart, session, subscription, client, SameSession
  <2>5. \A t \in Subs : Followed(t)'
    BY <2>1, <2>2, <2>4, FollowedAsBefore DEF ViewInv
  <2> QED
    BY <2>3, <2>5 DEF ViewInv
<1>2. CASE ChangeCompleted
  <2>1. /\ tx' = "ending" /\ UNCHANGED <<updatedroot, db, ready, at, run, missed>>
        /\ tx # "none"
    BY <1>2 DEF ChangeCompleted, session, subscription
  <2>2. Changes'
    BY <2>1 DEF ViewInv, Changes
  <2>3. \A t \in Subs : SameSession(t)
    BY <1>2 DEF ChangeCompleted, session, subscription, client, bounds, SameSession
  <2>4. \A t \in Subs : Followed(t)'
    BY <2>1, <2>3, FollowedAsBefore DEF ViewInv
  <2> QED
    BY <2>2, <2>4 DEF ViewInv
<1>3. CASE UpdateEnd
  <2>1. /\ tx' = "none" /\ updatedroot' = Empty /\ UNCHANGED <<db, ready, at, run, missed>>
        /\ \A t \in Subs : ready[t] = None
    BY <1>3 DEF UpdateEnd, session, subscription
  <2>2. Changes'
    BY <2>1 DEF ViewInv, Changes
  <2>3. ASSUME NEW t \in Subs PROVE Followed(t)'
    <3>1. SameSession(t) /\ Followed(t)
      BY <1>3 DEF UpdateEnd, session, subscription, client, bounds, SameSession, ViewInv
    <3>2. Subscribed(t)' /\ AllDeletes(t)' /\ (Live(t)' <=> Live(t))
          /\ (Registered(t)' <=> Registered(t))
      BY <3>1 DEF SameSession, Followed, Subscribed, AllDeletes, Live, Registered
    <3>3. Fresh(t)'
      BY <2>1, <3>1, <3>2 DEF SameSession, Followed, Fresh
    <3>4. (LatestEvent(t)' <=> LatestEvent(t)) /\ (NoEvents(t)' <=> NoEvents(t))
          /\ (LatestMessage(t)' <=> LatestMessage(t))
      BY <2>1, <3>1 DEF SameSession, LatestEvent, NoEvents, LatestMessage, Current
    <3>5. WillBe(t, db[req[t]])' <=> WillBe(t, db[req[t]])
      BY <2>1, <3>1 DEF SameSession, WillBe
    <3>6. OnItsWay(t)' <=> OnItsWay(t)
      BY <2>1, <3>1, <3>5 DEF SameSession, OnItsWay
    <3>7. Follows(t)'
      BY <2>1, <3>1, <3>2, <3>4, <3>6 DEF SameSession, Followed, Follows
    <3> QED
      BY <3>2, <3>3, <3>7 DEF Followed
  <2> QED
    BY <2>2, <2>3 DEF ViewInv
<1>4. ASSUME NEW s \in Subs, SendEvent(s) PROVE ViewInv'
  <2> DEFINE e == [ready[s] EXCEPT !.root = updatedroot]
  <2>1. /\ ready[s] \in Event /\ updatedroot \in Tree /\ eventque[s] \in Seq(Event)
        /\ eventque \in [Subs -> Seq(Event)] /\ ready \in [Subs -> Event \cup {None}]
    BY <1>4 DEF SendEvent, TypeInv, TypeOK
  <2>2. /\ eventque' = [eventque EXCEPT ![s] = Append(eventque[s], e)] /\ tx = "ending"
        /\ ready' = [ready EXCEPT ![s] = None]
        /\ UNCHANGED <<tx, db, updatedroot, at, run, missed>>
    BY <1>4 DEF SendEvent, Set, session, subscription
  <2>3. Changes'
    BY <2>2 DEF ViewInv, Changes
  <2>4. ASSUME NEW t \in Subs, t # s PROVE Followed(t)'
    <3>1. SameSession(t) /\ ready'[t] = ready[t]
      BY <1>4, <2>1, <2>2, <2>4 DEF SendEvent, session, subscription, client, bounds, SameSession
    <3> QED
      BY <2>2, <3>1, FollowedAsBefore DEF ViewInv
  <2>5. Followed(s)'
    <3>1. Followed(s) /\ UNCHANGED <<lookup, session, subscription, respchan, client, reqs>>
      BY <1>4 DEF SendEvent, ViewInv, bounds
    <3>2. /\ e.updated = ready[s].updated /\ e.deleted = ready[s].deleted /\ e.root = updatedroot
          /\ e \in Event
      BY <2>1 DEF Event
    <3> HIDE DEF e
    <3>3. ready'[s] = None /\ eventque'[s] # <<>> /\ eventque'[s][Len(eventque'[s])] = e
      <4>1. eventque'[s] = Append(eventque[s], e) /\ ready'[s] = None
        BY <2>1, <2>2
      <4>2. Append(eventque[s], e) # <<>> /\ Append(eventque[s], e)[Len(Append(eventque[s], e))] = e
        BY <2>1, <3>2, LastAppended
      <4> QED
        BY <4>1, <4>2
    <3>4. Subscribed(s)' /\ AllDeletes(s)' /\ (Live(s)' <=> Live(s))
          /\ (Registered(s)' <=> Registered(s))
      BY <2>2, <3>1 DEF Followed, Subscribed, AllDeletes, Live, Registered, session, subscription
    <3>5. Fresh(s)'
      <4>1. Live(s) => Registered(s)
        BY <1>4, <3>1 DEF SendEvent, Followed, Fresh
      <4> QED
        BY <2>2, <3>1, <3>4, <4>1 DEF Followed, Fresh, session, subscription, client
    <3>6. ~NoEvents(s)'
      BY <3>3 DEF NoEvents
    <3>7. Live(s) /\ req[s] \in Paths /\ req[s] \notin missed[s] => LatestEvent(s)'
      <4>1. ASSUME Live(s), req[s] \in Paths, req[s] \notin missed[s]
            PROVE  Current(s, e.updated, e.deleted, e.root)
        BY <1>4, <3>1, <3>2, <4>1 DEF SendEvent, Followed, Follows, LatestEvent
      <4> QED
        BY <2>2, <3>1, <3>3, <4>1 DEF LatestEvent, Current, session
    <3>8. Follows(s)'
      BY <2>2, <3>1, <3>4, <3>6, <3>7 DEF Followed, Follows, session, ViewInv, Changes
    <3> QED
      BY <3>4, <3>5, <3>8 DEF Followed
  <2> QED
    BY <2>3, <2>4, <2>5 DEF ViewInv
<1>5. ASSUME NEW p \in Paths, NEW v \in Values \cup {None}, SetSilently(p, v) PROVE ViewInv'
  <2>1. /\ db' = [db EXCEPT ![p] = v] /\ UNCHANGED <<tx, updatedroot, ready, at, run>>
        /\ \A t \in Subs : at[t] # "sending" /\ missed'[t] = missed[t] \cup {p}
        /\ \A t \in Subs : SameSession(t) /\ Followed(t)
    BY <1>5 DEF SetSilently, CanLock, Set, session, subscription, client, SameSession, ViewInv
  <2>2. Changes'
    BY <2>1 DEF ViewInv, Changes
  <2>3. ASSUME NEW t \in Subs, p # req[t] PROVE Followed(t)'
    <3>1. req[t] \in Paths => db'[req[t]] = db[req[t]]
      BY <2>1, <2>3 DEF TypeInv, TypeOK, Tree
    <3> QED
      BY <2>1, <2>3, <3>1, FollowedAsBefore
  <2>4. ASSUME NEW t \in Subs, p = req[t] PROVE Followed(t)'
    <3>1. /\ Subscribed(t)' /\ AllDeletes(t)' /\ (Live(t)' <=> Live(t))
          /\ (Registered(t)' <=> Registered(t))
      BY <2>1 DEF SameSession, Followed, Subscribed, AllDeletes, Live, Registered
    <3>2. Fresh(t)'
      BY <2>1, <3>1 DEF SameSession, Followed, Fresh
    <3>3. Follows(t)'
      BY <2>1, <2>4 DEF SameSession, Follows
    <3> QED
      BY <3>1, <3>2, <3>3 DEF Followed
  <2> QED
    BY <2>2, <2>3, <2>4 DEF ViewInv
<1> QED
  BY <1>1, <1>2, <1>3, <1>4, <1>5, ChangeFollowed DEF Transaction

\* A step of one session leaves the others alone.
LEMMA OtherSessions ==
    ASSUME TypeInv, NEW s \in Subs, NEW t \in Subs, s # t,
           \/ \E p \in Paths : Request(s, p)
           \/ Proceed(s) \/ Refuse(s) \/ StreamEnds(s) \/ Timer(s) \/ Runner(s) \/ Deliver(s)
    PROVE  SameSession(t) /\ missed'[t] = missed[t] /\ UNCHANGED model
<1>0. /\ lookup \in [Paths -> SUBSET Subs] /\ at \in [Subs -> Places]
      /\ req \in [Subs -> Paths \cup {None}] /\ paths \in [Subs -> SUBSET Paths]
      /\ run \in [Subs -> {"none", "wait", "read", "send", "quit", "stuck"}]
      /\ from \in [Subs -> Tree \cup {None}]
      /\ updatedList \in [Subs -> SUBSET Paths] /\ deletedList \in [Subs -> SUBSET Paths]
      /\ message \in [Subs -> Message] /\ eventque \in [Subs -> Seq(Event)]
      /\ respchan \in [Subs -> Seq(Message)] /\ outbox \in [Subs -> Seq(Message)]
      /\ view \in [Subs -> Tree] /\ missed \in [Subs -> SUBSET Paths] /\ reqs \in [Subs -> Nat]
  BY DEF TypeInv, TypeOK, Places
<1>1. CASE \E p \in Paths : Request(s, p)
  BY <1>0, <1>1 DEF Request, Set, SameSession, subscription, client
<1>2. CASE InitRead(s) \/ InitSend(s) \/ AddPath(s) \/ AddInfo(s) \/ Refuse(s) \/ StreamEnds(s)
  BY <1>0, <1>2 DEF InitRead, InitSend, AddPath, AddInfo, Refuse, StreamEnds, Set, SameSession,
                    subscription, client, bounds
<1>3. CASE StartTelemetryUpdate(s)
  BY <1>0, <1>3 DEF StartTelemetryUpdate, Set, SameSession, client, bounds
<1>4. CASE DeleteInfo(s) \/ Unregister(s) \/ Close(s) \/ Closed(s)
  BY <1>0, <1>4 DEF DeleteInfo, Unregister, Close, Closed, Set, SameSession, subscription, client,
                    bounds
<1>5. CASE ReceiveEvent(s) \/ SendUpdate(s) \/ SendPanics(s)
  BY <1>0, <1>5 DEF ReceiveEvent, SendUpdate, SendPanics, Set, SameSession, session, subscription,
                    client, bounds
<1>6. CASE ReadTree(s)
  BY <1>0, <1>6 DEF ReadTree, Set, SameSession, session, client, bounds
<1>7. CASE UpdateError(s) \/ Shutdown(s) \/ ClearStarted(s) \/ RunDone(s)
  BY <1>0, <1>7 DEF UpdateError, Shutdown, RunReturns, ClearStarted, RunDone, Set, SameSession,
                    session, client, bounds
<1>9. CASE Timer(s) \/ ReceiveTimer(s)
  BY <1>0, <1>9 DEF Timer, TimerFires, TimerJams, ReceiveTimer, Set, SameSession, session, client,
                    bounds
<1>8. CASE Deliver(s)
  BY <1>0, <1>8 DEF Deliver, Set, SameSession, session, subscription, bounds
<1> QED
  BY <1>1, <1>2, <1>3, <1>4, <1>5, <1>6, <1>7, <1>8, <1>9 DEF Proceed, Runner

\* So the invariant is kept if the session itself is followed, and nobody
\* starts to send while a transaction runs.
LEMMA OneSession ==
    ASSUME TypeInv, ViewInv, NEW s \in Subs,
           \/ \E p \in Paths : Request(s, p)
           \/ Proceed(s) \/ Refuse(s) \/ StreamEnds(s) \/ Timer(s) \/ Runner(s) \/ Deliver(s),
           Followed(s)', tx # "none" => at'[s] # "sending" /\ run'[s] # "send"
    PROVE  ViewInv'
<1>1. \A t \in Subs \ {s} : SameSession(t) /\ missed'[t] = missed[t]
  BY OtherSessions
<1>2. UNCHANGED <<db, tx, updatedroot, ready>>
  BY DEF Proceed, Runner, Request, InitRead, InitSend, AddPath, AddInfo, Refuse, StreamEnds,
         StartTelemetryUpdate, DeleteInfo, Unregister, Close, Closed, ReceiveEvent, SendUpdate,
         SendPanics, ReadTree, UpdateError, Shutdown, RunReturns, ClearStarted, RunDone, Timer,
         TimerFires, TimerJams, ReceiveTimer, Deliver, model
<1>3. Changes'
  BY <1>1, <1>2 DEF ViewInv, Changes, SameSession
<1>4. ASSUME NEW t \in Subs, t # s PROVE Followed(t)'
  BY <1>1, <1>2, <1>4, FollowedAsBefore DEF ViewInv
<1> QED
  BY <1>3, <1>4 DEF ViewInv

\* The steps by which a session ends.
LEMMA EndFollowed ==
    ASSUME TypeInv, ViewInv, NEW s \in Subs,
           \/ Refuse(s) \/ StreamEnds(s) \/ DeleteInfo(s) \/ Unregister(s) \/ Close(s) \/ Closed(s)
    PROVE  ViewInv'
<1>0. Followed(s) /\ at \in [Subs -> Places] /\ respchan \in [Subs -> Seq(Message)]
  BY DEF ViewInv, TypeInv, TypeOK, Places
<1>1. /\ at'[s] \in {"stop", "unregister", "close", "wait", "closed"}
      /\ UNCHANGED <<paths, req, reqs, run, message, deletedList, view, tx>>
      /\ \A p \in Paths : s \in lookup'[p] => s \in lookup[p]
      /\ respchan'[s] \in {respchan[s], <<>>}
  BY <1>0 DEF Refuse, StreamEnds, DeleteInfo, Unregister, Close, Closed, Set, subscription, client,
              bounds, model
<1>2. ~Live(s)'
  BY <1>1 DEF Live
<1>3. Subscribed(s)' /\ AllDeletes(s)'
  BY <1>0, <1>1 DEF Followed, Subscribed, AllDeletes
<1>4. Fresh(s)' /\ Follows(s)'
  BY <1>0, <1>1, <1>2 DEF Followed, Fresh, Follows
<1>5. tx # "none" => at'[s] # "sending" /\ run'[s] # "send"
  BY <1>1 DEF ViewInv, Changes
<1> QED
  BY <1>3, <1>4, <1>5, OneSession DEF Followed, Proceed

\* A request is for the leaf of the session.
LEMMA RequestFollowed ==
    ASSUME OneLeafEach, TypeInv, ViewInv, NEW s \in Subs, NEW p \in Paths, Request(s, p)
    PROVE  ViewInv'
<1> USE TelemetryAssumption
<1>0. /\ Followed(s) /\ at \in [Subs -> Places] /\ reqs \in [Subs -> Nat]
      /\ req \in [Subs -> Paths \cup {None}]
  BY DEF ViewInv, TypeInv, TypeOK, Places
<1>1. /\ at[s] = "recv" /\ at'[s] = "init" /\ req'[s] = p /\ reqs[s] < MaxReq
      /\ reqs'[s] = reqs[s] + 1
      /\ UNCHANGED <<db, tx, updatedroot, ready, lookup, outbox, paths, from, updatedList,
                     deletedList, run, message, eventque, respchan, view, missed>>
  BY <1>0 DEF Request, Set, model, subscription, client
<1>2. req[s] \in {None, p} /\ reqs'[s] # 0 /\ p # None
  BY <1>0, <1>1 DEF OneLeafEach, Followed, Subscribed
<1>3. tx # "none" => at'[s] # "sending" /\ run'[s] # "send"
  BY <1>1 DEF ViewInv, Changes
<1>4. Live(s) /\ Live(s)' /\ AllDeletes(s)'
  BY <1>0, <1>1 DEF Live, Followed, AllDeletes
<1>5. CASE req[s] = None
  <2>1. paths[s] = {} /\ ~Registered(s) /\ ~Registered(s)' /\ p \notin paths[s]
    BY <1>0, <1>1, <1>5 DEF Followed, Subscribed, Registered
  <2>2. Subscribed(s)'
    BY <1>0, <1>1, <1>2, <2>1 DEF Followed, Subscribed
  <2>3. NoEvents(s)' /\ run'[s] = "none" /\ respchan'[s] = <<>> /\ view'[s] = Empty
    BY <1>0, <1>1, <1>4, <1>5, <2>1 DEF Followed, Fresh, NoEvents
  <2>4. Fresh(s)'
    BY <2>3 DEF Fresh, NoEvents
  <2>5. Follows(s)'
    BY <1>1, <2>1, <2>3 DEF Follows, LatestEvent, LatestMessage, NoEvents
  <2> QED
    BY <1>3, <1>4, <2>2, <2>4, <2>5, OneSession DEF Followed
<1>6. CASE req[s] = p
  <2>1. p \in paths[s] /\ (Registered(s)' <=> Registered(s))
    BY <1>0, <1>1, <1>2, <1>6 DEF Followed, Subscribed, Registered
  <2>2. Subscribed(s)'
    BY <1>0, <1>1, <1>2, <1>6, <2>1 DEF Followed, Subscribed
  <2>3. Fresh(s)'
    BY <1>0, <1>1, <1>2, <1>4, <1>6, <2>1 DEF Followed, Fresh
  <2>4. /\ LatestEvent(s)' <=> LatestEvent(s)
        /\ LatestMessage(s)' <=> LatestMessage(s)
        /\ NoEvents(s)' <=> NoEvents(s)
    BY <1>1, <1>6 DEF LatestEvent, LatestMessage, NoEvents, Current
  <2>5. WillBe(s, db[req[s]])' <=> WillBe(s, db[req[s]])
    BY <1>1, <1>6 DEF WillBe
  <2>6. OnItsWay(s) => OnItsWay(s)'
    BY <1>1, <1>6, <2>5 DEF OnItsWay
  <2>7. Follows(s)'
    BY <1>0, <1>1, <1>4, <1>6, <2>1, <2>4, <2>6 DEF Followed, Follows
  <2> QED
    BY <1>3, <1>4, <2>2, <2>3, <2>7, OneSession DEF Followed
<1> QED
  BY <1>2, <1>5, <1>6

\* initTelemetryUpdate reads the data.
LEMMA InitReadFollowed ==
    ASSUME TypeInv, ViewInv, NEW s \in Subs, InitRead(s)
    PROVE  ViewInv'
<1> USE TelemetryAssumption
<1>0. /\ Followed(s) /\ Sends(s) /\ at \in [Subs -> Places] /\ outbox \in [Subs -> Seq(Message)]
      /\ missed \in [Subs -> SUBSET Paths]
  BY DEF ViewInv, TypeInv, TypeOK, Places
<1>1. /\ at[s] = "init" /\ at'[s] = "sending" /\ tx = "none"
      /\ outbox'[s] = InitMessages(s)
      /\ missed'[s] = IF Idle(s) /\ (req[s] \in paths[s] => db[req[s]] # None)
                      THEN missed[s] \ {req[s]} ELSE missed[s]
      /\ UNCHANGED <<db, tx, updatedroot, ready, lookup, req, reqs, paths, from, updatedList,
                     deletedList, run, message, eventque, respchan, view>>
  BY <1>0 DEF InitRead, CanRLock, Set, model, subscription, client, bounds
<1>2. req[s] \in Paths /\ req[s] # None /\ req[s] \notin missed[s] \ {req[s]}
  BY <1>0, <1>1 DEF Sends
<1>3. Subscribed(s)' /\ AllDeletes(s)' /\ Live(s) /\ Live(s)' /\ (Registered(s)' <=> Registered(s))
  BY <1>0, <1>1, <1>2 DEF Followed, Subscribed, AllDeletes, Live, Registered
<1>4. Fresh(s)'
  BY <1>0, <1>1, <1>2, <1>3 DEF Followed, Fresh
<1>5. /\ LatestEvent(s)' <=> LatestEvent(s)
      /\ LatestMessage(s)' <=> LatestMessage(s)
      /\ NoEvents(s)' <=> NoEvents(s)
  BY <1>1 DEF LatestEvent, LatestMessage, NoEvents, Current
<1> DEFINE m == [kind |-> "init", updates |-> Only(db, {req[s]}), deletes |-> {}]
<1>6. /\ m.updates[req[s]] = db[req[s]] /\ m.deletes = {}
      /\ ~Speaks(Sync, req[s])
  BY <1>2 DEF Only, Speaks, Sync, Empty
<1>7. /\ \A i \in 1..Len(outbox'[s]) :
           Speaks(outbox'[s][i], req[s]) => outbox'[s][i].updates[req[s]] = db[req[s]]
      /\ db[req[s]] # None => \E i \in 1..Len(outbox'[s]) : Speaks(outbox'[s][i], req[s])
  <2>1. CASE db[req[s]] = None
    <3>1. outbox'[s] = <<Sync>>
      BY <1>1, <2>1 DEF InitMessages
    <3>2. \A i \in 1..Len(<<Sync>>) : <<Sync>>[i] = Sync
      OBVIOUS
    <3> QED
      BY <1>6, <2>1, <3>1, <3>2
  <2>2. CASE db[req[s]] # None
    <3>1. outbox'[s] = <<m, Sync>>
      BY <1>1, <2>2 DEF InitMessages
    <3>2. Speaks(m, req[s])
      BY <1>6, <2>2 DEF Speaks
    <3> HIDE DEF m
    <3>3. Len(<<m, Sync>>) = 2 /\ <<m, Sync>>[1] = m /\ <<m, Sync>>[2] = Sync
      OBVIOUS
    <3> QED
      BY <1>6, <2>2, <3>1, <3>2, <3>3
  <2> QED
    BY <2>1, <2>2
<1>8. WillBe(s, db[req[s]])' <=> WillBe(s, db[req[s]])
  BY <1>1 DEF WillBe
<1>12. ready[s] = None
  BY <1>1 DEF ViewInv, Changes
<1>13. ASSUME req[s] \notin missed'[s]
       PROVE  LatestEvent(s)' /\ (NoEvents(s)' => LatestMessage(s)')
  <2>1. CASE req[s] \notin missed[s]
    BY <1>0, <1>2, <1>3, <1>5, <2>1 DEF Followed, Follows
  <2>2. CASE req[s] \in missed[s]
    <3>1. Idle(s)
      BY <1>1, <1>13, <2>2
    <3> QED
      BY <1>1, <1>12, <3>1 DEF Idle, LatestEvent, LatestMessage
  <2> QED
    BY <2>1, <2>2
<1>9. ASSUME NoEvents(s), req[s] \notin missed'[s] PROVE OnItsWay(s)'
  <2>1. CASE db[req[s]] # None
    BY <1>1, <1>7, <2>1 DEF OnItsWay
  <2>2. CASE db[req[s]] = None /\ req[s] \notin paths[s]
    <3>1. respchan[s] = <<>> /\ view[s] = Empty
      BY <1>0, <1>1, <1>3, <2>2 DEF Followed, Fresh
    <3>2. Silent(<<>>, req[s]) /\ Empty[req[s]] = None
      BY <1>2 DEF Silent, Empty
    <3>3. WillBe(s, db[req[s]])
      BY <2>2, <3>1, <3>2 DEF WillBe
    <3> QED
      BY <1>8, <3>3 DEF OnItsWay
  <2>3. CASE db[req[s]] = None /\ req[s] \in paths[s]
    <3>1. req[s] \notin missed[s]
      BY <1>1, <1>9, <2>3
    <3>2. OnItsWay(s)
      BY <1>0, <1>2, <1>3, <1>9, <2>3, <3>1 DEF Followed, Follows
    <3> QED
      BY <1>1, <1>8, <3>2 DEF OnItsWay
  <2> QED
    BY <2>1, <2>2, <2>3
<1>10. Follows(s)'
  BY <1>1, <1>5, <1>7, <1>9, <1>13 DEF Follows
<1>11. tx # "none" => at'[s] # "sending" /\ run'[s] # "send"
  BY <1>1
<1> QED
  BY <1>3, <1>4, <1>10, <1>11, OneSession DEF Followed, Proceed

\* What the client will have after message m is put into respchan.
LEMMA MessageSent ==
    ASSUME TypeInv, NEW s \in Subs, NEW m \in Message,
           respchan'[s] = Append(respchan[s], m), UNCHANGED <<db, req, view>>
    PROVE  /\ Speaks(m, req[s]) /\ m.updates[req[s]] = db[req[s]] => WillBe(s, db[req[s]])'
           /\ ~Speaks(m, req[s]) /\ WillBe(s, db[req[s]]) => WillBe(s, db[req[s]])'
<1>1. respchan[s] \in Seq(Message)
  BY DEF TypeInv
<1>2. /\ Speaks(m, req[s]) => Says(respchan'[s], req[s], m.updates[req[s]])
      /\ ~Speaks(m, req[s]) => /\ \A v : Says(respchan[s], req[s], v) => Says(respchan'[s], req[s], v)
                               /\ Silent(respchan[s], req[s]) => Silent(respchan'[s], req[s])
  BY <1>1, WordSent
<1>3. WillBe(s, db[req[s]])' <=> \/ Says(respchan'[s], req[s], db[req[s]])
                                 \/ Silent(respchan'[s], req[s]) /\ view[s][req[s]] = db[req[s]]
  BY DEF WillBe
<1> QED
  BY <1>2, <1>3 DEF WillBe

\* initTelemetryUpdate sends.
LEMMA InitSendFollowed ==
    ASSUME TypeInv, ViewInv, NEW s \in Subs, InitSend(s)
    PROVE  ViewInv'
<1> USE TelemetryAssumption
<1>0. /\ Followed(s) /\ Sends(s) /\ at \in [Subs -> Places] /\ outbox \in [Subs -> Seq(Message)]
      /\ respchan \in [Subs -> Seq(Message)] /\ outbox[s] \in Seq(Message)
  BY DEF ViewInv, TypeInv, TypeOK, Places
<1>1. /\ at[s] = "sending" /\ at'[s] = (IF Len(outbox[s]) = 1 THEN "add" ELSE "sending")
      /\ outbox'[s] = Tail(outbox[s])
      /\ respchan'[s] = Append(respchan[s], Head(outbox[s]))
      /\ UNCHANGED <<db, tx, updatedroot, ready, lookup, req, reqs, paths, from, updatedList,
                     deletedList, run, message, eventque, view, missed>>
  BY <1>0 DEF InitSend, Set, model, subscription, client, bounds
<1>2. req[s] \in Paths /\ req[s] # None /\ EndsInSync(outbox[s]) /\ tx = "none" /\ ~Speaks(Sync, req[s])
  BY <1>0, <1>1 DEF Sends, ViewInv, Changes, Speaks, Sync, Empty
<1>3. /\ Head(outbox[s]) \in Message
      /\ Len(outbox[s]) = 1 => Head(outbox[s]) = Sync
      /\ Len(outbox[s]) # 1 => Tail(outbox[s]) = <<Sync>>
      /\ Len(outbox[s]) \in {1, 2}
  BY <1>0, <1>2, OutboxStep
<1>4. Subscribed(s)' /\ AllDeletes(s)' /\ Live(s) /\ Live(s)' /\ (Registered(s)' <=> Registered(s))
  BY <1>0, <1>1, <1>2 DEF Followed, Subscribed, AllDeletes, Live, Registered
<1>5. Fresh(s)'
  BY <1>0, <1>1, <1>2, <1>4 DEF Followed, Fresh
<1>6. /\ LatestEvent(s)' <=> LatestEvent(s)
      /\ LatestMessage(s)' <=> LatestMessage(s)
      /\ NoEvents(s)' <=> NoEvents(s)
  BY <1>1 DEF LatestEvent, LatestMessage, NoEvents, Current
<1>7. /\ 1 \in 1..Len(outbox[s]) /\ outbox[s][1] = Head(outbox[s])
      /\ \A i \in 1..Len(outbox[s]) : i # 1 => outbox[s][i] = Sync
  <2>1. outbox[s][1] = Head(outbox[s])
    OBVIOUS
  <2>2. Len(outbox[s]) = 2 => outbox[s][2] = Sync
    BY <1>2, TreeTypes DEF EndsInSync
  <2> QED
    BY <1>3, <2>1, <2>2
<1>8. Speaks(Head(outbox[s]), req[s]) => Head(outbox[s]).updates[req[s]] = db[req[s]]
  BY <1>0, <1>1, <1>2, <1>4, <1>7 DEF Followed, Follows
<1>9. at'[s] = "sending" => \A i \in 1..Len(outbox'[s]) : ~Speaks(outbox'[s][i], req[s])
  <2>1. \A i \in 1..Len(<<Sync>>) : <<Sync>>[i] = Sync
    OBVIOUS
  <2> QED
    BY <1>1, <1>2, <1>3, <2>1
<1>10. ASSUME OnItsWay(s) PROVE OnItsWay(s)'
  <2>1. CASE Speaks(Head(outbox[s]), req[s])
    <3>1. WillBe(s, db[req[s]])'
      BY <1>1, <1>3, <1>8, <2>1, MessageSent
    <3> QED
      BY <3>1 DEF OnItsWay
  <2>2. CASE ~Speaks(Head(outbox[s]), req[s])
    <3>1. \A i \in 1..Len(outbox[s]) : ~Speaks(outbox[s][i], req[s])
      BY <1>2, <1>7, <2>2
    <3>2. WillBe(s, db[req[s]]) => WillBe(s, db[req[s]])'
      BY <1>1, <1>3, <2>2, MessageSent
    <3> QED
      BY <1>1, <1>10, <3>1, <3>2 DEF OnItsWay
  <2> QED
    BY <2>1, <2>2
<1>11. Follows(s)'
  BY <1>0, <1>1, <1>2, <1>4, <1>6, <1>9, <1>10 DEF Followed, Follows
<1>12. tx # "none" => at'[s] # "sending" /\ run'[s] # "send"
  BY <1>2
<1> QED
  BY <1>4, <1>5, <1>11, <1>12, OneSession DEF Followed, Proceed

\* The subscription is added and registered, and its goroutine started.
LEMMA AddFollowed ==
    ASSUME TypeInv, RunInv, ViewInv, NEW s \in Subs,
           AddPath(s) \/ AddInfo(s) \/ StartTelemetryUpdate(s)
    PROVE  ViewInv'
<1> USE TelemetryAssumption
<1>0. /\ Followed(s) /\ Sends(s) /\ Counted(s) /\ at \in [Subs -> Places]
      /\ paths \in [Subs -> SUBSET Paths] /\ lookup \in [Paths -> SUBSET Subs]
      /\ run \in [Subs -> {"none", "wait", "read", "send", "quit", "stuck"}]
  BY DEF ViewInv, RunInv, TypeInv, TypeOK, Places
<1>1. /\ at[s] \in {"add", "info", "start"} /\ at'[s] \in {"info", "start", "recv"}
      /\ UNCHANGED <<db, tx, updatedroot, ready, req, reqs, outbox, from, updatedList, deletedList,
                     message, eventque, respchan, view, missed>>
  BY <1>0 DEF AddPath, AddInfo, StartTelemetryUpdate, Set, model, subscription, client, bounds
<1>2. req[s] \in Paths /\ req[s] # None
  BY <1>0, <1>1 DEF Followed, Subscribed
<1>3. /\ paths[s] \subseteq {req[s]} /\ paths'[s] = {req[s]}
      /\ \A p \in Paths : s \in lookup'[p] => p \in paths'[s]
      /\ \A p \in Paths : s \in lookup[p] => s \in lookup'[p]
      /\ run'[s] = run[s] \/ (run[s] = "none" /\ run'[s] = "wait" /\ s \in lookup'[req[s]])
  <2>0. /\ paths[s] \subseteq {req[s]} /\ (at[s] \in {"info", "start"} => paths[s] = {req[s]})
        /\ \A p \in Paths : s \in lookup[p] => p \in paths[s]
    BY <1>0, <1>1, <1>2 DEF Followed, Subscribed
  <2>1. CASE AddPath(s)
    BY <1>0, <2>0, <2>1 DEF AddPath, Set
  <2>2. CASE AddInfo(s)
    BY <2>0, <2>2 DEF AddInfo, subscription
  <2>3. CASE StartTelemetryUpdate(s)
    <3>1. /\ lookup' = [p \in Paths |-> IF p \in paths[s] THEN lookup[p] \cup {s} ELSE lookup[p]]
          /\ at[s] = "start" /\ paths' = paths
          /\ \/ ~started[s] /\ run' = [run EXCEPT ![s] = "wait"]
             \/ run' = run
      BY <2>3 DEF StartTelemetryUpdate, Set
    <3>2. s \in lookup'[req[s]] /\ \A p \in Paths : s \in lookup'[p] <=> (p \in paths[s] \/ s \in lookup[p])
      BY <1>0, <1>2, <2>0, <3>1
    <3> QED
      BY <1>0, <2>0, <3>1, <3>2 DEF Counted
  <2> QED
    BY <2>1, <2>2, <2>3
<1>4. Subscribed(s)'
  BY <1>0, <1>1, <1>2, <1>3 DEF Followed, Subscribed
<1>5. AllDeletes(s)' /\ Live(s) /\ Live(s)' /\ (Registered(s) => Registered(s)')
      /\ (run'[s] # run[s] => Registered(s)')
  BY <1>0, <1>1, <1>2, <1>3 DEF Followed, AllDeletes, Live, Registered
<1>6. Fresh(s)'
  BY <1>0, <1>1, <1>2, <1>5 DEF Followed, Fresh
<1>7. /\ LatestEvent(s)' <=> LatestEvent(s)
      /\ NoEvents(s)' <=> NoEvents(s)
  BY <1>1 DEF LatestEvent, NoEvents, Current
<1>8. LatestMessage(s) => LatestMessage(s)'
  BY <1>1, <1>3 DEF LatestMessage
<1>9. WillBe(s, db[req[s]])' <=> WillBe(s, db[req[s]])
  BY <1>1 DEF WillBe
<1>10. OnItsWay(s) => OnItsWay(s)'
  BY <1>1, <1>3, <1>9 DEF OnItsWay
<1>11. req[s] \in paths[s] \/ at[s] = "add"
  BY <1>0, <1>1, <1>2 DEF Followed, Subscribed
<1>12. Follows(s)'
  BY <1>0, <1>1, <1>2, <1>5, <1>7, <1>8, <1>10, <1>11 DEF Followed, Follows
<1>13. tx # "none" => at'[s] # "sending" /\ run'[s] # "send"
  BY <1>1, <1>3 DEF ViewInv, Changes
<1> QED
  BY <1>4, <1>5, <1>6, <1>12, <1>13, OneSession DEF Followed, Proceed

\* The goroutine takes an event from its queue.
LEMMA ReceiveFollowed ==
    ASSUME TypeInv, ViewInv, NEW s \in Subs, ReceiveEvent(s)
    PROVE  ViewInv'
<1> USE TelemetryAssumption
<1> DEFINE q == eventque[s]
           e == Head(q)
<1>0. /\ Followed(s) /\ q \in Seq(Event) /\ eventque \in [Subs -> Seq(Event)]
      /\ run \in [Subs -> {"none", "wait", "read", "send", "quit", "stuck"}] /\ from \in [Subs -> Tree \cup {None}]
      /\ updatedList \in [Subs -> SUBSET Paths] /\ deletedList \in [Subs -> SUBSET Paths]
  BY DEF ViewInv, TypeInv, TypeOK
<1>1. /\ run[s] = "wait" /\ q # <<>> /\ run'[s] \in {"read", "wait"}
      /\ updatedList'[s] = updatedList[s] \cup e.updated
      /\ deletedList'[s] = deletedList[s] \cup e.deleted
      /\ from'[s] \in {e.root, None}
      /\ eventque'[s] = Tail(q)
      /\ UNCHANGED <<db, tx, updatedroot, ready, lookup, at, req, reqs, outbox, paths, message,
                     respchan, view, missed>>
  BY <1>0 DEF ReceiveEvent, Set, model, session, client, bounds
<1>2. /\ Tail(q) = <<>> => e = q[Len(q)]
      /\ Tail(q) # <<>> => Tail(q)[Len(Tail(q))] = q[Len(q)]
  BY <1>0, <1>1, LastOfTail
<1> HIDE DEF e
<1>3. Subscribed(s)' /\ AllDeletes(s)' /\ (Live(s)' <=> Live(s)) /\ (Registered(s)' <=> Registered(s))
  BY <1>0, <1>1 DEF Followed, Subscribed, AllDeletes, Live, Registered
<1>4. Live(s) => Registered(s)
  BY <1>0, <1>1 DEF Followed, Fresh
<1>5. Fresh(s)'
  BY <1>0, <1>1, <1>3, <1>4 DEF Followed, Fresh
<1>6. ASSUME Live(s), req[s] \in Paths, req[s] \notin missed[s]
      PROVE  LatestEvent(s)' /\ (NoEvents(s)' => Current(s, e.updated, e.deleted, e.root))
  <2>1. LatestEvent(s)
    BY <1>0, <1>6 DEF Followed, Follows
  <2>2. LatestEvent(s)'
    BY <1>1, <1>2, <2>1 DEF LatestEvent, Current
  <2>3. NoEvents(s)' => Current(s, e.updated, e.deleted, e.root)
    BY <1>1, <1>2, <2>1 DEF LatestEvent, NoEvents
  <2> QED
    BY <2>2, <2>3
<1>7. Current(s, e.updated, e.deleted, e.root) => LatestMessage(s)' /\ OnItsWay(s)'
  BY <1>1 DEF Current, LatestMessage, OnItsWay
<1>8. Follows(s)'
  BY <1>0, <1>1, <1>3, <1>6, <1>7 DEF Followed, Follows
<1>9. tx # "none" => at'[s] # "sending" /\ run'[s] # "send"
  BY <1>1 DEF ViewInv, Changes
<1> QED
  BY <1>3, <1>5, <1>8, <1>9, OneSession DEF Followed, Runner

\* A timer expires, or the goroutine returns, panics or blocks.
LEMMA TimerFollowed ==
    ASSUME TypeInv, ViewInv, NEW s \in Subs,
           \/ Timer(s) \/ ReceiveTimer(s) \/ UpdateError(s) \/ Shutdown(s) \/ SendPanics(s)
           \/ ClearStarted(s) \/ RunDone(s)
    PROVE  ViewInv'
<1>0. /\ Followed(s) /\ from \in [Subs -> Tree \cup {None}]
      /\ run \in [Subs -> {"none", "wait", "read", "send", "quit", "stuck"}]
  BY DEF ViewInv, TypeInv, TypeOK
<1>1. /\ \/ /\ run[s] \notin {"none", "send"}
            /\ run'[s] \in {"none", "wait", "quit", "stuck"}
         \/ run[s] = "wait" /\ run'[s] = "read" /\ from'[s] = None
         \/ run'[s] = run[s] /\ from'[s] = from[s]
      /\ UNCHANGED <<db, tx, updatedroot, ready, lookup, at, req, reqs, outbox, paths, message,
                     updatedList, deletedList, eventque, respchan, view, missed>>
  BY <1>0 DEF Timer, TimerFires, TimerJams, ReceiveTimer, UpdateError, Shutdown, RunReturns,
              SendPanics, ClearStarted, RunDone, Set, model, session, subscription, client, bounds
<1>2. Subscribed(s)' /\ AllDeletes(s)' /\ (Live(s)' <=> Live(s)) /\ (Registered(s)' <=> Registered(s))
  BY <1>0, <1>1 DEF Followed, Subscribed, AllDeletes, Live, Registered
<1>3. Fresh(s)'
  BY <1>0, <1>1, <1>2 DEF Followed, Fresh
<1>4. /\ LatestEvent(s)' <=> LatestEvent(s)
      /\ NoEvents(s)' <=> NoEvents(s)
      /\ LatestMessage(s) => LatestMessage(s)'
  BY <1>1 DEF LatestEvent, LatestMessage, NoEvents, Current
<1>5. WillBe(s, db[req[s]])' <=> WillBe(s, db[req[s]])
  BY <1>1 DEF WillBe
<1>6. OnItsWay(s) => OnItsWay(s)'
  BY <1>1, <1>5 DEF OnItsWay
<1>7. Follows(s)'
  BY <1>0, <1>1, <1>2, <1>4, <1>6 DEF Followed, Follows
<1>8. tx # "none" => at'[s] # "sending" /\ run'[s] # "send"
  BY <1>1 DEF ViewInv, Changes
<1> QED
  BY <1>2, <1>3, <1>7, <1>8, OneSession DEF Followed, Runner

\* telemetryUpdate builds its message from the tree of the event, or the root.
LEMMA ReadFollowed ==
    ASSUME PrefixIsRoot, TypeInv, ViewInv, NEW s \in Subs, ReadTree(s)
    PROVE  ViewInv'
<1> USE TelemetryAssumption
<1> DEFINE tree == IF from[s] = None THEN db ELSE from[s]
           m == [kind |-> "update", updates |-> Only(tree, paths[s]), deletes |-> deletedList[s]]
<1>0. /\ Followed(s) /\ message \in [Subs -> Message] /\ missed \in [Subs -> SUBSET Paths]
      /\ run \in [Subs -> {"none", "wait", "read", "send", "quit", "stuck"}]
  BY DEF ViewInv, TypeInv, TypeOK
<1>1. /\ run[s] = "read" /\ run'[s] = "send" /\ tx = "none" /\ message'[s] = m
      /\ missed'[s] = IF from[s] = None /\ eventque[s] = <<>>
                      THEN missed[s] \ (paths[s] \cap Populated(db)) ELSE missed[s]
      /\ UNCHANGED <<db, tx, updatedroot, ready, lookup, at, req, reqs, outbox, paths, from,
                     updatedList, deletedList, eventque, respchan, view>>
  BY <1>0 DEF ReadTree, CanRLock, Set, getDeletes, model, session, client, bounds
<1>2. Subscribed(s)' /\ (Live(s)' <=> Live(s)) /\ (Registered(s)' <=> Registered(s))
  BY <1>0, <1>1 DEF Followed, Subscribed, Live, Registered
<1>3. AllDeletes(s)'
  BY <1>1 DEF AllDeletes
<1>4. Live(s) => Registered(s) /\ req[s] \in paths[s]
  BY <1>0, <1>1 DEF Followed, Fresh, Registered, Subscribed
<1>5. Fresh(s)'
  BY <1>0, <1>1, <1>2, <1>4 DEF Followed, Fresh
<1>6. /\ LatestEvent(s)' <=> LatestEvent(s)
      /\ NoEvents(s)' <=> NoEvents(s)
  BY <1>1 DEF LatestEvent, NoEvents, Current
<1>7. ASSUME Live(s), req[s] \in Paths, LatestMessage(s) \/ from[s] = None
      PROVE  LatestMessage(s)'
  <2>1. m.updates[req[s]] = tree[req[s]]
    BY <1>4, <1>7 DEF Only
  <2>2. tree[req[s]] = db[req[s]]
    BY <1>1, <1>7 DEF LatestMessage
  <2> QED
    BY <1>1, <2>1, <2>2 DEF LatestMessage
<1>8. WillBe(s, db[req[s]])' <=> WillBe(s, db[req[s]])
  BY <1>1 DEF WillBe
<1>9. OnItsWay(s) => OnItsWay(s)'
  BY <1>1, <1>8 DEF OnItsWay
<1>10. ASSUME req[s] \in missed[s], req[s] \notin missed'[s]
       PROVE  OnItsWay(s)' /\ from[s] = None /\ NoEvents(s) /\ LatestEvent(s)
  <2>1. ready[s] = None /\ eventque[s] = <<>> /\ from[s] = None
    BY <1>1, <1>10 DEF ViewInv, Changes
  <2> QED
    BY <1>1, <1>10, <2>1 DEF OnItsWay, Populated, NoEvents, LatestEvent
<1>11. Follows(s)'
  <2> SUFFICES ASSUME Live(s), req[s] \in Paths, req[s] \notin missed'[s]
               PROVE  /\ LatestEvent(s)'
                      /\ NoEvents(s)' => LatestMessage(s)'
                      /\ NoEvents(s)' => OnItsWay(s)'
    BY <1>0, <1>1, <1>2 DEF Followed, Follows
  <2>1. CASE req[s] \in missed[s]
    BY <1>6, <1>7, <1>10, <2>1
  <2>2. CASE req[s] \notin missed[s]
    BY <1>0, <1>4, <1>6, <1>7, <1>9, <2>2 DEF Followed, Follows
  <2> QED
    BY <2>1, <2>2
<1>12. tx # "none" => at'[s] # "sending" /\ run'[s] # "send"
  BY <1>1
<1> QED
  BY <1>2, <1>3, <1>5, <1>11, <1>12, OneSession DEF Followed, Runner

\* telemetryUpdate sends its message, and the lists are emptied.
LEMMA SendFollowed ==
    ASSUME TypeInv, ViewInv, NEW s \in Subs, SendUpdate(s)
    PROVE  ViewInv'
<1>0. /\ Followed(s) /\ message \in [Subs -> Message] /\ message[s] \in Message
      /\ run \in [Subs -> {"none", "wait", "read", "send", "quit", "stuck"}]
      /\ respchan \in [Subs -> Seq(Message)]
  BY DEF ViewInv, TypeInv, TypeOK
<1>1. /\ run[s] = "send" /\ run'[s] = "wait"
      /\ respchan'[s] = Append(respchan[s], message[s])
      /\ UNCHANGED <<db, tx, updatedroot, ready, lookup, at, req, reqs, outbox, paths, eventque,
                     view, missed>>
  BY <1>0 DEF SendUpdate, Set, model, session, client, bounds
<1>2. Subscribed(s)' /\ (Live(s)' <=> Live(s)) /\ (Registered(s)' <=> Registered(s)) /\ AllDeletes(s)'
  BY <1>0, <1>1 DEF Followed, Subscribed, Live, Registered, AllDeletes
<1>3. Live(s) => Registered(s) /\ req[s] \in paths[s] /\ req[s] # None
  BY <1>0, <1>1, TelemetryAssumption DEF Followed, Fresh, Registered, Subscribed
<1>4. Fresh(s)'
  BY <1>0, <1>1, <1>2, <1>3 DEF Followed, Fresh
<1>5. /\ LatestEvent(s)' <=> LatestEvent(s)
      /\ NoEvents(s)' <=> NoEvents(s)
      /\ LatestMessage(s)'
  BY <1>1 DEF LatestEvent, NoEvents, Current, LatestMessage
<1>6. ASSUME LatestMessage(s), OnItsWay(s) PROVE OnItsWay(s)'
  <2>1. message[s].updates[req[s]] = db[req[s]] /\ message[s].deletes = deletedList[s]
    BY <1>0, <1>1, <1>6 DEF LatestMessage, Followed, AllDeletes
  <2>2. CASE Speaks(message[s], req[s])
    <3>1. WillBe(s, db[req[s]])'
      BY <1>0, <1>1, <2>1, <2>2, MessageSent
    <3> QED
      BY <3>1 DEF OnItsWay
  <2>3. CASE ~Speaks(message[s], req[s])
    <3>1. db[req[s]] = None /\ req[s] \notin deletedList[s]
      BY <2>1, <2>3 DEF Speaks
    <3>2. WillBe(s, db[req[s]]) => WillBe(s, db[req[s]])'
      BY <1>0, <1>1, <2>3, MessageSent
    <3> QED
      BY <1>1, <1>6, <3>1, <3>2 DEF OnItsWay
  <2> QED
    BY <2>2, <2>3
<1>7. Follows(s)'
  BY <1>0, <1>1, <1>2, <1>5, <1>6 DEF Followed, Follows
<1>8. tx # "none" => at'[s] # "sending" /\ run'[s] # "send"
  BY <1>1 DEF ViewInv, Changes
<1> QED
  BY <1>2, <1>4, <1>7, <1>8, OneSession DEF Followed, Runner

\* The client applies a message.
LEMMA DeliverFollowed ==
    ASSUME TypeInv, ViewInv, NEW s \in Subs, Deliver(s)
    PROVE  ViewInv'
<1>0. /\ Followed(s) /\ respchan \in [Subs -> Seq(Message)] /\ respchan[s] \in Seq(Message)
      /\ view \in [Subs -> Tree]
  BY DEF ViewInv, TypeInv, TypeOK
<1> DEFINE m == Head(respchan[s])
<1>1. /\ respchan[s] # <<>> /\ respchan'[s] = Tail(respchan[s])
      /\ view'[s] = [p \in Paths |-> Applied(m, p, view[s][p])]
      /\ UNCHANGED <<db, tx, updatedroot, ready, lookup, at, req, reqs, outbox, paths, from, run,
                     updatedList, deletedList, message, eventque, missed>>
  BY <1>0 DEF Deliver, Applied, Set, model, session, subscription, bounds
<1>2. Subscribed(s)' /\ (Live(s)' <=> Live(s)) /\ (Registered(s)' <=> Registered(s)) /\ AllDeletes(s)'
  BY <1>0, <1>1 DEF Followed, Subscribed, Live, Registered, AllDeletes
<1>3. Fresh(s)'
  BY <1>0, <1>1, <1>2 DEF Followed, Fresh
<1>4. /\ LatestEvent(s)' <=> LatestEvent(s)
      /\ NoEvents(s)' <=> NoEvents(s)
      /\ LatestMessage(s)' <=> LatestMessage(s)
  BY <1>1 DEF LatestEvent, NoEvents, Current, LatestMessage
<1>5. ASSUME req[s] \in Paths, WillBe(s, db[req[s]]) PROVE WillBe(s, db[req[s]])'
  <2> DEFINE q == respchan[s]
             p == req[s]
             v == db[req[s]]
             w == view[s][req[s]]
  <2>0. Says(q, p, v) \/ (Silent(q, p) /\ w = v)
    BY <1>5 DEF WillBe
  <2>1. q \in Seq(Message) /\ q # <<>>
    BY <1>0, <1>1
  <2> HIDE DEF q, p, v, w
  <2>2. Says(Tail(q), p, v) \/ (Silent(Tail(q), p) /\ Applied(Head(q), p, w) = v)
    BY <2>0, <2>1, WordDelivered
  <2>3. view'[s][p] = Applied(m, p, w)
    BY <1>1, <1>5 DEF p, w
  <2> QED
    BY <1>1, <2>2, <2>3 DEF WillBe, q, p, v
<1>6. req[s] \in Paths /\ OnItsWay(s) => OnItsWay(s)'
  BY <1>1, <1>5 DEF OnItsWay
<1>7. Follows(s)'
  BY <1>0, <1>1, <1>2, <1>4, <1>6 DEF Followed, Follows
<1>8. tx # "none" => at'[s] # "sending" /\ run'[s] # "send"
  BY <1>1 DEF ViewInv, Changes
<1> QED
  BY <1>2, <1>3, <1>7, <1>8, OneSession DEF Followed

\* Every step keeps the client's copy on the way to the data.
LEMMA StepViewInv ==
    ASSUME OneLeafEach, PrefixIsRoot, TypeInv, RunInv, ViewInv, [Next]_vars
    PROVE  ViewInv'
<1>1. CASE UNCHANGED vars
  <2>1. UNCHANGED <<db, tx, updatedroot, ready, missed, at, run>> /\ \A t \in Subs : SameSession(t)
    BY <1>1 DEF vars, model, session, subscription, client, bounds, SameSession
  <2>2. Changes'
    BY <2>1 DEF ViewInv, Changes
  <2>3. \A t \in Subs : Followed(t)'
    BY <2>1, FollowedAsBefore DEF ViewInv
  <2> QED
    BY <2>2, <2>3 DEF ViewInv
<1>2. ASSUME NEW s \in Subs, Proceed(s) PROVE ViewInv'
  BY <1>2, InitReadFollowed, InitSendFollowed, AddFollowed, EndFollowed DEF Proceed
<1>3. ASSUME NEW s \in Subs, Runner(s) PROVE ViewInv'
  BY <1>3, ReceiveFollowed, ReadFollowed, SendFollowed, TimerFollowed DEF Runner
<1> QED
  BY <1>1, <1>2, <1>3, TransactionFollowed, RequestFollowed, EndFollowed, TimerFollowed,
     DeliverFollowed DEF Next, Finished

\* The initial state.
LEMMA InitViewInv == Init => ViewInv
<1> SUFFICES ASSUME Init PROVE ViewInv
  OBVIOUS
<1>1. Changes
  BY DEF Init, Changes
<1>2. ASSUME NEW s \in Subs PROVE Followed(s)
  <2>1. /\ at[s] = "recv" /\ req[s] = None /\ paths[s] = {} /\ run[s] = "none" /\ reqs[s] = 0
        /\ respchan[s] = <<>> /\ view[s] = Empty /\ ready[s] = None /\ eventque[s] = <<>>
        /\ \A p \in Paths : s \notin lookup[p]
    BY DEF Init
  <2>2. req[s] \notin Paths
    BY <2>1, TelemetryAssumption
  <2>3. Subscribed(s) /\ Fresh(s) /\ AllDeletes(s)
    BY <2>1 DEF Subscribed, Fresh, AllDeletes
  <2>4. Follows(s)
    BY <2>2 DEF Follows
  <2> QED
    BY <2>3, <2>4 DEF Followed
<1> QED
  BY <1>1, <1>2 DEF ViewInv

\* When no session subscribes to two leaves, and to the root, a settled client
\* has the data of the model, for any number of sessions, changes, timers,
\* failures and restarts.
THEOREM SpecViewConverges ==
    ASSUME OneLeafEach, PrefixIsRoot PROVE Spec => []ViewConverges
<1>1. TypeInv /\ RunInv /\ ViewInv /\ [Next]_vars => ViewInv'
  BY StepViewInv
<1>2. ViewInv => ViewConverges
  <2> SUFFICES ASSUME ViewInv, NEW s \in Subs, Settled(s), NEW p \in paths[s] \ missed[s]
               PROVE  view[s][p] = db[p]
    BY DEF ViewConverges
  <2>1. /\ Followed(s) /\ at[s] = "recv" /\ run[s] = "wait" /\ respchan[s] = <<>>
        /\ updatedList[s] = {} /\ deletedList[s] = {} /\ NoEvents(s)
    BY DEF ViewInv, Settled, Changes, NoEvents
  <2>2. p = req[s] /\ p \in Paths
    BY <2>1 DEF Followed, Subscribed
  <2>3. OnItsWay(s)
    BY <2>1, <2>2 DEF Followed, Follows, Live
  <2>4. WillBe(s, db[p])
    BY <2>1, <2>2, <2>3 DEF OnItsWay
  <2>5. ~Says(<<>>, p, db[p])
    BY DEF Says
  <2> QED
    BY <2>1, <2>2, <2>4, <2>5 DEF WillBe
<1> QED
  BY <1>1, <1>2, InitTypeInv, InitViewInv, StepTypeInv, StepRunInv, PTL DEF Spec

=============================================================================
