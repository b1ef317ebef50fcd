----------------------------- MODULE Telemetry -----------------------------
(***************************************************************************)
(* Streaming telemetry (gnmi/server/subscribe.go): data transactions of the*)
(* model (UpdateStart ... UpdateEnd, gnmi/model/model.go) feed the events  *)
(* of the subscriptions (teleCtrl), each of which has a goroutine that     *)
(* turns them into messages for its client, while the RPC goroutine of the *)
(* Subscribe session adds paths and finally closes the session.            *)
(*                                                                         *)
(* Model's RWMutex: a transaction is its writer from UpdateStart to        *)
(* UpdateEnd; initTelemetryUpdate and telemetryUpdate are its readers and  *)
(* keep it while they send to the bounded respchan.  teleCtrl.mutex is held*)
(* by every callback of the transaction for one step, except that          *)
(* ChangeCompleted keeps it while it sends to the bounded event queues.    *)
(*                                                                         *)
(* A session has one stream subscription; a further request on the session *)
(* has the same key and extends its paths.  The client applies the messages*)
(* in order, in each one the deletes before the updates.                   *)
(***************************************************************************)
EXTENDS Naturals, Sequences

CONSTANTS
    Subs,          \* the sessions, each with its subscription
    Paths,         \* data leaves
    Values,        \* leaf values
    None,          \* no value, no event, no path
    OnChange,      \* the subscriptions in ON_CHANGE mode; the others SAMPLE
    Suppress,      \* the SAMPLE subscriptions with suppress_redundant
    PrefixIsRoot,  \* the prefix is the root, else a container of all leaves
    UpdateFails,   \* telemetryUpdate may return an error
    SilentSets,    \* no StateConfig is installed: Set changes the tree itself
    EventCap,      \* capacity of eventque (64)
    RespCap,       \* capacity of respchan (256)
    TimerCap,      \* capacity of timerExpired (2)
    MaxTx,         \* bound: transactions and Sets
    MaxTicks,      \* bound: timer expirations
    MaxReq         \* bound: subscribe requests of a session

ASSUME TelemetryAssumption ==
    /\ None \notin Values \cup Paths
    /\ OnChange \subseteq Subs /\ Suppress \subseteq Subs
    /\ EventCap \in Nat \ {0} /\ RespCap \in Nat \ {0} /\ TimerCap \in Nat \ {0}
    /\ MaxTx \in Nat /\ MaxTicks \in Nat /\ MaxReq \in Nat

VARIABLES
    db,           \* the data tree of the Model
    tx,           \* the transaction: "none", "write", "delete" or "ending"
    updatedroot,  \* Model.updatedroot: what the transaction created or replaced
    ready,        \* teleCtrl.ready
    lookup,       \* teleCtrl.lookup: subscribers of each leaf
    at,           \* where the RPC goroutine of the session is
    req,          \* path of the request it works on
    outbox,       \* messages initTelemetryUpdate has still to send
    paths,        \* Subscription.Paths
    started,      \* Subscription.started
    runners,      \* SubSession.waitgroup: goroutines that have not called Done
    run,          \* where the goroutine of the subscription is in run
    timers,       \* its channel timerExpired, TRUE for a heartbeat
    from,         \* the tree its telemetryUpdate reads, None for the root
    updatedList,  \* Subscription.updatedList
    deletedList,  \* Subscription.deletedList
    message,      \* the message telemetryUpdate is sending
    eventque,     \* Subscription.eventque
    respchan,     \* SubSession.respchan
    view,         \* the client's copy of the data
    synced,       \* the client has seen a sync_response
    early,        \* history: telemetry reached the client before that
    missed,       \* history: leaves that last changed without an event, and were
                  \* not read since
    crashed,      \* the process ended: a send on a closed channel
    txs, ticks, reqs

model == <<db, tx, updatedroot, ready>>
session == <<at, req, outbox>>
subscription == <<paths, started, runners, run, timers, from, updatedList, deletedList, message>>
client == <<view, synced, early>>
bounds == <<txs, ticks, reqs>>
vars == <<model, lookup, session, subscription, eventque, respchan, client, missed,
          crashed, bounds>>

Tree == [Paths -> Values \cup {None}]
Empty == [p \in Paths |-> None]
Event == [updated : SUBSET Paths, deleted : SUBSET Paths, root : Tree]
Message == [kind : {"init", "sync", "update"}, updates : Tree, deletes : SUBSET Paths]
Sync == [kind |-> "sync", updates |-> Empty, deletes |-> {}]

ASSUME NoneAssumption == None \notin Event

Init ==
    /\ db = Empty
    /\ tx = "none"
    /\ updatedroot = Empty
    /\ ready = [s \in Subs |-> None]
    /\ lookup = [p \in Paths |-> {}]
    /\ at = [s \in Subs |-> "recv"]
    /\ req = [s \in Subs |-> None]
    /\ outbox = [s \in Subs |-> <<>>]
    /\ paths = [s \in Subs |-> {}]
    /\ started = [s \in Subs |-> FALSE]
    /\ runners = [s \in Subs |-> 0]
    /\ run = [s \in Subs |-> "none"]
    /\ timers = [s \in Subs |-> <<>>]
    /\ from = [s \in Subs |-> None]
    /\ updatedList = [s \in Subs |-> {}]
    /\ deletedList = [s \in Subs |-> {}]
    /\ message = [s \in Subs |-> Sync]
    /\ eventque = [s \in Subs |-> <<>>]
    /\ respchan = [s \in Subs |-> <<>>]
    /\ view = [s \in Subs |-> Empty]
    /\ synced = [s \in Subs |-> FALSE]
    /\ early = [s \in Subs |-> FALSE]
    /\ missed = [s \in Subs |-> {}]
    /\ crashed = FALSE
    /\ txs = 0 /\ ticks = 0 /\ reqs = [s \in Subs |-> 0]

-----------------------------------------------------------------------------
(* The locks *)

\* Model.RLock() succeeds.
CanRLock == tx = "none"

\* Model.Lock() succeeds: nobody is inside initTelemetryUpdate or
\* telemetryUpdate.
CanLock ==
    /\ tx = "none"
    /\ \A s \in Subs : at[s] # "sending" /\ run[s] # "send"

\* teleCtrl.mutex is free: no ChangeCompleted is sending.
TeleCtrlFree == tx # "ending"

\* Subscription.mutex is free: no timer is being served.
SubFree(s) == ~(run[s] \in {"read", "send"} /\ from[s] = None)

Only(tree, ps) == [p \in Paths |-> IF p \in ps THEN tree[p] ELSE None]

Populated(tree) == {p \in Paths : tree[p] # None}

Set(f, s, v) == [f EXCEPT ![s] = v]

-----------------------------------------------------------------------------
(* Transactions of the model, with the callbacks of teleCtrl *)

\* UpdateStart and ChangeStarted.  YDB either writes or deletes in one
\* transaction.
UpdateStart(kind) ==
    /\ CanLock
    /\ txs < MaxTx
    /\ txs' = txs + 1
    /\ tx' = kind
    /\ ready' = [s \in Subs |-> None]
    /\ UNCHANGED <<db, updatedroot, lookup, session, subscription, eventque, respchan,
                   client, missed, crashed, ticks, reqs>>

\* updateTeleEvent for every subscriber of the leaf.
updateTeleEvent(p, updated, deleted) ==
    /\ TeleCtrlFree
    /\ ready' = [s \in Subs |->
         IF s \notin lookup[p] THEN ready[s]
         ELSE LET e == IF ready[s] = None
                       THEN [updated |-> {}, deleted |-> {}, root |-> Empty] ELSE ready[s]
              IN  [e EXCEPT !.updated = @ \cup updated, !.deleted = @ \cup deleted]]
    /\ missed' = [s \in Subs |-> IF s \in lookup[p] THEN missed[s] \ {p}
                                                    ELSE missed[s] \cup {p}]
    /\ UNCHANGED <<tx, lookup, session, subscription, eventque, respchan, client, crashed,
                   bounds>>

\* UpdateCreate with ChangeCreated.
UpdateCreate(p, v) ==
    /\ tx = "write" /\ db[p] = None
    /\ db' = Set(db, p, v)
    /\ updatedroot' = Set(updatedroot, p, v)
    /\ updateTeleEvent(p, {p}, {})

\* UpdateReplace with ChangeReplaced.
UpdateReplace(p, v) ==
    /\ tx = "write" /\ db[p] # None
    /\ db' = Set(db, p, v)
    /\ updatedroot' = Set(updatedroot, p, v)
    /\ updateTeleEvent(p, {p}, {p})

\* UpdateDelete with ChangeDeleted; updatedroot is not touched.
UpdateDelete(p) ==
    /\ tx = "delete" /\ db[p] # None
    /\ db' = Set(db, p, None)
    /\ updateTeleEvent(p, {}, {p})
    /\ UNCHANGED updatedroot

\* UpdateEnd calls ChangeCompleted, which locks teleCtrl.mutex.
ChangeCompleted ==
    /\ tx \in {"write", "delete"}
    /\ tx' = "ending"
    /\ UNCHANGED <<db, updatedroot, ready, lookup, session, subscription, eventque,
                   respchan, client, missed, crashed, bounds>>

\* Defect: a channel without a buffer.
ReaderWaits(s) == eventque[s] = <<>> /\ run[s] = "wait"

QueueHasRoom(s) == Len(eventque[s]) < EventCap

\* One round of the loop: the event gets the tree of all changes and is sent,
\* which blocks while the queue is full.
SendEvent(s) ==
    /\ tx = "ending" /\ ready[s] # None
    /\ QueueHasRoom(s)
    /\ eventque' = Set(eventque, s, Append(eventque[s], [ready[s] EXCEPT !.root = updatedroot]))
    /\ ready' = Set(ready, s, None)
    /\ UNCHANGED <<db, tx, updatedroot, lookup, session, subscription, respchan, client,
                   missed, crashed, bounds>>

\* The rest of UpdateEnd: updatedroot is dropped and the model unlocked.
UpdateEnd ==
    /\ tx = "ending" /\ \A s \in Subs : ready[s] = None
    /\ tx' = "none"
    /\ updatedroot' = Empty
    /\ UNCHANGED <<db, ready, lookup, session, subscription, eventque, respchan, client,
                   missed, crashed, bounds>>

\* Set without a StateConfig (SetUpdate and the others, an empty SetDone): the
\* tree changes under the lock of the model, and no callback is called.
SetSilently(p, v) ==
    /\ SilentSets /\ CanLock
    /\ txs < MaxTx
    /\ txs' = txs + 1
    /\ db[p] # v
    /\ db' = Set(db, p, v)
    /\ missed' = [s \in Subs |-> missed[s] \cup {p}]
    /\ UNCHANGED <<tx, updatedroot, ready, lookup, session, subscription, eventque, respchan,
                   client, crashed, ticks, reqs>>

Transaction ==
    \/ \E kind \in {"write", "delete"} : UpdateStart(kind)
    \/ \E p \in Paths, v \in Values : UpdateCreate(p, v) \/ UpdateReplace(p, v)
    \/ \E p \in Paths : UpdateDelete(p)
    \/ ChangeCompleted
    \/ \E s \in Subs : SendEvent(s)
    \/ UpdateEnd
    \/ \E p \in Paths, v \in Values \cup {None} : SetSilently(p, v)

-----------------------------------------------------------------------------
(* The RPC goroutine of a session *)

\* A SubscribeRequest in STREAM mode for one leaf is received.
Request(s, p) ==
    /\ at[s] = "recv"
    /\ reqs[s] < MaxReq
    /\ reqs' = [reqs EXCEPT ![s] = @ + 1]
    /\ at' = Set(at, s, "init")
    /\ req' = Set(req, s, p)
    /\ UNCHANGED <<model, lookup, outbox, subscription, eventque, respchan, client, missed,
                   crashed, txs, ticks>>

\* Defect: sync_response is only sent when there is no data.
InitOrSync(s) ==
    IF db[req[s]] = None THEN <<Sync>>
    ELSE <<[kind |-> "init", updates |-> Only(db, {req[s]}), deletes |-> {}]>>

\* The messages of initTelemetryUpdate: the data, if any, and sync_response.
InitMessages(s) ==
    IF db[req[s]] = None THEN <<Sync>>
    ELSE <<[kind |-> "init", updates |-> Only(db, {req[s]}), deletes |-> {}], Sync>>

\* No event of the subscription is queued or being served.
Idle(s) == eventque[s] = <<>> /\ run[s] \notin {"read", "send"}

\* initTelemetryUpdate reads the data under the read lock ...  A repeated
\* request says nothing of a leaf that is gone, and an older event may follow.
InitRead(s) ==
    /\ at[s] = "init" /\ CanRLock
    /\ at' = Set(at, s, "sending")
    /\ outbox' = Set(outbox, s, InitMessages(s))
    /\ missed' = Set(missed, s, IF Idle(s) /\ (req[s] \in paths[s] => db[req[s]] # None)
                                THEN missed[s] \ {req[s]} ELSE missed[s])
    /\ UNCHANGED <<model, lookup, req, subscription, eventque, respchan, client, crashed,
                   bounds>>

RespHasRoom(s) == Len(respchan[s]) < RespCap

\* ... and keeps the lock until everything is in respchan.
InitSend(s) ==
    /\ at[s] = "sending"
    /\ RespHasRoom(s)
    /\ respchan' = Set(respchan, s, Append(respchan[s], Head(outbox[s])))
    /\ outbox' = Set(outbox, s, Tail(outbox[s]))
    /\ at' = Set(at, s, IF Len(outbox[s]) = 1 THEN "add" ELSE "sending")
    /\ UNCHANGED <<model, lookup, req, subscription, eventque, client, missed, crashed,
                   bounds>>

\* An invalid path or model, an unsupported encoding or interval: the error
\* ends the session.
Refuse(s) ==
    /\ at[s] \in {"init", "add"}
    /\ at' = Set(at, s, "stop")
    /\ UNCHANGED <<model, lookup, req, outbox, subscription, eventque, respchan, client,
                   missed, crashed, bounds>>

\* addStreamSubscription makes the subscription or extends its paths.
AddPath(s) ==
    /\ at[s] = "add" /\ SubFree(s)
    /\ paths' = Set(paths, s, paths[s] \cup {req[s]})
    /\ at' = Set(at, s, "info")
    /\ UNCHANGED <<model, lookup, req, outbox, started, runners, run, timers, from, updatedList,
                   deletedList, message, eventque, respchan, client, missed, crashed, bounds>>

\* addStreamDynamicSubscription: the paths are copied, then a transaction of the
\* internal YDB on data nobody subscribed to.
AddInfo(s) ==
    /\ at[s] = "info" /\ SubFree(s) /\ CanLock
    /\ at' = Set(at, s, "start")
    /\ UNCHANGED <<model, lookup, req, outbox, subscription, eventque, respchan, client,
                   missed, crashed, bounds>>

\* StartTelmetryUpdate: register, and start a goroutine if the last one has
\* cleared the mark, whether or not it has called Done.
StartTelemetryUpdate(s) ==
    /\ at[s] = "start" /\ TeleCtrlFree
    /\ lookup' = [p \in Paths |-> IF p \in paths[s] THEN lookup[p] \cup {s} ELSE lookup[p]]
    /\ at' = Set(at, s, "recv")
    /\ \/ /\ ~started[s]
          /\ started' = Set(started, s, TRUE)
          /\ runners' = Set(runners, s, runners[s] + 1)
          /\ run' = Set(run, s, "wait")
          /\ timers' = Set(timers, s, <<>>)
       \/ /\ started[s]
          /\ UNCHANGED <<started, runners, run, timers>>
    /\ UNCHANGED <<model, req, outbox, paths, from, updatedList, deletedList, message,
                   eventque, respchan, client, missed, crashed, bounds>>

\* stream.Recv returns EOF or an error.
StreamEnds(s) ==
    /\ at[s] = "recv"
    /\ at' = Set(at, s, "stop")
    /\ UNCHANGED <<model, lookup, req, outbox, subscription, eventque, respchan, client,
                   missed, crashed, bounds>>

\* stopSubSession: deleteStreamDynamicSubscriptionInfo, again a transaction, if
\* the session has a subscription ...
DeleteInfo(s) ==
    /\ at[s] = "stop"
    /\ paths[s] # {} => CanLock
    /\ at' = Set(at, s, "unregister")
    /\ UNCHANGED <<model, lookup, req, outbox, subscription, eventque, respchan, client,
                   missed, crashed, bounds>>

\* ... unregister ...
Unregister(s) ==
    /\ at[s] = "unregister"
    /\ paths[s] # {} => TeleCtrlFree
    /\ lookup' = [p \in Paths |-> lookup[p] \ {s}]
    /\ at' = Set(at, s, "close")
    /\ UNCHANGED <<model, req, outbox, subscription, eventque, respchan, client, missed,
                   crashed, bounds>>

\* ... close(respchan) and close(shutdown) ...
Close(s) ==
    /\ at[s] = "close"
    /\ at' = Set(at, s, "wait")
    /\ UNCHANGED <<model, lookup, req, outbox, subscription, eventque, respchan, client,
                   missed, crashed, bounds>>

\* ... and wait for the goroutines; the responder may leave messages behind.
Closed(s) ==
    /\ at[s] = "wait" /\ runners[s] = 0
    /\ at' = Set(at, s, "closed")
    /\ respchan' = Set(respchan, s, <<>>)
    /\ UNCHANGED <<model, lookup, req, outbox, subscription, eventque, client, missed,
                   crashed, bounds>>

Proceed(s) ==
    InitRead(s) \/ InitSend(s) \/ AddPath(s) \/ AddInfo(s) \/ StartTelemetryUpdate(s)
      \/ DeleteInfo(s) \/ Unregister(s) \/ Close(s) \/ Closed(s)

-----------------------------------------------------------------------------
(* Subscription.run and telemetryUpdate *)

\* An event is received; ON_CHANGE sends at once, from the tree of changes.
ReceiveEvent(s) ==
    /\ run[s] = "wait" /\ eventque[s] # <<>>
    /\ LET e == Head(eventque[s])
       IN  /\ updatedList' = Set(updatedList, s, updatedList[s] \cup e.updated)
           /\ deletedList' = Set(deletedList, s, deletedList[s] \cup e.deleted)
           /\ from' = Set(from, s, IF s \in OnChange THEN e.root ELSE None)
    /\ eventque' = Set(eventque, s, Tail(eventque[s]))
    /\ run' = Set(run, s, IF s \in OnChange THEN "read" ELSE "wait")
    /\ UNCHANGED <<model, lookup, session, paths, started, runners, timers, message, respchan,
                   client, missed, crashed, bounds>>

\* suppress_redundant skips a sample when nothing changed.
Redundant(s) == s \in Suppress /\ updatedList[s] = {} /\ deletedList[s] = {}

\* A sampling or heartbeat ticker fires, and the goroutine sends it to its own
\* channel timerExpired; ON_CHANGE has heartbeats only.
TimerFires(s, beat) ==
    /\ run[s] = "wait"
    /\ s \in OnChange => beat
    /\ ticks < MaxTicks
    /\ ticks' = ticks + 1
    /\ Len(timers[s]) < TimerCap
    /\ timers' = Set(timers, s, Append(timers[s], beat))
    /\ UNCHANGED <<model, lookup, session, paths, started, runners, run, from, updatedList,
                   deletedList, message, eventque, respchan, client, missed, crashed, txs, reqs>>

\* The channel is full: its only reader blocks in the send, for ever.
TimerJams(s) ==
    /\ run[s] = "wait"
    /\ ticks < MaxTicks
    /\ ticks' = ticks + 1
    /\ Len(timers[s]) = TimerCap
    /\ run' = Set(run, s, "stuck")
    /\ UNCHANGED <<model, lookup, session, paths, started, runners, timers, from, updatedList,
                   deletedList, message, eventque, respchan, client, missed, crashed, txs, reqs>>

Timer(s) == (\E beat \in BOOLEAN : TimerFires(s, beat)) \/ TimerJams(s)

\* Defect: a heartbeat is held back like a sample.
ChangedSince(s, beat) == updatedList[s] # {} \/ deletedList[s] # {}

\* sendUpdate of run.
SendsUpdate(s, beat) == beat \/ ~Redundant(s)

\* timerExpired is received: everything is sent, from the root, or nothing.
ReceiveTimer(s) ==
    /\ run[s] = "wait" /\ timers[s] # <<>>
    /\ timers' = Set(timers, s, Tail(timers[s]))
    /\ run' = Set(run, s, IF SendsUpdate(s, Head(timers[s])) THEN "read" ELSE "wait")
    /\ from' = Set(from, s, None)
    /\ UNCHANGED <<model, lookup, session, paths, started, runners, updatedList, deletedList,
                   message, eventque, respchan, client, missed, crashed, bounds>>

\* Defect: deletes are left out.
NoDeletes(s) == {} \cap deletedList[s]

\* getDeletes: all replaced and deleted paths.
getDeletes(s) == deletedList[s]

\* telemetryUpdate takes the read lock and finds the prefix in its tree: the
\* message is built, or there is none.
ReadTree(s) ==
    /\ run[s] = "read" /\ CanRLock
    /\ LET tree == IF from[s] = None THEN db ELSE from[s]
       IN  IF PrefixIsRoot \/ Populated(tree) # {}
           THEN /\ message' = Set(message, s, [kind |-> "update",
                     updates |-> Only(tree, paths[s]), deletes |-> getDeletes(s)])
                /\ run' = Set(run, s, "send")
                /\ UNCHANGED <<updatedList, deletedList>>
           ELSE /\ run' = Set(run, s, "wait")
                /\ updatedList' = Set(updatedList, s, {})
                /\ deletedList' = Set(deletedList, s, {})
                /\ UNCHANGED message
    /\ missed' = Set(missed, s, IF from[s] = None /\ eventque[s] = <<>>
                                THEN missed[s] \ (paths[s] \cap Populated(db)) ELSE missed[s])
    /\ UNCHANGED <<model, lookup, session, paths, started, runners, timers, from, eventque,
                   respchan, client, crashed, bounds>>

\* The message is sent under the read lock; respchan may be closed by now.
SendUpdate(s) ==
    /\ run[s] = "send"
    /\ at[s] \notin {"wait", "closed"} /\ RespHasRoom(s)
    /\ respchan' = Set(respchan, s, Append(respchan[s], message[s]))
    /\ run' = Set(run, s, "wait")
    /\ updatedList' = Set(updatedList, s, {})
    /\ deletedList' = Set(deletedList, s, {})
    /\ message' = Set(message, s, Sync)
    /\ from' = Set(from, s, None)
    /\ UNCHANGED <<model, lookup, session, paths, started, runners, timers, eventque, client,
                   missed, crashed, bounds>>

\* A send on the closed respchan: the process panics.
SendPanics(s) ==
    /\ run[s] = "send" /\ at[s] = "wait"
    /\ crashed' = TRUE
    /\ UNCHANGED <<model, lookup, session, subscription, eventque, respchan, client, missed,
                   bounds>>

\* run returns; the subscription stays registered.
RunReturns(s) ==
    /\ run' = Set(run, s, "quit")
    /\ from' = Set(from, s, None)
    /\ timers' = Set(timers, s, <<>>)
    /\ UNCHANGED <<model, lookup, session, paths, started, runners, updatedList, deletedList,
                   message, eventque, respchan, client, missed, crashed, bounds>>

\* telemetryUpdate returns an error (a value that cannot be encoded).
UpdateError(s) == UpdateFails /\ run[s] = "read" /\ CanRLock /\ RunReturns(s)

\* Defect: the closed shutdown channel is not noticed.
NeverShutdown(s) == at[s] = "closed"

ShutdownSeen(s) == at[s] = "wait"

Shutdown(s) == run[s] = "wait" /\ ShutdownSeen(s) /\ RunReturns(s)

\* The deferred function of run: it clears the mark ...
ClearStarted(s) ==
    /\ run[s] = "quit"
    /\ run' = Set(run, s, "none")
    /\ started' = Set(started, s, FALSE)
    /\ UNCHANGED <<model, lookup, session, paths, runners, timers, from, updatedList,
                   deletedList, message, eventque, respchan, client, missed, crashed, bounds>>

\* Goroutines that have cleared the mark and not yet called Done; another one
\* may have been started meanwhile.
Leaving(s) == runners[s] - (IF run[s] = "none" THEN 0 ELSE 1)

\* ... and calls Done.
RunDone(s) ==
    /\ Leaving(s) > 0
    /\ runners' = Set(runners, s, runners[s] - 1)
    /\ UNCHANGED <<model, lookup, session, paths, started, run, timers, from, updatedList,
                   deletedList, message, eventque, respchan, client, missed, crashed, bounds>>

Runner(s) ==
    ReceiveEvent(s) \/ ReceiveTimer(s) \/ ReadTree(s) \/ SendUpdate(s) \/ SendPanics(s)
      \/ UpdateError(s) \/ Shutdown(s) \/ ClearStarted(s) \/ RunDone(s)

-----------------------------------------------------------------------------
\* The responder sends one message to the client, which applies it.
Deliver(s) ==
    /\ respchan[s] # <<>>
    /\ LET m == Head(respchan[s])
       IN  /\ view' = Set(view, s, [p \in Paths |->
                        IF m.updates[p] # None THEN m.updates[p]
                        ELSE IF p \in m.deletes THEN None ELSE view[s][p]])
           /\ synced' = Set(synced, s, synced[s] \/ m.kind = "sync")
           /\ early' = Set(early, s, early[s] \/ (m.kind = "update" /\ ~synced[s]))
    /\ respchan' = Set(respchan, s, Tail(respchan[s]))
    /\ UNCHANGED <<model, lookup, session, subscription, eventque, missed, crashed, bounds>>

\* ChangeCompleted waits, with the lock of the model, for a queue whose
\* goroutine waits for that lock, is gone or has jammed.
Wedged ==
    tx = "ending" /\ \E s \in Subs :
        /\ ready[s] # None /\ Len(eventque[s]) = EventCap
        /\ run[s] \in {"none", "quit", "read", "stuck"}

\* The goroutine blocks in a send to its own channel.
Jammed(s) == run[s] = "stuck"

\* The process has ended or hangs, or everybody is done.
Finished ==
    /\ \/ crashed \/ Wedged
       \/ /\ txs = MaxTx /\ tx = "none"
          /\ \A s \in Subs : at[s] = "closed" \/ (at[s] = "wait" /\ Jammed(s))
    /\ UNCHANGED vars

Next ==
    \/ /\ ~crashed
       /\ \/ Transaction
          \/ \E s \in Subs, p \in Paths : Request(s, p)
          \/ \E s \in Subs :
               Proceed(s) \/ Refuse(s) \/ StreamEnds(s) \/ Timer(s) \/ Runner(s) \/ Deliver(s)
    \/ Finished

Spec == Init /\ [][Next]_vars

\* Every goroutine that can run is run, an open transaction is finished, and
\* clients keep reading.  Requests, timers and new transactions need not come.
FairSpec ==
    /\ Spec
    /\ WF_vars(~crashed /\ (ChangeCompleted \/ (\E s \in Subs : SendEvent(s)) \/ UpdateEnd))
    /\ \A s \in Subs :
         /\ WF_vars(~crashed /\ Proceed(s))
         /\ WF_vars(~crashed /\ Runner(s))
         /\ WF_vars(~crashed /\ Deliver(s))

-----------------------------------------------------------------------------
(* Properties *)

\* The trees, lists and channels of subscribe.go stay within their types and
\* capacities.
TypeOK ==
    /\ db \in Tree /\ updatedroot \in Tree
    /\ tx \in {"none", "write", "delete", "ending"}
    /\ ready \in [Subs -> Event \cup {None}]
    /\ lookup \in [Paths -> SUBSET Subs]
    /\ at \in [Subs -> {"recv", "init", "sending", "add", "info", "start", "stop",
                        "unregister", "close", "wait", "closed"}]
    /\ req \in [Subs -> Paths \cup {None}]
    /\ paths \in [Subs -> SUBSET Paths]
    /\ started \in [Subs -> BOOLEAN] /\ runners \in [Subs -> Nat]
    /\ run \in [Subs -> {"none", "wait", "read", "send", "quit", "stuck"}]
    /\ from \in [Subs -> Tree \cup {None}]
    /\ updatedList \in [Subs -> SUBSET Paths] /\ deletedList \in [Subs -> SUBSET Paths]
    /\ message \in [Subs -> Message]
    /\ \A s \in Subs :
         /\ eventque[s] \in Seq(Event) /\ Len(eventque[s]) <= EventCap
         /\ respchan[s] \in Seq(Message) /\ Len(respchan[s]) <= RespCap
         /\ timers[s] \in Seq(BOOLEAN) /\ Len(timers[s]) <= TimerCap
         /\ outbox[s] \in Seq(Message)
    /\ view \in [Subs -> Tree] /\ synced \in [Subs -> BOOLEAN] /\ early \in [Subs -> BOOLEAN]
    /\ missed \in [Subs -> SUBSET Paths]
    /\ crashed \in BOOLEAN

\* Everything that was to be sent to the client of s has reached it.
Settled(s) ==
    /\ at[s] = "recv" /\ run[s] = "wait" /\ tx = "none"
    /\ eventque[s] = <<>> /\ respchan[s] = <<>>
    /\ updatedList[s] = {} /\ deletedList[s] = {}

\* Once a session has settled its client's copy of a subscribed leaf is the
\* data of the model, however transactions, events, timers and the start of
\* the subscription interleaved.  The one exception are the leaves whose last
\* change made no event for it, because it fell between initTelemetryUpdate and
\* register or was a Set without StateConfig, until they are read again with no
\* older event under way (processSubscribeRequest, telemetryUpdate).
ViewConverges ==
    \A s \in Subs : Settled(s) =>
        \A p \in paths[s] \ missed[s] : view[s][p] = db[p]

\* No telemetry update reaches the client before a sync_response
\* (processSubscribeRequest, initTelemetryUpdate before StartTelmetryUpdate).
SyncedBeforeTelemetry == \A s \in Subs : ~early[s]

\* A transaction, which holds the lock of the model, ends, whatever its
\* subscribers, their sessions and clients do: the one thing it can hang on is a
\* full queue whose goroutine waits for that lock, failed or has jammed
\* (ChangeCompleted).
TransactionEnds == tx # "none" ~> (tx = "none" \/ crashed \/ Wedged)

\* "UpdateEnd indicates the end of the Model instance update" (model.go): the
\* call returns and the lock of the model is free.  Does NOT hold when the
\* queue of a subscription is full and its goroutine waits for that lock
\* (MCTelemetryQueueFull.cfg).
UpdateEndReturns == tx = "ending" ~> (tx # "ending" \/ crashed)

\* A session that ends is cleaned up: its goroutines see the shutdown, also one
\* that was started while the last one was leaving, and the RPC returns, unless
\* the process has ended or hangs or its goroutine jammed (stopSubSession, run).
SessionStops ==
    \A s \in Subs : at[s] = "stop" ~> (at[s] = "closed" \/ crashed \/ Wedged \/ Jammed(s))

\* A goroutine started again after an error still has what the failed one left.
LeftOver(s) == run[s] = "wait" /\ (updatedList[s] # {} \/ deletedList[s] # {})

\* The subscription is served no more: its session ends, or its goroutine failed
\* or jammed, or the process has ended or hangs.
Unserved(s) ==
    \/ at[s] \in {"stop", "unregister", "close", "wait", "closed"}
    \/ ~started[s] \/ run[s] = "quit" \/ Jammed(s) \/ Wedged \/ crashed

\* A change of a leaf with a subscriber in ON_CHANGE mode reaches the client,
\* which has the value of the model again, unless the leaf is Set silently, the
\* session ends or its goroutine failed on the way (ChangeCompleted, run,
\* telemetryUpdate).
ChangeDelivered ==
    \A s \in OnChange, p \in Paths :
        (s \in lookup[p] /\ p \notin missed[s])
            ~> (view[s][p] = db[p] \/ p \in missed[s] \/ LeftOver(s) \/ Unserved(s))

\* A heartbeat repairs the client's copy: a leaf with a value reaches the client
\* after one even if its last change made no event, unless it changes again or
\* the subscription is served no more (run, telemetryUpdate with a nil tree).
HeartbeatRepairs ==
    \A s \in OnChange, p \in Paths, v \in Values :
        (timers[s] # <<>> /\ p \in paths[s] /\ db[p] = v)
            ~> (view[s][p] = v \/ db[p] # v \/ Unserved(s))

\* "ChangeDeleted - callback for Telemetry subscription on data changes": the
\* client of a settled subscription does not keep a leaf that was deleted.
\* Does NOT hold with a prefix (MCTelemetryPrefix.cfg).
DeletedLeavesView ==
    \A s \in Subs : Settled(s) =>
        \A p \in paths[s] \ missed[s] : db[p] = None => view[s][p] = None

=============================================================================
