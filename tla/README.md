# Verification of gnxi: gNMI server and gNOI certificate management

TLA+ models of the gNMI server (`gnmi/server`, `gnmi/model`), its path library
(`utilities/xpath`) and daemon (`gnmid`), of the gNOI certificate service and
client (`gnoi/cert`, `gnoi_cert`) and of the gNOI target (`gnoi_target`), the
TLC configurations that check them on small instances, and TLAPS proofs of the
main safety properties for instances of any size. File and line numbers refer
to the repository root (`src/` in `PROJECT.json`).

## The system

| Component | State | Operations | Talks to |
|---|---|---|---|
| Aliases (`gnmi/server/aliases.go`) | two maps, name to entry and path to entry, per Subscribe session | add and remove target aliases, add and delete client aliases, translate | RPC goroutine writes, telemetry goroutines read |
| Set (`gnmi/model/set.go`, `server.go`) | data tree, list of backup entries | delete, replace, update, rollback, done | external system through `StateConfig`, which reports through `StateUpdate` |
| Telemetry (`gnmi/server/subscribe.go`, `model.go`) | data tree, event queues, response channels, subscriptions | data transactions, subscribe requests, timers, shutdown | model lock, `teleCtrl` mutex, bounded channels |
| Sessions (`utilities/netsession`, `session.go`) | connection and session tables by remote address | accept, close | gRPC calls Close from several goroutines |
| Certificate manager and service (`gnoi/cert`) | certificates, CA bundle, lock table, notifiers | Install, Rotate (accept or rollback), Revoke | one goroutine per RPC, `go notify()` |
| gNOI target (`gnoi_target`, `gnoi/gnoi.go`) | mode flag, current gRPC server | switch between encrypted and authenticated mode | called by the manager with its read lock held |
| Certificate client (`gnoi/cert/client.go`, `gnoi_cert`) | the step of its call, a deadline | install, rotate, validate, finalize, revoke | handlers, over gRPC streams that break |
| Get and state sync (`gnmi/model/get.go`, `server.go`) | path trees of the sync paths | register and unregister instances, request a sync, read | StateSync before the read lock, data tree under it |
| Schema and data tree (`model.go`, `mo.go`, `utilities.go`, `gostruct`) | generated schema; tree of structs, list entries and leaves | lookups with wildcards, write, delete, find, internal JSON | all of the above |
| Path library (`utilities/xpath`) | none | parse, format, merge prefix and path, schema path | all of the above |
| Daemon and subsystem (`gnmid`) | interface counters | poll, answer a sync | publishes to the model through YDB |
| Login, credentials, status | none | | see *Not modelled* |

What is hard here is what a test hardly reaches: goroutines that hold a lock
while they block on a channel or on gRPC; a failure in the middle of a
transaction over two systems; queued events that are older than the data a
timer reads; closures that undo an operation after others have run; tables
whose key outlives its entry; streams that break between two messages; data
that is refreshed by one path and read by another; strings and trees that the
same path walks in four different functions. `PROJECT.json` lists these hazards at their
lines with the properties aimed at them.

## Modules

| Module | Models | Composes |
|---|---|---|
| `ClientAliases` | alias tables of a session | |
| `ClientAliasesProofs` | theorems about it | `ClientAliases` |
| `SetTransaction` | Set RPC, model, external system | |
| `AtomicSet` | abstract specification: a Set on a private copy that takes effect as a whole or not at all | |
| `SetTransactionProofs` | theorems about it, among them that it implements `AtomicSet` | `SetTransaction` |
| `CertManager` | certificate manager with its RPC handlers and notify goroutines | |
| `CertManagerProofs` | theorems about it | `CertManager` |
| `CertStore` | abstract specification: certificates that are loaded, accepted, rolled back, revoked | |
| `CertStoreProofs` | `CertManager` implements `CertStore` | `CertManagerProofs` |
| `CertProtocol` | certificate clients, handlers and the streams between them | `CertManager`, whose actions it extends |
| `CertProtocolProofs` | theorems about it | `CertProtocol`, `CertStoreProofs` |
| `GnoiTarget` | concurrent notifiers and gRPC servers | `CertManager`, whose actions it extends |
| `GnoiTargetProofs` | theorems about it | `GnoiTarget`, `CertStoreProofs` |
| `Telemetry` | transactions, events, subscriptions, sessions, client | |
| `TelemetryProofs` | theorems about it | `Telemetry` |
| `NetSession` | connection and session tables | |
| `NetSessionProofs` | theorems about it | `NetSession` |
| `XPath` | path strings: parser, formatter, merge, lookup over the string | |
| `SystemSchema`, `DeviceSchema` | the generated schema, one definition per Go struct | |
| `Schema` | lookups of paths in a schema and in the Go types | schema as a constant |
| `DataTree` | reads, writes and deletes in a tree of that schema, internal JSON | `Schema` |
| `Reads` | state sync, model updates, Get and the first read of a subscription, daemon and subsystem | `DataTree` |

`MC*.tla` declare model values and symmetry sets, `MC*.cfg` give the constants
their values; `CertProtocol`, `GnoiTarget` and `Telemetry` need no such module
and are checked as they are. An operator whose comment begins with *Defect* is not used by the
specification: it is a mutated form of the operator below it, kept to show that
the property it is paired with in `PROJECT.json` would notice that bug.

### ClientAliases

`alias2path`, `path2alias` and `useServerAliases` are the fields of
`clientAliases`. `updateServerAliases` iterates over a Go map, so its loop is
one step per entry (`ServerEntry`) in any order, with the mutex held. A client
request is a batch of `updateClientAlias` steps that ends at its first error.
`Announce` is `buildAliasResponse` for one name; `told` is what the client
knows. Names and paths are model values; the target aliases are a function, one
of them with a path that does not parse and two for the same path.

### SetTransaction

The tree is the value of each leaf and the set of linked containers (Go
structs). A backup entry of an updated container is a pointer, so it is `live`:
its content follows the tree until the struct is unlinked. `executeStateConfig`
makes the calls that `ListAll` of the old value and of the tree lead to, and may
fail after any of them. A target is refused before its backup (`SetRefuse`: it is
read-only, or its path does not convert back) or fails after it (`NotDeleted`,
`BadData`). Containers are not nested, and the deletion of the root
(`set.go:136`), which replaces the whole tree by an empty one, is left out. `dirty` are the leaves the external system has been
told about and has not reported back; `StateUpdate` reports some of them.
`Disjoint` and `Merges` say which requests an instance has: targets that do not
overlap, and updates of existing containers. The passing run needs
`Disjoint = TRUE` and `Merges = FALSE`; `MCSetRollbackOrder.cfg` and
`MCSetRollbackMerge.cfg` show why.

`AtomicSet` is what a Set promises: its operations change a private copy
(`work`), deletes before replaces before updates, which becomes the
configuration with the last of them or is thrown away at the first error. The
code has no copy: it works on the tree that is read. The refinement mapping at
the end of `SetTransaction` therefore takes `orig` for the configuration until
the Set is over and the tree for the private copy, and closes the abstract Set
at its first error, so that the whole rollback is stuttering, but for what it
tells the external system. With a StateConfig (`Deferred`) a Set only tells the
external system, and each report changes the configuration. List keys, which
DeleteValue keeps, and the links to empty containers are not part of the
abstract configuration.

### CertManager and GnoiTarget

A handler is a record in `rpc`: where it is and what `update` captured for its
closures. Writers of `Manager.mu` are single steps that wait until no notify is
between `NotifyBegin` and `NotifyEnd`. `committed`, `accepted` and `unsettled`
are history: the certificate last accepted for each ID, the CA bundle last
accepted, and whether two loads of CA bundles have overlapped or one was left
with neither closure called. `BadPEM` and `SendFails` admit the two kinds of
failure.

`CertStore` is what the manager promises: each ID has a certificate in force,
which an operation replaces at once when it is accepted; until then what it
loaded is only `loaded`. An ID whose operation failed half way is `lost`: it
keeps what it has and nobody can operate on it again. The refinement mapping at
the end of `CertManager` takes the certificate a rollback would put back for
the one in force while an operation is in progress.

`CertProtocol` replaces the arbitrary client of `CertManager` by the one of
`client.go`. Streams keep the order of messages; a stream is `cut` when the
call returns (`conn.Close`, or the process exits), when its deadline passes or
when the network fails. After the cut each side may still receive what is under
way or see the error, and what it sends is lost, with or without an error from
Send. A certificate or CA bundle that does not decode (`ServerLoadsBad`) ends the
call and leaves the ID locked. `outcome` and `stranded` are history: how the target
concluded a call, and the IDs that were left locked by such an error or by a
response that could not be sent.

`GnoiTarget` adds the globals of `gnoi_target.go`. Each read or write of
`bootstrapping` and `grpcServer` by a notifier is a step, because nothing
guards them and the manager runs any number of notifiers under its read lock.
`raced` is history: a notifier decided to switch while another one was between its
own test of the flag and its assignment to it. What then holds no more is shown by
`MCGnoiModeRace.cfg`; everything else about concurrent notifiers, two that both
read a flag which is already right, one that waits in `GracefulStop` while another
returns, is inside the properties. `GracefulStop` returns when no handler runs on the server it stops
(external: gRPC). An authenticated server accepts a connection only if it has a
certificate and a CA (`TLSCertificates`).

### Telemetry

The writer of the model lock is a transaction (`tx`), its readers are
`initTelemetryUpdate` (`at = "sending"`) and `telemetryUpdate`
(`run = "send"`), which keep the lock while they send to `respchan`.
`ChangeCompleted` keeps both the model lock and `teleCtrl.mutex` while it sends
to `eventque`. A send on a closed `respchan` ends the process (`crashed`). The
client applies deletes before updates, as gNMI says.

A ticker that fires is sent by the goroutine to its own channel `timerExpired`
(`TimerFires`) and received later (`ReceiveTimer`); with the channel full the
goroutine blocks in that send for ever (`TimerJams`, `run = "stuck"`, `Jammed`).
A goroutine that ends does so in three steps: `run` returns (`"quit"`), the mark
`started` is cleared (`ClearStarted`), `Done` is called (`RunDone`); a request in
between starts a second goroutine, or none. `Wedged` is the state in which
`ChangeCompleted` waits, with the model lock, for a full queue that nobody will
read: its goroutine waits for that lock, has ended or has jammed.

`SetSilently` is a Set with no `StateConfig` installed: it changes the tree under
the lock and notifies nobody. `missed` is history: the leaves whose last change
made no event for a session, because it was such a Set or fell into the gap between
the initial data and `register`. A leaf leaves the set when it is read again with no
older event under way: by a heartbeat or a sample, or by a repeated request.

### NetSession

`Accept` and `Started`, and the three steps of `Close`, are separate actions.
gRPC closes a connection up to `MaxCloses` times. `ConcurrentMapWrites` is the
outcome the Go runtime may give the unlocked writes of `Server.sessions`.

### XPath

Strings are sequences of characters from a small alphabet that has every
character the code looks at. `splitPath`, `parseKeyValueString`,
`parseElement` and the lookup of `mo.go` are folds over them, with the errors of
the code. A function that writes keys in the order of a Go map gives the set of
strings it may return. `MCXPath` puts every string together from a list of
fragments, so that also malformed ones are met.

### DeviceSchema, Schema and DataTree

`DeviceSchema` is the generated schema in full: structs, lists with their keys,
leaves and leaf-lists (types of leaves are left out). `Schema` has the four
searches over it: two over `yang.Entry.Dir`, one for the paths a subscription is
registered under, one for the paths a sync is requested for. A path is a
sequence of elements with a name and a function from key names to values; what
the string form of a path does to the lookup (no entry for two keys) is kept.
`DataTree` is a function from the instance paths that exist to their values.

`MCSchema` walks every instance path of the whole schema and, beside it, the
requests that stand for it: each element as it is, `*`, `...`, without its keys
or with `*` for a key.

### Reads

`trees` are the instance paths registered for each sync path. A Get asks the
system for what `RequestStateSync` finds, waits until all have answered or the
sync times out, and reads under the lock. The subsystem polls: what a tick
collects is written later, interface by interface, and a sync response may come
in between. Interfaces are withdrawn and published again. The counters of an
interface are one number that only grows. `late` is history: interfaces whose
answer did not come in time or was overwritten by an older poll.

## Runs

All are exhaustive. The bounds are those of the `.cfg` files.

| Run | Shows | Bounds |
|---|---|---|
| `aliases` | `RoundTrip`, `AnnouncedBeforeNextRequest` | 3 names, 2 paths, batches of 2: name and path collisions in both directions |
| `set_device` | `RollbackRestoresTree`, `NoConfigLostByFailedSet`, `AgreeWhenReported`, `ImplementsAtomicSet` | 2 Sets of 2 targets, so that one is executed when the other fails, and a Set follows an unreported one; a container with a list key |
| `cert_manager` | `NotifierCountsCurrent`, `NotifiedWhenQuiet`, `OneOperationPerCert`, `CommittedWhenUnlocked`, `BundleSettled`, `ImplementsStore`, with failing decodes and sends | 2 handlers, 2 notifiers, 4 RPCs, 2 IDs, 2 certificates |
| `cert_protocol` | `InstallOkIsAccepted`, `FailedRotateNotAccepted`, `ValidatesOwnCert`, `HandlersEnd`, `LocksEnd` | 2 clients on one ID, 3 calls, 2 certificates, one connection lost by the network beside the deadlines, which may pass at every step, certificates that do not decode (495 000 states) |
| `target_switch` | `ModeMatchesCredentials`, `NothingOnOldServers`, with failing decodes and sends | 2 notifiers at a time, 2 handlers, 2 IDs, 3 RPCs: to authenticated mode and back |
| `telemetry_changes` | `ViewConverges`, `SyncedBeforeTelemetry`, `TransactionEnds`, `SessionStops`, `ChangeDelivered`, `HeartbeatRepairs` | ON_CHANGE with 2 heartbeats, one session, 2 requests, 2 values, 2 transactions or silent Sets, all channels of 1, so that each of them is full, goroutines that fail (400 000 states) |
| `telemetry_sessions` | `ViewConverges` | two sessions, ON_CHANGE and SAMPLE with suppress_redundant, 2 transactions, a timer, event queues of 2 |
| `sessions` | `OwnSession`, `NothingLeft` | 3 connections, 2 addresses of which one is reused early, 2 closes each |
| `paths` | `FormattedParsesBack`, `EscapedValueSurvives`, `ReadersAgree`, `MergeFollowsDepth`, `LookupFollowsPath` | every string of a start and up to 4 fragments: two elements with a key that has escapes, `..` past the prefix |
| `schema` | `WrittenIsFound`, `ChangeIsRegistered`, `DeleteSparesOnlyKeys`, `JSONReadsBack` | every instance path of the whole schema, one element of the request a wildcard (`...` for any number of levels), one value per key |
| `reads` | `SyncRegistered`, `GetFresh`, `AnswerIsExact` | 2 clients with one request each out of ten, one interface that answers and one that does not, counters up to 1; the part of the schema below `/interfaces` with one counter |

`target_switch` does not check for deadlock: the target really may stop for
good, see `target_switch_deadlock`. Neither does `reads`, because a panic of a
handler ends the process, nor `paths` and `schema`, whose behaviours end when
the string or the path is complete.

`telemetry_changes` subscribes to one leaf. With two leaves and goroutines that
fail, the update of one leaf is lost when the next event is about the other: it
was taken from the queue by the goroutine that failed, and the tree of the next
event does not have it. `ViewConverges` also fails if a session subscribes to a
second leaf while events are queued, because old events then speak of that leaf
as well. Both are recorded as hazards.

`MCSetAtomic.cfg`, which passes as well, checks `ImplementsAtomicSet` without an
external system, where a Set takes effect at its `Commit` (2 Sets of 2 targets, 2
values, 2.5 million states); it is not among the runs because the theorem covers
both cases.

The type invariants (`TypeOK`, `TTypeOK`) hold in the same instances. They are
proved in every module of proofs and not listed as properties. Neither are
`ServerUpdateKeepsClientNames` and `HeldCertStable`, which are proved; the second
is also what `ImplementsStore` says of a certificate that is loaded.

The run with `expect: violation` checks a statement of the repository that the
code does not keep. It has a finding in `PROJECT.json` with the quotation.

| Run | Counterexample |
|---|---|
| `target_switch_deadlock` | Install waits for the lock held by the notification it caused |

Further configurations show, each with a counterexample, statements of the
repository that the code does not keep, or why a property above is not stated
more generally. They are not among the runs of `PROJECT.json`.

| Configuration | Property | Counterexample |
|---|---|---|
| `MCClientAliasesOnePerPath.cfg` | `OneAliasPerPath` | a target alias is added for a path the client has named |
| `MCSetRollbackOrder.cfg` | `RollbackRestoresTree` | a Set deletes a container, sets a leaf of it and fails; the leaf's backup (none) is undone last ("reverts the original configuration", `set.go:76`) |
| `MCSetRollbackMerge.cfg` | `RollbackRestoresTree` | an updated container is restored from itself |
| `MCSetStateConfig.cfg` | `FailedSetKeepsEarlierSet` | Set 1 succeeds, is not reported; Set 2 fails and configures the data before Set 1 |
| `MCSetStateConfig.cfg` | `DeletedIsGone` | a deleted leaf is never deleted in the external system and comes back |
| `MCCertLimits.cfg` | `LockedMeansInProgress` | a certificate that does not decode |
| `MCCertLimits.cfg` | `CommittedWhenIdle` | the response of a Rotate cannot be sent ("the target must rollback to the original Certificate", `cert.proto:31`) |
| `MCCertFinalizeLost.cfg` | `RotateOkIsAccepted` | the client sends Finalize, returns success and closes the connection before it is delivered |
| `MCCertBundle.cfg` | `BundleAccepted` | two rotations with bundles, the second is accepted, the first rolls back |
| `MCGnoiModeRace.cfg` | `RightModeWhenQuiet` | two notifications both see the old flag (`gnoi_target.go:60`) |
| `MCTelemetryPrefix.cfg` | `DeletedLeavesView` | a transaction of deletes only, subscribed under a prefix |
| `MCTelemetryQueueFull.cfg` | `UpdateEndReturns` | two transactions between the receipt of an event and the read lock, queue full |
| `MCNetSessionLost.cfg` | `SessionWhileInUse` | an old connection is closed after its address was reused |
| `MCXPathLimits.cfg` | `BracketNeedsNoEscape` | a `[` in a key value, which only has to escape `]` (`xpath.go:54`) |
| | `LookupFindsEveryPath` | an element with two keys |
| `MCSchemaLimits.cfg` | `EveryChangeIsRegistered` | a subscription with `[name=*]` is registered as it stands |
| | `JSONReadsBack` | a key value with a space |
| `MCReadsSubscribe.cfg` | `GetFresh` | a subscription with two paths in the schema: the second path tree is searched for the second path (`get.go:173`) |
| `MCReadsNested.cfg` | `NoPanic` | a sync path above an earlier one, a keyed subscription |

TLC stops at the first violation; with `-continue` it reports those of both
properties of a configuration that has two.

## Fairness

The liveness runs (`telemetry_changes`, `cert_protocol`) assume weak fairness of
every goroutine of the program (the Go scheduler), of finishing an open
transaction, and of clients that read their stream. Nothing is assumed of the
functions given to `RegisterNotifier`, since the one of `gnoi_target` need not
return (`target_switch_deadlock`): that they do return is the antecedent
`NotifiersReturn` of `HandlersEnd` and `LocksEnd`. A certificate client takes a step
or fails, because its context has a deadline (`gnoi_cert.go:75`). A client need not send requests, timers need not expire, new transactions need not
begin, RPCs need not be opened: those actions have no fairness. Weak fairness
is enough: what is waited for is stable, except for `Manager.mu` and the model lock, whose
`sync.RWMutex` serves a waiting writer before new readers; the bounds on RPCs
and transactions make such waits end in the model as well.
`TransactionEnds` and `SessionStops` are checked with queues that do fill up. They
name what may still stop them: the panic of a send on a closed channel (`crashed`),
`Wedged`, and for a session its own goroutine when it has jammed.
`MCTelemetryQueueFull.cfg` shows how a transaction gets there, with a queue of one in
place of 64.

## Proofs

Eight modules of proofs show, for every value of the constants that satisfies
the named assumption of the module they are about, what the runs check on small
instances. Each inductive invariant was first checked with TLC on the
instances of the runs.

* **ClientAliases** (`AliasAssumption`): `TypeOK`, `RoundTrip`,
  `AnnouncedBeforeNextRequest`, `ServerUpdateKeepsClientNames`. `RoundTrip` is
  not inductive. The invariant `IInv` adds `TablesAgree` (the entry of a path is
  the entry of its name; the converse fails, see
  `MCClientAliasesOnePerPath.cfg`) and `AnnouncedOrPending` (an alias in use was
  announced or is on the list, and the list is empty between requests).
* **CertManager** (`CertAssumption`): `TypeOK`, `OneOperationPerCert`,
  `CommittedWhenUnlocked`, `HeldCertStable` from an invariant saying that a
  handler between `update` and its closure has its ID locked, alone, and holds
  the committed certificate as the one to put back; `NotifierCountsCurrent`
  from the exclusion of writers by readers;
  `NotifiedWhenQuiet` from both, with two lemmas: an update that fails half way
  leaves a locked ID without a handler (`FailedUpdateOrphansLock`), and such a
  lock stays (`OrphanedLockStays`), so that the exception in the property covers
  every state after an unnotified change. `BundleSettled` needs `BundleInv`: as
  long as loads of CA bundles do not overlap there is at most one, the bundle it
  brought is in force, and the one it would put back is the one last accepted.
  Operations without a bundle, which the lock table lets run beside it, capture
  nothing and put nothing back.

* **CertManager implements CertStore** (`SpecImplementsStore`, property
  `ImplementsStore`). Initial states map to initial states; every action maps to
  the step of the store it is (`update` to `Load`, the closures to `Accept` and
  `Rollback`, a failed `update` to `LoseLoading` or a stutter, a failed response
  to `LoseLoaded`) and the notify goroutines to stuttering. The argument needs the
  invariant of `CertManagerProofs` and one more, `RotatesExisting`: an operation
  that may roll back had a certificate to put back, which is why a rollback never
  leaves an entry with no certificate in the map.

* **CertProtocol**. `ProtocolImplementsManager`: clients and streams only restrict
  what the arbitrary client of `CertManager` may do, so `PSpec => Spec` and all
  theorems about the manager hold here too, the refinement included
  (`ProtocolImplementsStore`). `InstallOkIsAccepted`,
  `FailedRotateNotAccepted` and `ValidatesOwnCert` speak of the two ends of a
  stream and are not inductive: the invariant `PInv` follows what is between
  them. A handler serves its client's call (`Serves`), a `load` under way has the
  certificate that client signed and a `finalize` under way comes from a client
  that returned nil (`Requested`), and a response, received or under way, tells
  where the handler is or ended (`Answered`). With the invariant of `CertManager`
  the certificate a client validates is the one in the map.

* **GnoiTarget**. `TargetImplementsManager` as above, and from it
  `TargetImplementsStore` and `TargetBundleSettled`. Both further
  theorems are for any number of notifiers at a time. That RPCs are on the server
  being served needs no more than that `muServe` is held by one `serve`
  (`Served`). The rest of `NothingOnOldServers` is for behaviours that have not
  `raced`: then at most one notifier is between its test and its assignment
  (`Exclusive`), and it waits for the server that is current (`StopsCurrent`).
  `ModeMatchesCredentials` needs `ModeInv` as well: at each place of that
  notifier, how flag, server and the counts it was called with fit together, and
  with no notifier running the flag is right or a notification is pending.
  An update that fails half way stores its
  certificate and notifies nobody; the property allows for it where it happened
  (`NothingHalfDone`), and `OrphanedLockStays` shows that such a state is known
  by its locked ID for ever.

* **Telemetry** (`TelemetryAssumption` and `NoneAssumption`). `TypeOK` needs
  `RunInv`: a goroutine that has not cleared the mark is counted in the waitgroup,
  beside those that are leaving. `SyncedBeforeTelemetry` from the order
  in `respchan`: a goroutine that runs has a sync_response before it, delivered
  or in the channel. `ViewConverges` from `ViewInv`, which follows a value on
  its way: the last event of a queue has the present value of the leaf
  (`LatestEvent`); with no event left, what the goroutine read or sends has it
  (`LatestMessage`); with nothing to read left, the last message in the channel
  about the leaf has it, or the client (`OnItsWay`). Readers and the writer of
  the model lock exclude each other (`Changes`), which is why what is being
  sent cannot become old. Silent Sets and the gap before `register` put a leaf in
  `missed`, and only a read with no older event under way takes it out again. The
  hypotheses are `OneLeafEach`, a session follows
  one leaf, and `PrefixIsRoot`. The property is false without them (see
  *Runs*, and `MCTelemetryPrefix.cfg`). Sessions, transactions, timers, failing
  goroutines and the sizes of the channels are not restricted.

* **NetSession** (`NetAssumption`): `OwnSession` and `NothingLeft`. The invariant says that Close
  takes its steps in order, that an entry belongs to a connection of its address
  that has not taken the step which deletes it (`EntriesOpen`, from which
  `NothingLeft` follows, reused addresses included), and that of two connections
  of an address that is not reused early one is closed for good.

* **SetTransaction** (`SetAssumption`): `TypeOK` without further hypotheses: also
  a rollback in the wrong order leaves no set leaf outside a linked container.
  `RollbackRestoresTree`, `NoConfigLostByFailedSet` and `AgreeWhenReported` for
  requests with `Separate`: targets that do not overlap, no merge
  (`MCSetRollbackOrder.cfg` and `MCSetRollbackMerge.cfg` show that the first
  fails without either). `RestoreInv` says that an entry keeps what its target
  was when the Set began, which is why its target may not be covered by an
  earlier entry, that nothing changes an entry later (no entry is `live`), and
  that a leaf without an entry still to be undone is as it was. `DeviceInv` says
  the same of the external system and of the entries still to be replayed, as
  long as none of its calls failed. `ReportInv` says that the Model outside a
  Set and the external system differ only in leaves that are not reported:
  SetDone takes the new data out of the Model in any case, so that only the
  report brings it back. List keys are excepted, as in the properties.

* **SetTransaction implements AtomicSet** (`SpecImplementsAtomicSet`, property
  `ImplementsAtomicSet`), with the same hypothesis `Separate`. Each operation maps
  to `Delete`, `Replace` or `Update` of its target, an operation that fails to
  `Abort`, the end of the updates to `Commit`, a report to `Report`; the
  steps of the rollback and of SetDone map to stuttering or to `TakeBack`. That
  the tree may be thrown away at the first error is what `RestoreInv` proves of
  the rollback; that SetDone gives the old data back with a StateConfig follows
  from the same invariant. `AtomicInv` adds that a rollback follows an error and
  that nothing is unreported without a StateConfig. What a step tells the
  external system is confined to its target (`DeviceStep`).

Only model-checked: the liveness properties (`TransactionEnds`, `SessionStops`,
`ChangeDelivered`, `HeartbeatRepairs`, `HandlersEnd`, `LocksEnd`), which are out of the prover's
reach, and what `XPath`, `Schema`, `DataTree` and `Reads` compute (the properties
of the runs `paths`, `schema` and `reads`): their definitions are recursive over
strings and trees, and a property of what they return for every input needs an
induction over data that the prover cannot do.

## Not modelled

* `updates_only`, several subscriptions aggregated in one session, and the state
  sync before a sample (`subscribe.go`).
* `NewModel` and `Load` (`model.go`): they run before the server is
  reachable. `Load` puts the startup data in the tree without registering it for
  the state sync, but also writes it to ydb, which `SetTarget(model, true)` plays
  to the model as creates (external); `Reads` starts there.
* The deletion of the root by a Set (`set.go:136`), and containers inside containers
  in `SetTransaction`.
* The elements of leaf-lists: a wildcard below a leaf-list finds the leaf-list
  itself, and an element after one in a written path, which is taken for its value
  when there is no other (`utilities.go:889`). Fields that a wildcard finds unset,
  which Get sends as updates without a value (`server.go:414`).
* Conversion of values to Go types, encoding of typed values, YAML, `Diff` and
  debug output (`utilities.go`, `mo.go`).
* In `gnmid`: flags, the parsing of `ifconfig` output, the syslog receiver. The
  YDB library, `gtrie`, ygot and gRPC are external and modelled as this code uses
  them.
* In the generated schema: types of leaves, enumerations, accessors.
* Login (PAM), TLS credentials, `entity`: calls of libraries without state of
  their own. Status formatting. Generated protocol buffers.
* `updateSession` (`session.go`), which is never called; reads that change no
  state (`GetCertificates`, `CanGenerateCSR`, `Capabilities`).
* Torn reads of unguarded slices, for example `sub.Paths` in `telemetryUpdate`
  (`subscribe.go:647`).
* Transactions that both create and delete a leaf: YDB sends writes and deletes in
  transactions of their own.

## Plan

Done: aliases, Set transaction, certificate manager, target, telemetry, session
tables; then the path library, schema and data tree, state sync and Get, the
certificate protocol with its clients, and the abstract certificate store with
the proof of its refinement; then the proofs about every
other state machine except `Reads`; then the atomic Set with the proof that
`SetTransaction` implements it, the CA bundle, the mode of the target under
failures, and what the protocol and the target inherit from the manager.

Left, in this order:

1. The instance bookkeeping of `Reads` (`SyncRegistered`) with the lookups as
   constants, so that it can be proved about.
2. `Telemetry` with updates_only, more than one subscription per session and the
   state sync before a sample.
