---------------------------- MODULE CertManager ----------------------------
(***************************************************************************)
(* The gNOI certificate manager (gnoi/cert/manager.go) and the RPC handlers*)
(* that drive it (gnoi/cert/server.go): Install, Rotate and Revoke running *)
(* concurrently, each in its own gRPC handler goroutine.                   *)
(*                                                                         *)
(* Manager.mu is a RWMutex.  Every writer holds it for one step of the     *)
(* model; notify holds it for reading while the notifiers run, which is    *)
(* from NotifyBegin to NotifyEnd, so a writer's step waits for all readers.*)
(* Manager.locks marks the certificate IDs with an operation in progress:  *)
(* it is set by update and deleted by the accept or rollback closure that  *)
(* update returns.                                                         *)
(***************************************************************************)
EXTENDS Naturals, FiniteSets

CONSTANTS
    CertIDs,      \* certificate IDs
    Certs,        \* x509 certificates
    CAs,          \* x509 CA certificates; a CA bundle is a set of them
    None,         \* no *Info, no RPC, no running notify
    Procs,        \* handlers that may run at the same time
    Notifiers,    \* notify goroutines that may run at the same time
    MaxOps,       \* bound: RPCs started
    BadPEM,       \* some PEM blocks of a request do not decode
    SendFails     \* the LoadCertificateResponse of a Rotate may fail

Bundle == SUBSET CAs

\* What notify tells the notifiers: len(certInfo) and len(caBundle).
Counts == [certs : Nat, caCerts : Nat]

\* A handler: its RPC, its next step, its certID, and what update captured
\* for its closures: oldCertInfo, oldCABundle, and whether there is a new
\* bundle ({} when the request has none).
Rpc == [op : {"install", "rotate", "revoke"},
        at : {"load", "accept", "reply", "respond", "finalize"},
        id : CertIDs,
        oldCert : Certs \cup {None}, oldBundle : Bundle, bundle : Bundle]

ASSUME CertAssumption ==
    /\ IsFiniteSet(CertIDs) /\ IsFiniteSet(CAs)
    /\ None \notin Certs /\ None \notin Counts /\ None \notin Rpc
    /\ MaxOps \in Nat
    /\ BadPEM \in BOOLEAN /\ SendFails \in BOOLEAN

VARIABLES
    certInfo,    \* Manager.certInfo
    caBundle,    \* Manager.caBundle
    locks,       \* Manager.locks
    rpc,         \* the handler goroutines
    pending,     \* goroutines started by "go cm.notify()", not running yet
    reader,      \* counts a running notify passes to the notifiers
    notified,    \* counts the last finished notify passed to them
    ops,         \* RPCs started
    committed,   \* history: the certificate last accepted for each ID
    accepted,    \* history: the CA bundle last accepted
    unsettled    \* history: loads of CA bundles overlapped, or one of them
                 \* ended with neither closure

manager == <<certInfo, caBundle, locks>>
notifying == <<pending, reader, notified>>
history == <<committed, accepted, unsettled>>
vars == <<manager, rpc, notifying, ops, history>>

Init ==
    /\ certInfo = [id \in CertIDs |-> None]
    /\ caBundle = {}
    /\ locks = {}
    /\ rpc = [p \in Procs |-> None]
    /\ pending = 0
    /\ reader = [n \in Notifiers |-> None]
    /\ notified = [certs |-> 0, caCerts |-> 0]
    /\ ops = 0
    /\ committed = [id \in CertIDs |-> None]
    /\ accepted = {}
    /\ unsettled = FALSE

-----------------------------------------------------------------------------
(* Manager.mu and the notify goroutines *)

\* Defect: a writer does not wait for the readers.
LockIgnoresReaders == DOMAIN reader = Notifiers

\* mu.Lock() succeeds: no notify holds the read lock.
CanLock == \A n \in Notifiers : reader[n] = None

Installed == {id \in CertIDs : certInfo[id] # None}

CurrentCounts == [certs |-> Cardinality(Installed), caCerts |-> Cardinality(caBundle)]

NotifyBegin(n) ==
    /\ pending > 0
    /\ reader[n] = None
    /\ pending' = pending - 1
    /\ reader' = [reader EXCEPT ![n] = CurrentCounts]
    /\ UNCHANGED <<manager, rpc, notified, ops, history>>

NotifyEnd(n) ==
    /\ reader[n] # None
    /\ reader' = [reader EXCEPT ![n] = None]
    /\ notified' = reader[n]
    /\ UNCHANGED <<manager, rpc, pending, ops, history>>

-----------------------------------------------------------------------------
(* The handlers up to the call of the manager *)

At(p, step) == rpc[p] # None /\ rpc[p].at = step

Goto(p, step) == rpc' = [rpc EXCEPT ![p].at = step]

Return(p) == rpc' = [rpc EXCEPT ![p] = None]

\* Handler p is between update and its closure, with a CA bundle of its own.
Loading(p) ==
    /\ rpc[p] # None
    /\ rpc[p].at \in {"accept", "respond", "finalize"}
    /\ rpc[p].bundle # {}

\* A client opens an RPC.
Begin(p, op, id) ==
    /\ rpc[p] = None
    /\ ops < MaxOps
    /\ ops' = ops + 1
    /\ rpc' = [rpc EXCEPT ![p] = [op |-> op, at |-> "load", id |-> id,
                  oldCert |-> None, oldBundle |-> {}, bundle |-> {}]]
    /\ UNCHANGED <<manager, notifying, history>>

\* Every return before the manager is called: the stream breaks, the client
\* sends something else, a type is not supported, GenCSR fails.
Abandon(p) ==
    /\ At(p, "load") /\ rpc[p].op # "revoke"
    /\ Return(p)
    /\ UNCHANGED <<manager, notifying, ops, history>>

-----------------------------------------------------------------------------
(* update(requireExisting, certID, pemCert, pemCACerts) *)

\* Defect: the operation in progress is not noticed.
RefusesExistence(p) == (certInfo[rpc[p].id] # None) # (rpc[p].op = "rotate")

\* The ID exists or is missing contrary to what is required, or an operation
\* on it is in progress.
Refuses(p) ==
    \/ (certInfo[rpc[p].id] # None) # (rpc[p].op = "rotate")
    \/ rpc[p].id \in locks

Calls(p) == At(p, "load") /\ rpc[p].op # "revoke" /\ CanLock

updateRefused(p) ==
    /\ Calls(p) /\ Refuses(p)
    /\ Return(p)
    /\ UNCHANGED <<manager, notifying, ops, history>>

\* The certificate does not decode: the ID is already locked.
updateBadCert(p) ==
    /\ BadPEM
    /\ Calls(p) /\ ~Refuses(p)
    /\ locks' = locks \cup {rpc[p].id}
    /\ Return(p)
    /\ UNCHANGED <<certInfo, caBundle, notifying, ops, history>>

\* A CA certificate does not decode: the certificate is already replaced, and
\* neither closure exists to undo it.
updateBadBundle(p, c) ==
    /\ BadPEM
    /\ Calls(p) /\ ~Refuses(p)
    /\ locks' = locks \cup {rpc[p].id}
    /\ certInfo' = [certInfo EXCEPT ![rpc[p].id] = c]
    /\ Return(p)
    /\ UNCHANGED <<caBundle, notifying, ops, history>>

\* Success: the request's bundle, unless it is empty, replaces the old one.
update(p, c, b) ==
    /\ Calls(p) /\ ~Refuses(p)
    /\ locks' = locks \cup {rpc[p].id}
    /\ certInfo' = [certInfo EXCEPT ![rpc[p].id] = c]
    /\ caBundle' = IF b # {} THEN b ELSE caBundle
    /\ rpc' = [rpc EXCEPT ![p] =
                 [@ EXCEPT !.at = IF rpc[p].op = "install" THEN "accept" ELSE "respond",
                           !.oldCert = certInfo[rpc[p].id],
                           !.oldBundle = caBundle,
                           !.bundle = b]]
    /\ pending' = pending + 1
    /\ unsettled' = (unsettled \/ (b # {} /\ \E q \in Procs : Loading(q)))
    /\ UNCHANGED <<reader, notified, ops, committed, accepted>>

-----------------------------------------------------------------------------
(* The accept and rollback closures *)

\* What the histories record when an operation is accepted.
Commit(p) ==
    /\ committed' = [committed EXCEPT ![rpc[p].id] = certInfo[rpc[p].id]]
    /\ accepted' = IF rpc[p].bundle # {} THEN rpc[p].bundle ELSE accepted
    /\ UNCHANGED unsettled

\* Defect: the lock of the ID is not deleted.
KeepsLock(p) == UNCHANGED locks

ReleasesLock(p) == locks' = locks \ {rpc[p].id}

\* Manager.Install calls accept as soon as update returns.
InstallAccept(p) ==
    /\ At(p, "accept") /\ CanLock
    /\ ReleasesLock(p)
    /\ Commit(p)
    /\ Goto(p, "reply")
    /\ UNCHANGED <<certInfo, caBundle, notifying, ops>>

\* Install sends its response, or fails to, and returns.
InstallReply(p) ==
    /\ At(p, "reply")
    /\ Return(p)
    /\ UNCHANGED <<manager, notifying, ops, history>>

\* Rotate sends the LoadCertificateResponse and waits for the client.
RotateRespond(p) ==
    /\ At(p, "respond")
    /\ Goto(p, "finalize")
    /\ UNCHANGED <<manager, notifying, ops, history>>

\* The Send fails: Rotate returns and calls neither closure.
RotateSendFails(p) ==
    /\ SendFails
    /\ At(p, "respond")
    /\ Return(p)
    /\ unsettled' = (unsettled \/ Loading(p))
    /\ UNCHANGED <<manager, notifying, ops, committed, accepted>>

\* The client finalizes.
RotateAccept(p) ==
    /\ At(p, "finalize") /\ CanLock
    /\ ReleasesLock(p)
    /\ Commit(p)
    /\ Return(p)
    /\ UNCHANGED <<certInfo, caBundle, notifying, ops>>

\* Defect: the certificate is not put back.
KeepsNewCert(p) == certInfo' = certInfo

PutsBackCert(p) == certInfo' = [certInfo EXCEPT ![rpc[p].id] = rpc[p].oldCert]

\* Defect: the CA bundle is not put back.
KeepsNewBundle(p) == caBundle' = caBundle

PutsBackBundle(p) ==
    caBundle' = IF rpc[p].bundle # {} THEN rpc[p].oldBundle ELSE caBundle

\* Defect: the goroutine is not started.
NoNotify == UNCHANGED pending

GoNotify == pending' = pending + 1

\* The stream breaks, or the client sends something else.
RotateBack(p) ==
    /\ At(p, "finalize") /\ CanLock
    /\ PutsBackCert(p)
    /\ PutsBackBundle(p)
    /\ ReleasesLock(p)
    /\ GoNotify
    /\ Return(p)
    /\ UNCHANGED <<reader, notified, ops, history>>

-----------------------------------------------------------------------------
(* Revoke(revoke []string) *)

\* Defect: an ID with an operation in progress is revoked as well.
RevocableInstalled(ids) == ids \cap Installed

Revocable(ids) == (ids \cap Installed) \ locks

Revoke(p, ids) ==
    /\ At(p, "load") /\ rpc[p].op = "revoke" /\ CanLock
    /\ certInfo' = [id \in CertIDs |->
                      IF id \in Revocable(ids) THEN None ELSE certInfo[id]]
    /\ committed' = [id \in CertIDs |->
                      IF id \in Revocable(ids) THEN None ELSE committed[id]]
    /\ GoNotify
    /\ Return(p)
    /\ UNCHANGED <<caBundle, locks, reader, notified, ops, accepted, unsettled>>

-----------------------------------------------------------------------------
\* A step of the handler of p once it is open.
Handle(p) ==
    \/ Abandon(p)
    \/ updateRefused(p)
    \/ updateBadCert(p)
    \/ \E c \in Certs : updateBadBundle(p, c)
    \/ \E c \in Certs, b \in Bundle : update(p, c, b)
    \/ InstallAccept(p)
    \/ InstallReply(p)
    \/ RotateRespond(p)
    \/ RotateSendFails(p)
    \/ RotateAccept(p)
    \/ RotateBack(p)
    \/ \E ids \in SUBSET CertIDs : Revoke(p, ids)

\* Every RPC the bound allows has ended and was notified.
Finished ==
    /\ ops = MaxOps /\ pending = 0 /\ CanLock
    /\ \A p \in Procs : rpc[p] = None
    /\ UNCHANGED vars

Next ==
    \/ \E p \in Procs, id \in CertIDs, op \in {"install", "rotate", "revoke"} :
          Begin(p, op, id)
    \/ \E p \in Procs : Handle(p)
    \/ \E n \in Notifiers : NotifyBegin(n) \/ NotifyEnd(n)
    \/ Finished

Spec == Init /\ [][Next]_vars

-----------------------------------------------------------------------------
(* Properties *)

\* The maps, the handlers and the goroutines of manager.go and server.go stay
\* within their types.
TypeOK ==
    /\ certInfo \in [CertIDs -> Certs \cup {None}]
    /\ caBundle \in Bundle
    /\ locks \in SUBSET CertIDs
    /\ rpc \in [Procs -> Rpc \cup {None}]
    /\ pending \in Nat
    /\ reader \in [Notifiers -> Counts \cup {None}]
    /\ notified \in Counts
    /\ ops \in 0..MaxOps
    /\ committed \in [CertIDs -> Certs \cup {None}]
    /\ accepted \in Bundle
    /\ unsettled \in BOOLEAN

\* Handler p is between update and the closure that ends its operation on id.
Holds(p, id) ==
    /\ rpc[p] # None
    /\ rpc[p].id = id
    /\ rpc[p].at \in {"accept", "respond", "finalize"}

\* Two handlers are never between update and accept or rollback of the same
\* certificate ID, also after operations that failed half way (Manager.locks).
OneOperationPerCert ==
    \A p, q \in Procs, id \in CertIDs : Holds(p, id) /\ Holds(q, id) => p = q

\* A certificate ID with no operation in progress has the certificate last
\* accepted for it, or none if it was revoked since: rollbacks leave no trace,
\* whatever RPCs on other IDs did meanwhile (update, rollback, Revoke).
CommittedWhenUnlocked ==
    \A id \in CertIDs : id \notin locks => certInfo[id] = committed[id]

\* While an operation on an ID is in progress nobody else replaces or revokes
\* its certificate: the client tests the very certificate it loaded, and the
\* rollback undoes only its own load (update and Revoke, the locked test).
HeldCertStable ==
    [][\A p \in Procs, id \in CertIDs :
         (Holds(p, id) /\ rpc'[p] # None) => certInfo'[id] = certInfo[id]]_vars

\* The counts a notifier works with stay the current ones for as long as it
\* runs: "This is a blocking call to allow the caller to be sure the read
\* locks are active" (notify).
NotifierCountsCurrent ==
    \A n \in Notifiers : reader[n] # None => reader[n] = CurrentCounts

\* Every locked ID has a handler that will accept or roll back: update's error
\* "an operation with certID %q is already in progress" is then true.  It is
\* NOT when a PEM block does not decode or a response cannot be sent
\* (MCCertLimits.cfg).
LockedMeansInProgress ==
    \A id \in locks : \E p \in Procs : Holds(p, id)

\* When no notify is running or on its way, the notifiers were last told the
\* current counts, in whatever order the goroutines ran (update, rollback and
\* Revoke, "go cm.notify()").  Said only while no operation was left half way:
\* an update that fails after it has replaced the certificate starts no notify,
\* and it leaves the ID locked with nobody to release it.
NotifiedWhenQuiet ==
    (pending = 0 /\ CanLock /\ LockedMeansInProgress) => notified = CurrentCounts

\* "If the stream is broken or any steps in the process fail the target must
\* rollback to the original Certificate" (cert.proto): with no RPC running,
\* the certificates are the accepted ones.  Does NOT hold when the response
\* cannot be sent (MCCertLimits.cfg).
CommittedWhenIdle ==
    (\A p \in Procs : rpc[p] = None) => certInfo = committed

\* "When not empty, the provided certificates should squash the existing
\* bundle" (cert.proto): with no RPC running, the CA bundle is the one last
\* accepted.  Does NOT hold when two rotations overlap (MCCertBundle.cfg).
BundleAccepted ==
    (\A p \in Procs : rpc[p] = None) => caBundle = accepted

\* With no load of a CA bundle in progress the CA bundle is the one last
\* accepted, through operations without a bundle, revocations and rollbacks at
\* any moment (update and rollback, oldCABundle).  Said only until two loads of
\* bundles overlap, where the rollback of one undoes the other, or one of them
\* ends with neither closure called.
BundleSettled ==
    (~unsettled /\ \A p \in Procs : ~Loading(p)) => caBundle = accepted

-----------------------------------------------------------------------------
(* The abstract store *)

Busy == {id \in CertIDs : \E p \in Procs : Holds(p, id)}

\* The certificate in force: what a rollback would put back while an operation
\* is in progress, the installed one otherwise.
StoreCert ==
    [id \in CertIDs |->
       IF id \in Busy THEN rpc[CHOOSE p \in Procs : Holds(p, id)].oldCert
                      ELSE certInfo[id]]

StoreLoaded == [id \in CertIDs |-> IF id \in Busy THEN certInfo[id] ELSE None]

StorePhase ==
    [id \in CertIDs |->
       IF id \notin locks THEN "free" ELSE IF id \in Busy THEN "busy" ELSE "lost"]

Store == INSTANCE CertStore
    WITH cert <- StoreCert, loaded <- StoreLoaded, phase <- StorePhase

\* The manager implements the store: whatever handlers, closures and notify
\* goroutines interleave, each operation changes the certificate in force of
\* its own ID, at once, and only when it is accepted (update, its closures and
\* Revoke of manager.go).
ImplementsStore == Store!Spec

=============================================================================
