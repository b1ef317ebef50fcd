-------------------------- MODULE CertStoreProofs --------------------------
(***************************************************************************)
(* The certificate manager implements CertStore, for every set of IDs,     *)
(* handlers and notify goroutines.                                         *)
(***************************************************************************)
EXTENDS CertManagerProofs

\* An ID with an operation in progress is locked; what its operation would put
\* back is the certificate last accepted.
StoreIs ==
    /\ Busy \subseteq locks
    /\ StoreCert = [id \in CertIDs |->
                      IF id \in Busy THEN committed[id] ELSE certInfo[id]]

\* The mapping in terms of the inductive invariant, without the handlers.
LEMMA StoreValues == IInv => StoreIs
  BY DEF IInv, HoldersLocked, Busy, StoreCert, StoreIs

\* A step that leaves the manager and the handlers of an ID alone.
Same(id) ==
    /\ (id \in Busy') = (id \in Busy)
    /\ (id \in locks') = (id \in locks)
    /\ certInfo'[id] = certInfo[id]
    /\ committed'[id] = committed[id]

\* A step that is about one ID only is a step of that ID in the store.
LEMMA OneIDInStore ==
    ASSUME IInv, IInv', NEW i \in CertIDs,
           \A id \in CertIDs \ {i} : Same(id)
    PROVE  Store!Becomes(i, StorePhase[i], StorePhase'[i], StoreLoaded'[i], StoreCert'[i])
<1>0. StoreIs'
  BY StoreValues, PTL
<1>1. StoreCert' = [StoreCert EXCEPT ![i] = StoreCert'[i]]
  BY <1>0, StoreValues DEF Same, StoreIs
<1>2. StoreLoaded' = [StoreLoaded EXCEPT ![i] = StoreLoaded'[i]]
  BY DEF Same, StoreLoaded
<1>3. StorePhase' = [StorePhase EXCEPT ![i] = StorePhase'[i]]
  BY DEF Same, StorePhase
<1> QED
  BY <1>1, <1>2, <1>3 DEF Store!Becomes

\* A step that leaves every ID alone is no step of the store.
LEMMA NoIDInStore ==
    ASSUME IInv, IInv', \A id \in CertIDs : Same(id)
    PROVE  UNCHANGED Store!vars
<1>0. StoreIs'
  BY StoreValues, PTL
<1> QED
  BY <1>0, StoreValues DEF Same, StoreIs, StoreLoaded, StorePhase, Store!vars

\* A Rotate that waits for its client has a certificate to go back to: update
\* required the ID to exist (manager.go, requireExisting).
RotatesExisting ==
    \A p \in Procs :
        (rpc[p] # None /\ rpc[p].at \in {"respond", "finalize"}) => rpc[p].oldCert # None

\* Every step keeps it so.
LEMMA StepRotatesExisting ==
    ASSUME IInv, RotatesExisting, [Next]_vars
    PROVE  RotatesExisting'
<1> USE CertAssumption
<1>0. TypeOK
  BY DEF IInv
<1>1. CASE UNCHANGED rpc
  BY <1>1 DEF RotatesExisting
<1>2. ASSUME NEW p \in Procs, rpc' = [rpc EXCEPT ![p] = None]
      PROVE  RotatesExisting'
  BY <1>0, <1>2 DEF TypeOK, RotatesExisting
<1>3. ASSUME NEW p \in Procs, NEW id \in CertIDs,
             NEW op \in {"install", "rotate", "revoke"}, Begin(p, op, id)
      PROVE  RotatesExisting'
  BY <1>0, <1>3 DEF TypeOK, RotatesExisting, Begin
<1>4. ASSUME NEW p \in Procs, InstallAccept(p) \/ RotateRespond(p)
      PROVE  RotatesExisting'
  <2>1. rpc[p] \in Rpc
    BY <1>0, <1>4, RpcType DEF InstallAccept, RotateRespond, At
  <2>2. \A q \in Procs \ {p} : rpc'[q] = rpc[q]
    BY <1>0, <1>4 DEF TypeOK, InstallAccept, RotateRespond, Goto
  <2>3. rpc'[p].oldCert = rpc[p].oldCert
    BY <1>0, <1>4, <2>1 DEF TypeOK, InstallAccept, RotateRespond, Goto, Rpc
  <2>4. InstallAccept(p) => rpc'[p].at = "reply"
    BY <1>0, <2>1 DEF TypeOK, InstallAccept, Goto, Rpc
  <2>5. RotateRespond(p) => rpc[p].at = "respond"
    BY DEF RotateRespond, At
  <2> QED
    BY <1>4, <2>1, <2>2, <2>3, <2>4, <2>5 DEF RotatesExisting, InstallAccept, RotateRespond, At
<1>5. ASSUME NEW p \in Procs, NEW c \in Certs, NEW b \in Bundle, update(p, c, b)
      PROVE  RotatesExisting'
  <2>1. rpc[p] \in Rpc
    BY <1>0, <1>5, RpcType DEF update, Calls, At
  <2>2. \A q \in Procs \ {p} : rpc'[q] = rpc[q]
    BY <1>0, <1>5 DEF TypeOK, update
  <2>3. rpc'[p] = [rpc[p] EXCEPT
             !.at = IF rpc[p].op = "install" THEN "accept" ELSE "respond",
             !.oldCert = certInfo[rpc[p].id], !.oldBundle = caBundle, !.bundle = b]
    BY <1>0, <1>5 DEF TypeOK, update
  <2>4. rpc[p].op # "install" => certInfo[rpc[p].id] # None
    BY <1>5, <2>1 DEF update, Calls, Refuses, Rpc
  <2>5. rpc'[p].at = "accept" \/ rpc'[p].oldCert # None
    BY <2>1, <2>3, <2>4 DEF Rpc
  <2> QED
    BY <2>2, <2>5 DEF RotatesExisting
<1>6. ASSUME NEW p \in Procs, Handle(p)
      PROVE  \/ UNCHANGED rpc \/ rpc' = [rpc EXCEPT ![p] = None]
             \/ InstallAccept(p) \/ RotateRespond(p)
             \/ \E c \in Certs, b \in Bundle : update(p, c, b)
  BY <1>6 DEF Handle, Abandon, updateRefused, updateBadCert, updateBadBundle,
              InstallReply, RotateSendFails, RotateAccept, RotateBack, Revoke, Return
<1> QED
  BY <1>1, <1>2, <1>3, <1>4, <1>5, <1>6
     DEF Next, NotifyBegin, NotifyEnd, Finished, vars

\* The steps that leave the manager alone, a response that is not sent excepted.
LEMMA StoreOutsideManager ==
    ASSUME IInv, IInv', NEW p \in Procs,
           \/ \E id \in CertIDs, op \in {"install", "rotate", "revoke"} : Begin(p, op, id)
           \/ Abandon(p) \/ updateRefused(p) \/ InstallReply(p) \/ RotateRespond(p)
    PROVE  UNCHANGED Store!vars
<1> USE CertAssumption
<1>0. TypeOK
  BY DEF IInv
<1>1. UNCHANGED <<certInfo, locks, committed>>
  BY DEF Begin, Abandon, updateRefused, InstallReply, RotateRespond, manager, history
<1>2. \A q \in Procs \ {p} : rpc'[q] = rpc[q]
  BY <1>0 DEF TypeOK, Begin, Abandon, updateRefused, InstallReply, RotateRespond, Return, Goto
<1>3. ASSUME NEW id \in CertIDs
      PROVE  Holds(p, id)' <=> Holds(p, id)
  BY <1>0, RpcType DEF TypeOK, Rpc, Holds, Begin, Abandon, updateRefused, InstallReply,
            RotateRespond, Return, Goto, At, Calls
<1>4. Busy' = Busy
  BY <1>2, <1>3 DEF Busy, Holds
<1> QED
  BY <1>1, <1>4, NoIDInStore DEF Same

\* The handlers of other IDs are not disturbed by a step of the handler of p.
LEMMA OtherIDsSame ==
    ASSUME IInv, NEW p \in Procs, rpc[p] # None,
           \A q \in Procs \ {p} : rpc'[q] = rpc[q],
           rpc'[p] = None \/ rpc'[p].id = rpc[p].id,
           \A id \in CertIDs \ {rpc[p].id} :
             /\ (id \in locks') = (id \in locks)
             /\ certInfo'[id] = certInfo[id] /\ committed'[id] = committed[id]
    PROVE  \A id \in CertIDs \ {rpc[p].id} : Same(id)
<1>1. ASSUME NEW id \in CertIDs \ {rpc[p].id}
      PROVE  (id \in Busy') = (id \in Busy)
  BY <1>1 DEF Busy, Holds
<1> QED
  BY <1>1 DEF Same

\* Nobody holds the ID of a handler that gives it up.
LEMMA Released ==
    ASSUME IInv, NEW p \in Procs, rpc[p] # None, Holds(p, rpc[p].id),
           rpc[p].id \in CertIDs,
           \A q \in Procs \ {p} : rpc'[q] = rpc[q],
           rpc'[p] = None \/ rpc'[p].at = "reply"
    PROVE  rpc[p].id \in Busy /\ rpc[p].id \notin Busy'
<1>1. \A q \in Procs \ {p} : ~Holds(q, rpc[p].id)
  BY DEF IInv, OneOperationPerCert
<1> QED
  BY <1>1 DEF Busy, Holds

\* update loads the certificate, or loses the ID.
LEMMA StoreUpdate ==
    ASSUME IInv, IInv', NEW p \in Procs,
           \/ updateBadCert(p)
           \/ \E c \in Certs : updateBadBundle(p, c)
           \/ \E c \in Certs, b \in Bundle : update(p, c, b)
    PROVE  Store!Next
<1> USE CertAssumption
<1> DEFINE i == rpc[p].id
<1>0. TypeOK /\ rpc[p] \in Rpc /\ i \in CertIDs /\ i \notin locks /\ rpc[p] # None
  BY RpcType DEF IInv, updateBadCert, updateBadBundle, update, Calls, At, Refuses, Rpc
<1>1. i \notin Busy /\ StorePhase[i] = "free" /\ StoreCert[i] = certInfo[i]
  BY <1>0, StoreValues DEF StoreIs, StorePhase
<1>2. /\ i \in locks'
      /\ \A id \in CertIDs \ {i} :
           /\ (id \in locks') = (id \in locks)
           /\ certInfo'[id] = certInfo[id] /\ committed'[id] = committed[id]
      /\ \A q \in Procs \ {p} : rpc'[q] = rpc[q]
  <2>1. locks' = locks \cup {i} /\ committed' = committed
    BY DEF updateBadCert, updateBadBundle, update, history
  <2>2. \A id \in CertIDs \ {i} : certInfo'[id] = certInfo[id]
    BY <1>0 DEF TypeOK, updateBadCert, updateBadBundle, update
  <2>3. \A q \in Procs \ {p} : rpc'[q] = rpc[q]
    BY <1>0 DEF TypeOK, updateBadCert, updateBadBundle, update, Return
  <2> QED
    BY <2>1, <2>2, <2>3
<1>3. StoreIs'
  BY StoreValues, PTL
<1>4. CASE updateBadCert(p) \/ \E c \in Certs : updateBadBundle(p, c)
  <2>1. rpc'[p] = None
    BY <1>0, <1>4 DEF TypeOK, updateBadCert, updateBadBundle, Return
  <2>2. i \notin Busy'
    BY <1>0, <1>1, <1>2, <2>1 DEF Busy, Holds
  <2>3. certInfo'[i] \in Certs \cup {certInfo[i]}
    BY <1>0, <1>4 DEF TypeOK, updateBadCert, updateBadBundle
  <2>4. /\ StorePhase'[i] = "lost" /\ StoreLoaded'[i] = None
        /\ StoreCert'[i] \in Certs \cup {StoreCert[i]}
    BY <1>0, <1>1, <1>2, <1>3, <2>2, <2>3 DEF StoreIs, StorePhase, StoreLoaded
  <2>5. Store!LoseLoading(i, StoreCert'[i])
    BY <1>0, <1>1, <1>2, <2>1, <2>4, OtherIDsSame, OneIDInStore DEF Store!LoseLoading
  <2> QED
    BY <1>0, <2>4, <2>5 DEF Store!Next
<1>5. ASSUME NEW c \in Certs, NEW b \in Bundle, update(p, c, b)
      PROVE  Store!Next
  <2>1. rpc'[p] = [rpc[p] EXCEPT
             !.at = IF rpc[p].op = "install" THEN "accept" ELSE "respond",
             !.oldCert = certInfo[rpc[p].id], !.oldBundle = caBundle, !.bundle = b]
    BY <1>0, <1>5 DEF TypeOK, update
  <2>2. rpc'[p].id = i /\ rpc'[p].at \in {"accept", "respond"}
    BY <1>0, <2>1 DEF Rpc
  <2>3. rpc'[p] # None
    <3>1. certInfo[i] \in Certs \cup {None} /\ caBundle \in Bundle
      BY <1>0 DEF TypeOK
    <3>2. rpc'[p] \in Rpc
      BY <1>0, <2>1, <3>1 DEF Rpc
    <3> QED
      BY <3>2
  <2>4. i \in Busy'
    BY <1>0, <2>2, <2>3 DEF Busy, Holds
  <2>5. certInfo'[i] = c /\ committed'[i] = certInfo[i]
    BY <1>0, <1>5 DEF TypeOK, update, history, IInv, CommittedWhenUnlocked
  <2>6. /\ StorePhase'[i] = "busy" /\ StoreLoaded'[i] = c
        /\ StoreCert'[i] = StoreCert[i]
    BY <1>0, <1>1, <1>2, <1>3, <2>4, <2>5 DEF StoreIs, StorePhase, StoreLoaded
  <2>7. Store!Load(i, c)
    BY <1>0, <1>1, <1>2, <2>2, <2>6, OtherIDsSame, OneIDInStore DEF Store!Load
  <2> QED
    BY <1>0, <2>7 DEF Store!Next
<1> QED
  BY <1>4, <1>5

\* The accept closure accepts what was loaded, the rollback closure keeps the
\* certificate in force, and a response that cannot be sent loses the ID.
LEMMA StoreClosure ==
    ASSUME IInv, IInv', RotatesExisting, NEW p \in Procs,
           InstallAccept(p) \/ RotateAccept(p) \/ RotateBack(p) \/ RotateSendFails(p)
    PROVE  Store!Next
<1> USE CertAssumption
<1> DEFINE i == rpc[p].id
<1>0. TypeOK /\ rpc[p] \in Rpc /\ i \in CertIDs /\ rpc[p] # None /\ Holds(p, i)
  BY RpcType DEF IInv, InstallAccept, RotateAccept, RotateBack, RotateSendFails, At, Rpc, Holds
<1>1. \A q \in Procs \ {p} : rpc'[q] = rpc[q]
  BY <1>0 DEF TypeOK, InstallAccept, RotateAccept, RotateBack, RotateSendFails, Return, Goto
<1>2. rpc'[p] = None \/ (rpc'[p].at = "reply" /\ rpc'[p].id = i)
  BY <1>0 DEF TypeOK, Rpc, InstallAccept, RotateAccept, RotateBack, RotateSendFails, Return, Goto
<1>3. i \in Busy /\ i \notin Busy'
  BY <1>0, <1>1, <1>2, Released
<1>4. /\ StorePhase[i] = "busy" /\ StoreLoaded[i] = certInfo[i]
      /\ StoreCert[i] = committed[i]
  BY <1>0, <1>3, StoreValues DEF StoreIs, StorePhase, StoreLoaded
<1>5. StoreIs'
  BY StoreValues, PTL
<1>6. /\ StorePhase'[i] = IF i \in locks' THEN "lost" ELSE "free"
      /\ StoreLoaded'[i] = None /\ StoreCert'[i] = certInfo'[i]
  BY <1>0, <1>3, <1>5 DEF StoreIs, StorePhase, StoreLoaded
<1>7. \A id \in CertIDs \ {i} :
           /\ (id \in locks') = (id \in locks)
           /\ certInfo'[id] = certInfo[id] /\ committed'[id] = committed[id]
  BY <1>0 DEF TypeOK, InstallAccept, RotateAccept, RotateBack, RotateSendFails,
              Commit, PutsBackCert, ReleasesLock, manager, history
<1>8. Store!Becomes(i, "busy", StorePhase'[i], None, certInfo'[i])
  BY <1>0, <1>1, <1>2, <1>4, <1>6, <1>7, OtherIDsSame, OneIDInStore
<1>9. CASE InstallAccept(p) \/ RotateAccept(p)
  <2>1. certInfo'[i] = certInfo[i] /\ i \notin locks'
    BY <1>9 DEF InstallAccept, RotateAccept, ReleasesLock
  <2>2. Store!Accept(i)
    BY <1>4, <1>6, <1>8, <2>1 DEF Store!Accept
  <2> QED
    BY <1>0, <2>2 DEF Store!Next
<1>10. CASE RotateBack(p)
  <2>1. certInfo'[i] = rpc[p].oldCert /\ i \notin locks'
    BY <1>0, <1>10 DEF TypeOK, RotateBack, PutsBackCert, ReleasesLock
  <2>2. rpc[p].oldCert = committed[i] /\ rpc[p].oldCert # None
    BY <1>0, <1>10 DEF IInv, HoldersLocked, RotatesExisting, RotateBack, At
  <2>3. Store!Rollback(i)
    BY <1>4, <1>6, <1>8, <2>1, <2>2 DEF Store!Rollback
  <2> QED
    BY <1>0, <2>3 DEF Store!Next
<1>11. CASE RotateSendFails(p)
  <2>1. certInfo' = certInfo /\ locks' = locks
    BY <1>11 DEF RotateSendFails, manager
  <2>2. i \in locks
    BY <1>3, StoreValues DEF StoreIs
  <2>3. Store!LoseLoaded(i)
    BY <1>4, <1>6, <1>8, <2>1, <2>2 DEF Store!LoseLoaded
  <2> QED
    BY <1>0, <2>3 DEF Store!Next
<1> QED
  BY <1>9, <1>10, <1>11

\* Revoke of the manager is Revoke of the store, for the IDs it may revoke.
LEMMA StoreRevoke ==
    ASSUME IInv, IInv', NEW p \in Procs, NEW ids \in SUBSET CertIDs, Revoke(p, ids)
    PROVE  Store!Next
<1>0. TypeOK
  BY DEF IInv
<1>1. /\ locks' = locks
      /\ certInfo' = [id \in CertIDs |-> IF id \in Revocable(ids) THEN None ELSE certInfo[id]]
      /\ committed' = [id \in CertIDs |-> IF id \in Revocable(ids) THEN None ELSE committed[id]]
  BY DEF Revoke
<1>2. Busy' = Busy
  <2>1. \A q \in Procs \ {p} : rpc'[q] = rpc[q]
    BY <1>0 DEF TypeOK, Revoke, Return
  <2>2. rpc'[p] = None /\ rpc[p].at = "load"
    BY <1>0 DEF TypeOK, Revoke, Return, At
  <2> QED
    BY <2>1, <2>2 DEF Busy, Holds
<1>3. Revocable(ids) \in SUBSET CertIDs /\ \A id \in Revocable(ids) : id \notin locks
  BY DEF Revocable, Installed
<1>4. StoreIs /\ StoreIs'
  BY StoreValues, PTL
<1>5. StoreCert' = [id \in CertIDs |-> IF id \in Revocable(ids) THEN None ELSE StoreCert[id]]
  BY <1>1, <1>2, <1>3, <1>4 DEF StoreIs
<1>6. UNCHANGED <<StoreLoaded, StorePhase>>
  BY <1>1, <1>2, <1>3, <1>4 DEF StoreIs, StoreLoaded, StorePhase
<1>7. \A id \in Revocable(ids) : StorePhase[id] = "free"
  BY <1>3 DEF StorePhase
<1>8. Store!Revoke(Revocable(ids))
  BY <1>5, <1>6, <1>7 DEF Store!Revoke
<1> QED
  BY <1>3, <1>8 DEF Store!Next

\* Every step of the manager is a step of the store, or none.
LEMMA StoreStep ==
    ASSUME IInv, IInv', RotatesExisting, [Next]_vars
    PROVE  [Store!Next]_Store!vars
<1>1. CASE UNCHANGED <<manager, rpc, history>>
  <2>1. \A id \in CertIDs : Same(id)
    BY <1>1 DEF Same, Busy, Holds, manager, history
  <2> QED
    BY <2>1, NoIDInStore
<1>2. ASSUME NEW p \in Procs, Handle(p)
      PROVE  [Store!Next]_Store!vars
  BY <1>2, StoreOutsideManager, StoreUpdate, StoreClosure, StoreRevoke DEF Handle
<1> QED
  BY <1>1, <1>2, StoreOutsideManager
     DEF Next, NotifyBegin, NotifyEnd, Finished, vars

\* The certificate manager implements the abstract certificate store.
THEOREM SpecImplementsStore == Spec => ImplementsStore
<1>1. Init => Store!Init
  <2> SUFFICES ASSUME Init PROVE Store!Init
    OBVIOUS
  <2>1. Busy = {}
    BY DEF Init, Busy, Holds
  <2> QED
    BY <2>1, InitIInv, StoreValues DEF Init, StoreIs, Store!Init, StoreLoaded, StorePhase
<1>2. Init => RotatesExisting
  BY DEF Init, RotatesExisting
<1>3. IInv /\ RotatesExisting /\ [Next]_vars => RotatesExisting'
  BY StepRotatesExisting
<1>4. IInv /\ IInv' /\ RotatesExisting /\ [Next]_vars => [Store!Next]_Store!vars
  BY StoreStep
<1> QED
  BY <1>1, <1>2, <1>3, <1>4, SpecIInv, PTL DEF Spec, ImplementsStore, Store!Spec
=============================================================================
