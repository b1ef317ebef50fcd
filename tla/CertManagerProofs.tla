------------------------- MODULE CertManagerProofs -------------------------
(***************************************************************************)
(* Proofs about CertManager for every set of certificate IDs, handlers and *)
(* notify goroutines, and any number of RPCs.                              *)
(***************************************************************************)
EXTENDS CertManager, FiniteSetTheorems, TLAPS

\* The handlers between update and their closure own the lock of their ID, and
\* what they would put back is the certificate last accepted for it.
HoldersLocked ==
    \A p \in Procs, id \in CertIDs : Holds(p, id) =>
        /\ id \in locks
        /\ rpc[p].oldCert = committed[id]

\* The inductive invariant.
IInv ==
    /\ TypeOK
    /\ HoldersLocked
    /\ OneOperationPerCert
    /\ CommittedWhenUnlocked

\* CurrentCounts is a pair of numbers: the installed certificate IDs and the
\* CA bundle are finite (manager.go, notify).
LEMMA CountsType ==
    ASSUME TypeOK
    PROVE  CurrentCounts \in Counts
<1>1. IsFiniteSet(Installed)
  BY CertAssumption, FS_Subset, Installed \subseteq CertIDs DEF Installed
<1>2. IsFiniteSet(caBundle)
  BY CertAssumption, FS_Subset DEF TypeOK, Bundle
<1>3. Cardinality(Installed) \in Nat /\ Cardinality(caBundle) \in Nat
  BY <1>1, <1>2, FS_CardinalityType
<1> QED
  BY <1>3 DEF CurrentCounts, Counts

\* An open handler is a record of type Rpc.
LEMMA RpcType ==
    ASSUME TypeOK, NEW p \in Procs, rpc[p] # None
    PROVE  rpc[p] \in Rpc
  BY DEF TypeOK

\* The initial state of NewManager satisfies the invariant.
LEMMA InitIInv == Init => IInv
<1> SUFFICES ASSUME Init PROVE IInv
  OBVIOUS
<1>1. unsettled \in BOOLEAN
  BY DEF Init
<1>2. TypeOK
  BY <1>1, CertAssumption DEF Init, TypeOK, Bundle, Counts
<1> QED
  BY <1>2 DEF Init, IInv, HoldersLocked, OneOperationPerCert, CommittedWhenUnlocked, Holds

\* The steps that open, leave or answer an RPC without touching the manager.
LEMMA StepOutsideManager ==
    ASSUME IInv, NEW p \in Procs,
           \/ \E id \in CertIDs, op \in {"install", "rotate", "revoke"} : Begin(p, op, id)
           \/ Abandon(p) \/ updateRefused(p) \/ InstallReply(p)
           \/ RotateRespond(p) \/ RotateSendFails(p)
    PROVE  IInv'
<1> USE CertAssumption DEF IInv
<1>1. TypeOK'
  <2>1. rpc' \in [Procs -> Rpc \cup {None}]
    BY RpcType DEF TypeOK, Rpc, Bundle, Begin, Abandon, updateRefused, InstallReply,
              RotateRespond, RotateSendFails, Return, Goto, At, Calls
  <2> QED
    BY <2>1 DEF TypeOK, Begin, Abandon, updateRefused, InstallReply, manager,
              notifying, history,
              RotateRespond, RotateSendFails, Return, Goto, At, Calls
<1>2. /\ UNCHANGED <<certInfo, locks, committed>>
      /\ \A q \in Procs, id \in CertIDs : Holds(q, id)' =>
           Holds(q, id) /\ rpc'[q].oldCert = rpc[q].oldCert
  BY RpcType DEF TypeOK, Rpc, Holds, Begin, Abandon, updateRefused, InstallReply,
              RotateRespond, RotateSendFails, Return, Goto, At, manager, history, Calls
<1> QED
  BY <1>1, <1>2 DEF HoldersLocked, OneOperationPerCert, CommittedWhenUnlocked

\* update, in its successful form and in the two that fail to decode a PEM
\* block after the ID was locked.
LEMMA StepUpdate ==
    ASSUME IInv, NEW p \in Procs,
           \/ updateBadCert(p)
           \/ \E c \in Certs : updateBadBundle(p, c)
           \/ \E c \in Certs, b \in Bundle : update(p, c, b)
    PROVE  IInv'
<1> USE CertAssumption DEF IInv
<1> DEFINE i == rpc[p].id
<1>0. rpc[p] \in Rpc /\ i \in CertIDs /\ i \notin locks
  BY RpcType DEF updateBadCert, updateBadBundle, update, Calls, At, Refuses, Rpc
<1>1. TypeOK'
  <2>1. CASE updateBadCert(p)
    BY <1>0, <2>1 DEF TypeOK, updateBadCert, Return, notifying, history
  <2>2. CASE \E c \in Certs : updateBadBundle(p, c)
    BY <1>0, <2>2 DEF TypeOK, updateBadBundle, Return, notifying, history
  <2>3. ASSUME NEW c \in Certs, NEW b \in Bundle, update(p, c, b)
        PROVE  TypeOK'
    <3>1. rpc' \in [Procs -> Rpc \cup {None}]
      BY <1>0, <2>3 DEF TypeOK, update, Rpc, Bundle
    <3>2. certInfo' \in [CertIDs -> Certs \cup {None}]
      BY <1>0, <2>3 DEF TypeOK, update
    <3>3. caBundle' \in Bundle
      BY <2>3 DEF TypeOK, update
    <3>4. pending' \in Nat
      <4>1. pending' = pending + 1
        BY <2>3 DEF update
      <4>2. pending \in Nat
        BY DEF TypeOK
      <4> QED
        BY <4>1, <4>2
    <3>5. locks' \in SUBSET CertIDs
      BY <1>0, <2>3 DEF TypeOK, update
    <3> QED
      BY <2>3, <3>1, <3>2, <3>3, <3>4, <3>5 DEF TypeOK, update, history
  <2> QED
    BY <2>1, <2>2, <2>3
<1>2. /\ locks' = locks \cup {i}
      /\ committed' = committed
      /\ \A id \in CertIDs : id # i => certInfo'[id] = certInfo[id]
  BY <1>0 DEF TypeOK, updateBadCert, updateBadBundle, update, history
<1>3. \A q \in Procs, id \in CertIDs : Holds(q, id)' =>
        \/ /\ q # p /\ id # i
           /\ Holds(q, id) /\ rpc'[q].oldCert = rpc[q].oldCert
        \/ q = p /\ id = i /\ rpc'[q].oldCert = certInfo[i]
  <2>1. CASE updateBadCert(p) \/ \E c \in Certs : updateBadBundle(p, c)
    BY <1>0, <2>1 DEF TypeOK, Holds, updateBadCert, updateBadBundle, Return, HoldersLocked
  <2>2. CASE \E c \in Certs, b \in Bundle : update(p, c, b)
    <3> PICK c \in Certs, b \in Bundle : update(p, c, b)
      BY <2>2
    <3>1. \A q \in Procs \ {p} : rpc'[q] = rpc[q]
      BY DEF TypeOK, update
    <3>2. rpc'[p] = [rpc[p] EXCEPT
             !.at = IF rpc[p].op = "install" THEN "accept" ELSE "respond",
             !.oldCert = certInfo[rpc[p].id], !.oldBundle = caBundle, !.bundle = b]
      BY DEF TypeOK, update
    <3>3. rpc'[p].id = i /\ rpc'[p].oldCert = certInfo[i]
      BY <1>0, <3>2 DEF Rpc
    <3> QED
      BY <1>0, <3>1, <3>3 DEF Holds, HoldersLocked
  <2> QED
    BY <2>1, <2>2
<1>4. certInfo[i] = committed[i]
  BY <1>0 DEF CommittedWhenUnlocked
<1> QED
  BY <1>0, <1>1, <1>2, <1>3, <1>4
     DEF HoldersLocked, OneOperationPerCert, CommittedWhenUnlocked

\* The accept closure, called by Install and by Rotate, and the rollback
\* closure.
LEMMA StepClosure ==
    ASSUME IInv, NEW p \in Procs,
           InstallAccept(p) \/ RotateAccept(p) \/ RotateBack(p)
    PROVE  IInv'
<1> USE CertAssumption DEF IInv
<1> DEFINE i == rpc[p].id
<1>0. /\ rpc[p] \in Rpc /\ i \in CertIDs
      /\ Holds(p, i)
  BY RpcType DEF InstallAccept, RotateAccept, RotateBack, At, Rpc, Holds
<1>1. /\ rpc[p].oldCert = committed[i]
      /\ i \in locks
      /\ \A q \in Procs : Holds(q, i) => q = p
  BY <1>0 DEF HoldersLocked, OneOperationPerCert
<1>2. TypeOK'
  <2>1. rpc' \in [Procs -> Rpc \cup {None}]
    BY <1>0 DEF TypeOK, InstallAccept, RotateAccept, RotateBack, Goto, Return, Rpc
  <2>2. /\ certInfo' \in [CertIDs -> Certs \cup {None}]
        /\ caBundle' \in Bundle
        /\ locks' \in SUBSET CertIDs
        /\ pending' \in Nat
    BY <1>0 DEF TypeOK, InstallAccept, RotateAccept, RotateBack, Rpc, notifying, ReleasesLock,
                PutsBackCert, PutsBackBundle, GoNotify
  <2>3. /\ committed' \in [CertIDs -> Certs \cup {None}]
        /\ accepted' \in Bundle /\ unsettled' = unsettled
    BY <1>0 DEF TypeOK, InstallAccept, RotateAccept, RotateBack, Commit, Rpc, history
  <2> QED
    BY <2>1, <2>2, <2>3 DEF TypeOK, InstallAccept, RotateAccept, RotateBack, notifying
<1>3. /\ locks' = locks \ {i}
      /\ \A id \in CertIDs : id # i =>
           certInfo'[id] = certInfo[id] /\ committed'[id] = committed[id]
      /\ certInfo'[i] = committed'[i]
  BY <1>0, <1>1 DEF TypeOK, InstallAccept, RotateAccept, RotateBack, Commit,
                    PutsBackCert, ReleasesLock, history
<1>4. \A q \in Procs, id \in CertIDs : Holds(q, id)' =>
        /\ q # p /\ id # i
        /\ Holds(q, id) /\ rpc'[q].oldCert = rpc[q].oldCert
  BY <1>0, <1>1 DEF TypeOK, Rpc, Holds, InstallAccept, RotateAccept, RotateBack, Goto, Return
<1> QED
  BY <1>0, <1>2, <1>3, <1>4
     DEF HoldersLocked, OneOperationPerCert, CommittedWhenUnlocked

\* Revoke leaves the locked IDs alone.
LEMMA StepRevoke ==
    ASSUME IInv, NEW p \in Procs, NEW ids \in SUBSET CertIDs, Revoke(p, ids)
    PROVE  IInv'
<1> USE CertAssumption DEF IInv
<1>1. TypeOK'
  BY DEF TypeOK, Revoke, Return, GoNotify
<1>2. /\ locks' = locks
      /\ \A id \in CertIDs :
           id \in locks => certInfo'[id] = certInfo[id] /\ committed'[id] = committed[id]
      /\ \A id \in CertIDs :
           certInfo[id] = committed[id] => certInfo'[id] = committed'[id]
  BY DEF Revoke, Revocable
<1>3. \A q \in Procs, id \in CertIDs : Holds(q, id)' =>
        Holds(q, id) /\ rpc'[q].oldCert = rpc[q].oldCert
  BY DEF TypeOK, Holds, Revoke, Return
<1> QED
  BY <1>1, <1>2, <1>3 DEF HoldersLocked, OneOperationPerCert, CommittedWhenUnlocked

\* The notify goroutines.
LEMMA StepNotify ==
    ASSUME IInv, NEW n \in Notifiers, NotifyBegin(n) \/ NotifyEnd(n)
    PROVE  IInv'
<1> USE CertAssumption DEF IInv
<1>1. TypeOK'
  <2>1. CASE NotifyBegin(n)
    BY <2>1, CountsType DEF TypeOK, NotifyBegin, manager, history
  <2>2. CASE NotifyEnd(n)
    BY <2>2 DEF TypeOK, NotifyEnd, manager, history
  <2> QED
    BY <2>1, <2>2
<1>2. UNCHANGED <<certInfo, locks, rpc, committed>>
  BY DEF NotifyBegin, NotifyEnd, manager, history
<1> QED
  BY <1>1, <1>2 DEF HoldersLocked, OneOperationPerCert, CommittedWhenUnlocked, Holds

\* Every step preserves the invariant.
LEMMA StepIInv == IInv /\ [Next]_vars => IInv'
<1> SUFFICES ASSUME IInv, [Next]_vars PROVE IInv'
  OBVIOUS
<1>1. CASE \E p \in Procs, id \in CertIDs, op \in {"install", "rotate", "revoke"} :
             Begin(p, op, id)
  BY <1>1, StepOutsideManager
<1>2. CASE \E p \in Procs : Handle(p)
  BY <1>2, StepOutsideManager, StepUpdate, StepClosure, StepRevoke DEF Handle
<1>3. CASE \E n \in Notifiers : NotifyBegin(n) \/ NotifyEnd(n)
  BY <1>3, StepNotify
<1>4. CASE UNCHANGED vars
  BY <1>4 DEF IInv, TypeOK, HoldersLocked, OneOperationPerCert, CommittedWhenUnlocked,
              Holds, vars, manager, notifying, history
<1> QED
  BY <1>1, <1>2, <1>3, <1>4 DEF Next, Finished

\* The invariant holds in every reachable state.
THEOREM SpecIInv == Spec => []IInv
  BY InitIInv, StepIInv, PTL DEF Spec

\* The maps and handlers of manager.go and server.go keep their types.
THEOREM SpecTypeOK == Spec => []TypeOK
  BY SpecIInv, PTL DEF IInv

\* Manager.locks gives every certificate ID at most one operation at a time.
THEOREM SpecOneOperationPerCert == Spec => []OneOperationPerCert
  BY SpecIInv, PTL DEF IInv

\* Outside an operation every certificate ID has the certificate last accepted
\* for it: a rollback leaves no trace.
THEOREM SpecCommittedWhenUnlocked == Spec => []CommittedWhenUnlocked
  BY SpecIInv, PTL DEF IInv

\* While an operation holds an ID, no step of another handler changes its
\* certificate (update and Revoke, the locked test).
LEMMA StepHeldCert ==
    ASSUME IInv, Next
    PROVE  \A p \in Procs, id \in CertIDs :
             (Holds(p, id) /\ rpc'[p] # None) => certInfo'[id] = certInfo[id]
<1> SUFFICES ASSUME NEW p \in Procs, NEW id \in CertIDs,
                    Holds(p, id), rpc'[p] # None, certInfo'[id] # certInfo[id]
             PROVE  FALSE
  OBVIOUS
<1>0. id \in locks /\ TypeOK
  BY DEF IInv, HoldersLocked
<1>1. PICK q \in Procs :
        \/ \E c \in Certs : updateBadBundle(q, c)
        \/ \E c \in Certs, b \in Bundle : update(q, c, b)
        \/ RotateBack(q)
        \/ \E ids \in SUBSET CertIDs : Revoke(q, ids)
  <2>1. CASE \E q \in Procs : Handle(q)
    <3> PICK q \in Procs : Handle(q)
      BY <2>1
    <3>1. ~(\/ Abandon(q) \/ updateRefused(q) \/ updateBadCert(q)
            \/ InstallAccept(q) \/ InstallReply(q) \/ RotateRespond(q)
            \/ RotateSendFails(q) \/ RotateAccept(q))
      BY DEF Abandon, updateRefused, updateBadCert, InstallAccept, InstallReply,
             RotateRespond, RotateSendFails, RotateAccept, manager
    <3> QED
      BY <3>1 DEF Handle
  <2>2. CASE ~\E q \in Procs : Handle(q)
    BY <2>2 DEF Next, Begin, NotifyBegin, NotifyEnd, Finished, vars, manager
  <2> QED
    BY <2>1, <2>2
<1>2. CASE \E ids \in SUBSET CertIDs : Revoke(q, ids)
  BY <1>0, <1>2 DEF Revoke, Revocable
<1>3. CASE RotateBack(q)
  <2>1. rpc[q] # None /\ rpc[q].id \in CertIDs /\ Holds(q, rpc[q].id)
    BY <1>0, <1>3, RpcType DEF RotateBack, At, Rpc, Holds
  <2>2. rpc[q].id = id
    BY <1>0, <1>3, <2>1 DEF TypeOK, RotateBack, PutsBackCert
  <2>3. q = p
    BY <2>1, <2>2 DEF IInv, OneOperationPerCert
  <2> QED
    BY <1>0, <1>3, <2>3 DEF TypeOK, RotateBack, Return
<1>4. CASE \/ \E c \in Certs : updateBadBundle(q, c)
           \/ \E c \in Certs, b \in Bundle : update(q, c, b)
  <2>1. rpc[q].id \notin locks
    BY <1>4 DEF updateBadBundle, update, Refuses
  <2>2. rpc[q].id # id
    BY <1>0, <2>1
  <2> QED
    BY <1>0, <1>4, <2>2 DEF TypeOK, updateBadBundle, update
<1> QED
  BY <1>1, <1>2, <1>3, <1>4

\* While an operation holds an ID, only its own handler changes the
\* certificate: what the client tests is what it loaded.
THEOREM SpecHeldCertStable == Spec => HeldCertStable
<1> DEFINE Stable ==
      \A p \in Procs, id \in CertIDs :
         (Holds(p, id) /\ rpc'[p] # None) => certInfo'[id] = certInfo[id]
<1>1. IInv /\ [Next]_vars => [Stable]_vars
  BY StepHeldCert
<1> QED
  BY <1>1, SpecIInv, PTL DEF Spec, HeldCertStable

\* A notifier's counts stay current while it runs: a writer waits for every
\* reader of Manager.mu, so nothing they count changes under it.
THEOREM SpecNotifierCountsCurrent == Spec => []NotifierCountsCurrent
<1>1. Init => NotifierCountsCurrent
  BY DEF Init, NotifierCountsCurrent
<1>2. ASSUME TypeOK, NotifierCountsCurrent, [Next]_vars
      PROVE  NotifierCountsCurrent'
  <2>1. CASE CanLock /\ UNCHANGED reader
    BY <2>1 DEF CanLock, NotifierCountsCurrent
  <2>2. CASE UNCHANGED <<certInfo, caBundle, reader>>
    BY <1>2, <2>2 DEF NotifierCountsCurrent, CurrentCounts, Installed
  <2>3. CASE \E n \in Notifiers : NotifyBegin(n) \/ NotifyEnd(n)
    <3> PICK n \in Notifiers : NotifyBegin(n) \/ NotifyEnd(n)
      BY <2>3
    <3>1. CurrentCounts' = CurrentCounts
      BY DEF NotifyBegin, NotifyEnd, manager, CurrentCounts, Installed
    <3>2. \A m \in Notifiers : reader'[m] \in {reader[m], None, CurrentCounts}
      BY <1>2 DEF TypeOK, NotifyBegin, NotifyEnd
    <3> QED
      BY <1>2, <3>1, <3>2 DEF NotifierCountsCurrent
  <2>4. ASSUME NEW p \in Procs, Handle(p)
        PROVE  \/ CanLock /\ UNCHANGED reader
               \/ UNCHANGED <<certInfo, caBundle, reader>>
    BY <2>4 DEF Handle, Abandon, updateRefused, updateBadCert, updateBadBundle,
           update, Calls, InstallAccept, InstallReply, RotateRespond,
           RotateSendFails, RotateAccept, RotateBack, Revoke, manager, notifying
  <2> QED
    BY <1>2, <2>1, <2>2, <2>3, <2>4
       DEF Next, Begin, Finished, vars, manager, notifying
<1> QED
  BY <1>1, <1>2, SpecTypeOK, PTL DEF Spec

\* A lock nobody will release stays: no step gives it a handler, and none
\* deletes it.
LEMMA OrphanedLockStays ==
    ASSUME IInv, [Next]_vars, LockedMeansInProgress'
    PROVE  LockedMeansInProgress
<1> USE DEF IInv
<1> SUFFICES ASSUME NEW id \in locks, \A q \in Procs : ~Holds(q, id)
             PROVE  FALSE
  BY DEF LockedMeansInProgress
<1>0. id \in CertIDs /\ TypeOK
  BY DEF TypeOK
<1>1. ASSUME id \in locks', \A q \in Procs : ~Holds(q, id)'
      PROVE  FALSE
  BY <1>1 DEF LockedMeansInProgress, Holds
<1>2. CASE UNCHANGED <<locks, rpc>>
  BY <1>1, <1>2 DEF Holds
<1>3. ASSUME NEW p \in Procs,
             \/ \E i \in CertIDs, op \in {"install", "rotate", "revoke"} : Begin(p, op, i)
             \/ Abandon(p) \/ updateRefused(p) \/ InstallReply(p)
             \/ RotateRespond(p) \/ RotateSendFails(p)
             \/ \E ids \in SUBSET CertIDs : Revoke(p, ids)
      PROVE  FALSE
  <2>1. locks' = locks
    BY <1>3 DEF Begin, Abandon, updateRefused, InstallReply, RotateRespond,
                RotateSendFails, Revoke, manager
  <2>2. \A q \in Procs : Holds(q, id)' => Holds(q, id)
    BY <1>0, <1>3, RpcType DEF TypeOK, Rpc, Holds, Begin, Abandon, updateRefused,
              InstallReply, RotateRespond, RotateSendFails, Revoke, Return, Goto, At, Calls
  <2> QED
    BY <1>1, <2>1, <2>2
<1>4. ASSUME NEW p \in Procs,
             \/ updateBadCert(p)
             \/ \E c \in Certs : updateBadBundle(p, c)
             \/ \E c \in Certs, b \in Bundle : update(p, c, b)
      PROVE  FALSE
  <2>1. rpc[p] \in Rpc /\ rpc[p].id \notin locks
    BY <1>0, <1>4, RpcType DEF updateBadCert, updateBadBundle, update, Calls, At, Refuses
  <2>2. id \in locks'
    BY <1>4 DEF updateBadCert, updateBadBundle, update
  <2>3. \A q \in Procs \ {p} : rpc'[q] = rpc[q]
    BY <1>0, <1>4 DEF TypeOK, updateBadCert, updateBadBundle, update, Return
  <2>4. rpc'[p] = None \/ rpc'[p].id = rpc[p].id
    <3>1. CASE updateBadCert(p) \/ \E c \in Certs : updateBadBundle(p, c)
      BY <1>0, <3>1 DEF TypeOK, updateBadCert, updateBadBundle, Return
    <3>2. ASSUME NEW c \in Certs, NEW b \in Bundle, update(p, c, b)
          PROVE  rpc'[p].id = rpc[p].id
      <4>1. rpc'[p] = [rpc[p] EXCEPT
               !.at = IF rpc[p].op = "install" THEN "accept" ELSE "respond",
               !.oldCert = certInfo[rpc[p].id], !.oldBundle = caBundle, !.bundle = b]
        BY <1>0, <3>2 DEF TypeOK, update
      <4> QED
        BY <2>1, <4>1 DEF Rpc
    <3> QED
      BY <1>4, <3>1, <3>2
  <2> QED
    BY <1>1, <2>1, <2>2, <2>3, <2>4 DEF Holds
<1>5. ASSUME NEW p \in Procs, InstallAccept(p) \/ RotateAccept(p) \/ RotateBack(p)
      PROVE  FALSE
  <2>1. rpc[p] \in Rpc /\ Holds(p, rpc[p].id)
    BY <1>0, <1>5, RpcType DEF InstallAccept, RotateAccept, RotateBack, At, Holds
  <2>2. rpc[p].id # id
    BY <2>1
  <2>3. id \in locks'
    BY <1>5, <2>2 DEF InstallAccept, RotateAccept, RotateBack, ReleasesLock
  <2>4. \A q \in Procs : Holds(q, id)' => Holds(q, id)
    BY <1>0, <1>5, <2>1, <2>2
       DEF TypeOK, Rpc, Holds, InstallAccept, RotateAccept, RotateBack, Goto, Return
  <2> QED
    BY <1>1, <2>3, <2>4
<1> QED
  BY <1>2, <1>3, <1>4, <1>5
     DEF Next, Handle, NotifyBegin, NotifyEnd, Finished, vars, manager

\* An update that fails half way leaves such a lock.
LEMMA FailedUpdateOrphansLock ==
    ASSUME IInv, NEW p \in Procs,
           updateBadCert(p) \/ \E c \in Certs : updateBadBundle(p, c)
    PROVE  ~LockedMeansInProgress'
<1> DEFINE i == rpc[p].id
<1>1. TypeOK /\ rpc[p] \in Rpc /\ i \in CertIDs /\ i \notin locks
  BY RpcType DEF IInv, updateBadCert, updateBadBundle, Calls, At, Refuses, Rpc
<1>2. i \in locks' /\ rpc' = [rpc EXCEPT ![p] = None]
  BY DEF updateBadCert, updateBadBundle, Return
<1>3. \A q \in Procs : ~Holds(q, i)
  BY <1>1 DEF IInv, HoldersLocked
<1>4. \A q \in Procs : rpc'[q] = None \/ rpc'[q] = rpc[q]
  BY <1>1, <1>2 DEF TypeOK
<1>5. \A q \in Procs : ~(/\ rpc'[q] # None /\ rpc'[q].id = i
                          /\ rpc'[q].at \in {"accept", "respond", "finalize"})
  BY <1>3, <1>4 DEF Holds
<1> QED
  BY <1>2, <1>5 DEF LockedMeansInProgress, Holds

\* No change of the counts goes unnoticed: with no notify left to run and no
\* operation left half way, the notifiers were last told the current counts.
THEOREM SpecNotifiedWhenQuiet == Spec => []NotifiedWhenQuiet
<1>1. Init => NotifiedWhenQuiet
  <2> SUFFICES ASSUME Init PROVE NotifiedWhenQuiet
    OBVIOUS
  <2>1. Installed = {} /\ caBundle = {}
    BY DEF Init, Installed
  <2> QED
    BY <2>1, FS_EmptySet DEF Init, NotifiedWhenQuiet, CurrentCounts
<1>2. ASSUME IInv, NotifierCountsCurrent, NotifiedWhenQuiet, [Next]_vars
      PROVE  NotifiedWhenQuiet'
  <2>0. TypeOK /\ (LockedMeansInProgress' => LockedMeansInProgress)
    BY <1>2, OrphanedLockStays DEF IInv
  <2>1. CASE UNCHANGED <<certInfo, caBundle, notifying>>
    BY <1>2, <2>0, <2>1 DEF NotifiedWhenQuiet, CurrentCounts, Installed, CanLock, notifying
  <2>2. CASE pending' = pending + 1
    BY <2>0, <2>2 DEF TypeOK, NotifiedWhenQuiet
  <2>3. CASE \E n \in Notifiers : NotifyBegin(n)
    <3> PICK n \in Notifiers : NotifyBegin(n)
      BY <2>3
    <3>1. CurrentCounts \in Counts /\ reader'[n] = CurrentCounts
      BY <2>0, CountsType DEF TypeOK, NotifyBegin
    <3> QED
      BY <3>1, CertAssumption DEF NotifiedWhenQuiet, CanLock
  <2>4. CASE \E n \in Notifiers : NotifyEnd(n)
    <3> PICK n \in Notifiers : NotifyEnd(n)
      BY <2>4
    <3>1. CurrentCounts' = CurrentCounts
      BY DEF NotifyEnd, manager, CurrentCounts, Installed
    <3>2. notified' = CurrentCounts
      BY <1>2 DEF NotifyEnd, NotifierCountsCurrent
    <3> QED
      BY <3>1, <3>2 DEF NotifiedWhenQuiet
  <2>5. CASE \E p \in Procs : updateBadCert(p) \/ \E c \in Certs : updateBadBundle(p, c)
    BY <1>2, <2>5, FailedUpdateOrphansLock DEF NotifiedWhenQuiet
  <2>6. ASSUME NEW p \in Procs, Handle(p)
        PROVE  \/ pending' = pending + 1
               \/ UNCHANGED <<certInfo, caBundle, notifying>>
               \/ updateBadCert(p) \/ \E c \in Certs : updateBadBundle(p, c)
    BY <2>6 DEF Handle, Abandon, updateRefused,
           update, InstallAccept, InstallReply, RotateRespond,
           RotateSendFails, RotateAccept, RotateBack, Revoke, manager, GoNotify
  <2> QED
    BY <1>2, <2>1, <2>2, <2>3, <2>4, <2>5, <2>6 DEF Next, Begin, Finished, vars, manager
<1> QED
  BY <1>1, <1>2, SpecIInv, SpecNotifierCountsCurrent, PTL DEF Spec
-----------------------------------------------------------------------------
(* The CA bundle *)

\* While loads of CA bundles do not overlap there is one at most, it has the
\* bundle it brought in force, and it would put back the one last accepted.
BundleInv ==
    ~unsettled =>
        /\ \A p, q \in Procs : Loading(p) /\ Loading(q) => p = q
        /\ \A p \in Procs : Loading(p) =>
              rpc[p].oldBundle = accepted /\ rpc[p].bundle = caBundle
        /\ (\A p \in Procs : ~Loading(p)) => caBundle = accepted

\* A step that leaves the bundle and the loads of bundles alone.
LEMMA BundleUntouched ==
    ASSUME BundleInv, unsettled \in BOOLEAN, unsettled' \in BOOLEAN,
           caBundle' = caBundle, accepted' = accepted, unsettled => unsettled',
           ~unsettled' => \A q \in Procs :
             /\ Loading(q)' <=> Loading(q)
             /\ Loading(q) => /\ rpc'[q].bundle = rpc[q].bundle
                              /\ rpc'[q].oldBundle = rpc[q].oldBundle
    PROVE  BundleInv'
BY DEF BundleInv

\* The steps outside update and its closures.
LEMMA BundleOutside ==
    ASSUME IInv, IInv', BundleInv, NEW p \in Procs,
           \/ \E id \in CertIDs, op \in {"install", "rotate", "revoke"} : Begin(p, op, id)
           \/ Abandon(p) \/ updateRefused(p) \/ InstallReply(p)
           \/ RotateRespond(p) \/ RotateSendFails(p)
           \/ updateBadCert(p) \/ \E c \in Certs : updateBadBundle(p, c)
           \/ \E ids \in SUBSET CertIDs : Revoke(p, ids)
    PROVE  BundleInv'
<1> USE CertAssumption
<1>0. TypeOK /\ unsettled \in BOOLEAN /\ unsettled' \in BOOLEAN
  BY DEF IInv, TypeOK
<1>1. caBundle' = caBundle /\ accepted' = accepted /\ (unsettled => unsettled')
  <2>1. caBundle' = caBundle /\ accepted' = accepted
    BY DEF Begin, Abandon, updateRefused, InstallReply, RotateRespond, RotateSendFails,
           updateBadCert, updateBadBundle, Revoke, manager, history
  <2>2. unsettled' = unsettled \/ RotateSendFails(p)
    BY DEF Begin, Abandon, updateRefused, InstallReply, RotateRespond,
           updateBadCert, updateBadBundle, Revoke, manager, history
  <2>3. RotateSendFails(p) => (unsettled => unsettled')
    BY <1>0 DEF RotateSendFails
  <2> QED
    BY <1>0, <2>1, <2>2, <2>3
<1>2. \A q \in Procs \ {p} : rpc'[q] = rpc[q]
  BY <1>0 DEF TypeOK, Begin, Abandon, updateRefused, InstallReply, RotateRespond,
              RotateSendFails, updateBadCert, updateBadBundle, Revoke, Return, Goto
<1>3. ASSUME ~unsettled'
      PROVE  /\ Loading(p)' <=> Loading(p)
             /\ Loading(p) => /\ rpc'[p].bundle = rpc[p].bundle
                              /\ rpc'[p].oldBundle = rpc[p].oldBundle
  <2>1. CASE RotateRespond(p)
    <3>1. rpc[p] \in Rpc /\ rpc[p].at = "respond"
      BY <1>0, <2>1, RpcType DEF RotateRespond, At
    <3>2. /\ rpc'[p] # None /\ rpc'[p].at = "finalize"
          /\ rpc'[p].bundle = rpc[p].bundle /\ rpc'[p].oldBundle = rpc[p].oldBundle
      <4>1. rpc'[p] = [rpc[p] EXCEPT !.at = "finalize"]
        BY <1>0, <2>1 DEF TypeOK, RotateRespond, Goto
      <4>2. rpc'[p] \in Rpc
        BY <3>1, <4>1 DEF Rpc
      <4> QED
        BY <3>1, <4>1, <4>2 DEF Rpc
    <3> QED
      BY <2>1, <3>1, <3>2 DEF Loading, RotateRespond, At
  <2>2. CASE RotateSendFails(p)
    BY <1>0, <1>3, <2>2 DEF TypeOK, RotateSendFails, Return, Loading
  <2>3. CASE \E id \in CertIDs, op \in {"install", "rotate", "revoke"} : Begin(p, op, id)
    BY <1>0, <2>3 DEF TypeOK, Begin, Loading
  <2>4. CASE \/ Abandon(p) \/ updateRefused(p) \/ InstallReply(p)
             \/ updateBadCert(p) \/ \E c \in Certs : updateBadBundle(p, c)
             \/ \E ids \in SUBSET CertIDs : Revoke(p, ids)
    BY <1>0, <2>4 DEF TypeOK, Abandon, updateRefused, InstallReply, updateBadCert,
              updateBadBundle, Revoke, Return, Calls, At, Loading
  <2> QED
    BY <2>1, <2>2, <2>3, <2>4
<1>4. \A q \in Procs \ {p} : Loading(q)' <=> Loading(q)
  BY <1>2 DEF Loading
<1> QED
  BY <1>0, <1>1, <1>2, <1>3, <1>4, BundleUntouched

\* update: a load that no other one overlaps captures the accepted bundle.
LEMMA BundleUpdate ==
    ASSUME IInv, IInv', BundleInv, NEW p \in Procs, NEW c \in Certs, NEW b \in Bundle,
           update(p, c, b)
    PROVE  BundleInv'
<1> USE CertAssumption
<1>0. TypeOK /\ unsettled \in BOOLEAN /\ unsettled' \in BOOLEAN
  BY DEF IInv, TypeOK
<1>1. rpc[p] \in Rpc /\ rpc[p].at = "load"
  BY <1>0, RpcType DEF update, Calls, At
<1>2. rpc'[p] = [rpc[p] EXCEPT
         !.at = IF rpc[p].op = "install" THEN "accept" ELSE "respond",
         !.oldCert = certInfo[rpc[p].id], !.oldBundle = caBundle, !.bundle = b]
  BY <1>0 DEF TypeOK, update
<1>3. /\ rpc'[p].at \in {"accept", "respond"} /\ rpc'[p].bundle = b
      /\ rpc'[p].oldBundle = caBundle /\ rpc'[p] # None
  <2>1. rpc'[p] \in Rpc
    BY <1>0, <1>1, <1>2 DEF TypeOK, Rpc
  <2> QED
    BY <1>1, <1>2, <2>1 DEF Rpc
<1>4. \A q \in Procs \ {p} : rpc'[q] = rpc[q]
  BY <1>0 DEF TypeOK, update
<1>5. /\ accepted' = accepted /\ caBundle' = IF b # {} THEN b ELSE caBundle
      /\ unsettled' = (unsettled \/ (b # {} /\ \E q \in Procs : Loading(q)))
  BY DEF update
<1>6. ~Loading(p) /\ (Loading(p)' <=> b # {}) /\ \A q \in Procs \ {p} : Loading(q)' <=> Loading(q)
  BY <1>1, <1>3, <1>4 DEF Loading
<1>7. CASE b = {}
  BY <1>0, <1>4, <1>5, <1>6, <1>7, BundleUntouched
<1>8. CASE b # {}
  <2>1. SUFFICES ASSUME ~unsettled'
                 PROVE  /\ \A q, r \in Procs : Loading(q)' /\ Loading(r)' => q = r
                        /\ \A q \in Procs : Loading(q)' =>
                              rpc'[q].oldBundle = accepted' /\ rpc'[q].bundle = caBundle'
                        /\ (\A q \in Procs : ~Loading(q)') => caBundle' = accepted'
    BY DEF BundleInv
  <2>2. ~unsettled /\ \A q \in Procs : ~Loading(q)
    BY <1>0, <1>5, <1>8, <2>1
  <2>3. caBundle = accepted
    BY <2>2 DEF BundleInv
  <2> QED
    BY <1>3, <1>5, <1>6, <1>8, <2>2, <2>3
<1> QED
  BY <1>7, <1>8

\* accept and rollback: the bundle of the load is the accepted one, or the one
\* before it is in force again.
LEMMA BundleClosure ==
    ASSUME IInv, IInv', BundleInv, NEW p \in Procs,
           InstallAccept(p) \/ RotateAccept(p) \/ RotateBack(p)
    PROVE  BundleInv'
<1> USE CertAssumption
<1>0. TypeOK /\ unsettled \in BOOLEAN /\ unsettled' \in BOOLEAN
  BY DEF IInv, TypeOK
<1>1. rpc[p] \in Rpc /\ rpc[p].at \in {"accept", "finalize"} /\ rpc[p] # None
  BY <1>0, RpcType DEF InstallAccept, RotateAccept, RotateBack, At
<1>2. \A q \in Procs \ {p} : rpc'[q] = rpc[q]
  BY <1>0 DEF TypeOK, InstallAccept, RotateAccept, RotateBack, Goto, Return
<1>3. ~Loading(p)'
  <2>1. CASE InstallAccept(p)
    <3>1. rpc'[p] = [rpc[p] EXCEPT !.at = "reply"]
      BY <1>0, <2>1 DEF TypeOK, InstallAccept, Goto
    <3>2. rpc'[p].at = "reply"
      BY <1>1, <3>1 DEF Rpc
    <3> QED
      BY <3>2 DEF Loading
  <2>2. CASE RotateAccept(p) \/ RotateBack(p)
    BY <1>0, <2>2 DEF TypeOK, RotateAccept, RotateBack, Return, Loading
  <2> QED
    BY <2>1, <2>2
<1>4. /\ unsettled' = unsettled
      /\ \/ /\ caBundle' = caBundle
            /\ accepted' = IF rpc[p].bundle # {} THEN rpc[p].bundle ELSE accepted
         \/ /\ accepted' = accepted
            /\ caBundle' = IF rpc[p].bundle # {} THEN rpc[p].oldBundle ELSE caBundle
  BY DEF InstallAccept, RotateAccept, RotateBack, Commit, PutsBackBundle, history
<1>5. (Loading(p) <=> rpc[p].bundle # {}) /\ \A q \in Procs \ {p} : Loading(q)' <=> Loading(q)
  BY <1>1, <1>2 DEF Loading
<1>6. CASE rpc[p].bundle = {}
  BY <1>0, <1>2, <1>3, <1>4, <1>5, <1>6, BundleUntouched
<1>7. CASE rpc[p].bundle # {}
  <2>1. SUFFICES ASSUME ~unsettled'
                 PROVE  /\ \A q \in Procs : ~Loading(q)'
                        /\ caBundle' = accepted'
    BY DEF BundleInv
  <2>2. ~unsettled /\ Loading(p)
    BY <1>4, <1>5, <1>7, <2>1
  <2>3. /\ \A q \in Procs \ {p} : ~Loading(q)
        /\ rpc[p].oldBundle = accepted /\ rpc[p].bundle = caBundle
    BY <2>2 DEF BundleInv
  <2> QED
    BY <1>3, <1>4, <1>5, <1>7, <2>3
<1> QED
  BY <1>6, <1>7

\* As long as loads of CA bundles do not overlap and none is left without its
\* closure, the CA bundle outside a load is the one last accepted: what a
\* rollback captured (oldCABundle) is never out of date.
THEOREM SpecBundleSettled == Spec => []BundleSettled
<1>1. Init => BundleInv
  BY DEF Init, BundleInv, Loading
<1>2. IInv /\ IInv' /\ BundleInv /\ [Next]_vars => BundleInv'
  <2> SUFFICES ASSUME IInv, IInv', BundleInv, [Next]_vars
               PROVE  BundleInv'
    OBVIOUS
  <2>1. ASSUME NEW p \in Procs, Handle(p)
        PROVE  BundleInv'
    BY <2>1, BundleOutside, BundleUpdate, BundleClosure DEF Handle
  <2>2. CASE \E p \in Procs, id \in CertIDs, op \in {"install", "rotate", "revoke"} :
               Begin(p, op, id)
    BY <2>2, BundleOutside
  <2>3. CASE UNCHANGED <<caBundle, rpc, accepted, unsettled>>
    BY <2>3 DEF BundleInv, Loading
  <2> QED
    BY <2>1, <2>2, <2>3 DEF Next, NotifyBegin, NotifyEnd, Finished, vars, manager, history
<1>3. BundleInv => BundleSettled
  BY DEF BundleInv, BundleSettled
<1> QED
  BY <1>1, <1>2, <1>3, SpecIInv, PTL DEF Spec
=============================================================================
