----------------------------- MODULE CertStore -----------------------------
(***************************************************************************)
(* What the certificate manager (gnoi/cert/manager.go) promises, without   *)
(* handlers, locks, closures or notify goroutines: a map from certificate  *)
(* IDs to certificates that operations change one ID at a time and all at  *)
(* once.  An operation that fails half way leaves its ID lost: the old or  *)
(* the new certificate is in force, and no operation touches the ID again. *)
(***************************************************************************)
CONSTANTS CertIDs, Certs, None

VARIABLES
    cert,     \* the certificate in force for each ID
    loaded,   \* the certificate of the operation on each ID
    phase     \* "free", "busy" with an operation, or "lost"

vars == <<cert, loaded, phase>>

Init ==
    /\ cert = [id \in CertIDs |-> None]
    /\ loaded = [id \in CertIDs |-> None]
    /\ phase = [id \in CertIDs |-> "free"]

\* The ID goes from one phase to another, with l loaded and c in force.
Becomes(id, from, to, l, c) ==
    /\ phase[id] = from
    /\ phase' = [phase EXCEPT ![id] = to]
    /\ loaded' = [loaded EXCEPT ![id] = l]
    /\ cert' = [cert EXCEPT ![id] = c]

\* An Install or a Rotate loads its certificate.
Load(id, c) == Becomes(id, "free", "busy", c, cert[id])

\* It is accepted: the certificate that was loaded is in force.
Accept(id) == Becomes(id, "busy", "free", None, loaded[id])

\* A Rotate is rolled back: the old certificate stays in force.
Rollback(id) == cert[id] # None /\ Becomes(id, "busy", "free", None, cert[id])

\* The load fails half way, before or after the certificate was replaced.
LoseLoading(id, c) == Becomes(id, "free", "lost", None, c)

\* The answer to a load cannot be sent.
LoseLoaded(id) == Becomes(id, "busy", "lost", None, loaded[id])

\* Certificates of IDs without an operation are revoked.
Revoke(ids) ==
    /\ \A id \in ids : phase[id] = "free"
    /\ cert' = [id \in CertIDs |-> IF id \in ids THEN None ELSE cert[id]]
    /\ UNCHANGED <<loaded, phase>>

Next ==
    \/ \E id \in CertIDs : Accept(id) \/ Rollback(id) \/ LoseLoaded(id)
    \/ \E id \in CertIDs, c \in Certs : Load(id, c)
    \/ \E id \in CertIDs : \E c \in Certs \cup {cert[id]} : LoseLoading(id, c)
    \/ \E ids \in SUBSET CertIDs : Revoke(ids)

Spec == Init /\ [][Next]_vars

=============================================================================
