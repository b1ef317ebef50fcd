----------------------------- MODULE AtomicSet -----------------------------
(***************************************************************************)
(* What a gNMI Set promises, without backup entries, rollback loops or     *)
(* calls that fail half way: the deletes, the replaces and the updates of  *)
(* a request change a private copy of the configuration, in this order.    *)
(* The copy becomes the configuration at once when the request is done, or *)
(* is dropped at the first error.                                          *)
(*                                                                         *)
(* When an external system keeps the configuration (Deferred) it is told   *)
(* what a request writes, and a Set changes nothing that others read: the  *)
(* configuration changes between the requests, when that system reports a  *)
(* leaf it was told about.                                                 *)
(***************************************************************************)
CONSTANTS
    Leaves,    \* the leaves a request can set and unset
    Targets,   \* the sets of leaves a request can name
    Values,    \* what a request can set a leaf to
    Stored,    \* what a leaf can hold
    None,      \* an unset leaf
    Deferred   \* an external system keeps the configuration

VARIABLES
    config,    \* the configuration that everyone reads outside a Set
    work,      \* the copy the Set in progress works on
    stage,     \* "closed", or the operations the Set is at
    device,    \* what the external system holds
    pending    \* leaves it was told about and has not reported

vars == <<config, work, stage, device, pending>>

Stages == {"delete", "replace", "update"}
Payloads(t) == UNION {[s -> Values] : s \in SUBSET t}

Init ==
    /\ config \in [Leaves -> Stored]
    /\ work = config
    /\ stage = "closed"
    /\ device = config
    /\ pending = {}

Begin ==
    /\ stage = "closed"
    /\ stage' = "delete"
    /\ work' = config
    /\ UNCHANGED <<config, device, pending>>

\* The external system is told about leaves of target t.
Tell(t) ==
    /\ device' \in [Leaves -> Stored]
    /\ pending' \in {pending \cup s : s \in SUBSET t}
    /\ \A l \in Leaves : device'[l] = device[l] \/ (l \in t /\ l \in pending')
    /\ ~Deferred => UNCHANGED <<device, pending>>

\* An operation on t writes v and unsets the other leaves of u.
Write(op, t, u, v) ==
    /\ stage = op
    /\ work' = [l \in Leaves |-> IF l \in DOMAIN v THEN v[l]
                                 ELSE IF l \in u THEN None ELSE work[l]]
    /\ Tell(t)
    /\ Deferred => \A l \in DOMAIN v : l \in pending' /\ device'[l] = v[l]
    /\ UNCHANGED <<config, stage>>

Delete(t) == Write("delete", t, t, <<>>)
Replace(t, v) == Write("replace", t, t, v)
Update(t, v) == Write("update", t, {}, v)

\* The operations of one kind are followed by those of the next.
NextStage ==
    /\ \/ stage = "delete" /\ stage' = "replace"
       \/ stage = "replace" /\ stage' = "update"
    /\ UNCHANGED <<config, work, device, pending>>

\* The request is done.
Commit ==
    /\ stage = "update"
    /\ stage' = "closed"
    /\ config' = IF Deferred THEN config ELSE work
    /\ work' = config'
    /\ UNCHANGED <<device, pending>>

\* An operation on t failed, before or after it changed anything.
Abort(t) ==
    /\ stage \in Stages
    /\ stage' = "closed"
    /\ work' = config
    /\ Tell(t)
    /\ UNCHANGED config

\* The external system is told to take back what it was told.
TakeBack(t) ==
    /\ stage = "closed"
    /\ Tell(t)
    /\ UNCHANGED <<config, work, stage>>

\* The external system reports the leaves of s.
Report(s) ==
    /\ stage = "closed"
    /\ config' = [l \in Leaves |-> IF l \in s THEN device[l] ELSE config[l]]
    /\ work' = config'
    /\ pending' = pending \ s
    /\ UNCHANGED <<stage, device>>

Next ==
    \/ Begin \/ NextStage \/ Commit
    \/ \E t \in Targets :
         \/ Delete(t) \/ Abort(t) \/ TakeBack(t)
         \/ \E v \in Payloads(t) : Replace(t, v) \/ Update(t, v)
    \/ \E s \in SUBSET pending : Report(s)

Spec == Init /\ [][Next]_vars

=============================================================================
