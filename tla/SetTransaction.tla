--------------------------- MODULE SetTransaction ---------------------------
(***************************************************************************)
(* The Set RPC (gnmi/server/server.go, set) and the transaction of the     *)
(* Model under it (gnmi/model/set.go): deletes, replaces and updates in    *)
(* this order, a backup entry per target, SetRollback on the first error   *)
(* and SetDone at the end.                                                 *)
(*                                                                         *)
(* The Model lock is held from SetInit to SetDone, so a Set interleaves    *)
(* with nothing but the external system behind the StateConfig interface   *)
(* (dev).  That system is configured by executeStateConfig, may fail at any*)
(* call, and reports what it was told back through the StateUpdate         *)
(* interface when the lock is free.                                        *)
(*                                                                         *)
(* Data: containers (Dirs) with leaves.  A container is a Go struct: a     *)
(* backup entry of one keeps a pointer to it, not a copy, so an update     *)
(* that merges into the struct changes the backup too (live) until the     *)
(* struct is unlinked from the tree.  A wildcard path stands for the       *)
(* sequence of its targets.                                                *)
(***************************************************************************)
EXTENDS Naturals, Sequences, FiniteSets

CONSTANTS
    Leaves, Dirs,    \* the nodes of the data tree
    DirOf,           \* the container of each leaf
    KeyLeaves,       \* the leaves that are list keys
    ReadOnly,        \* the nodes whose schema is read-only
    Values,          \* what a leaf can be set to
    None,            \* an unset leaf
    Empty,           \* the empty string GetValueString gives for an unset leaf
    Nil,             \* no old value: the target was created by the Set
    HasStateConfig,  \* whether Model.StateConfig is set
    MaxOps,          \* targets in one Set request
    MaxSets,         \* Set requests
    Disjoint,        \* the targets of a request do not overlap
    Merges           \* a request may update an existing container

Nodes == Leaves \cup Dirs
Stored == Values \cup {None, Empty}

ASSUME SetAssumption ==
    /\ DirOf \in [Leaves -> Dirs]
    /\ Leaves \cap Dirs = {}
    /\ KeyLeaves \subseteq Leaves
    /\ ReadOnly \subseteq Nodes
    /\ None \notin Values /\ Empty \notin Values /\ None # Empty
    /\ \A d \in SUBSET Leaves : Nil \notin [d -> Stored]
    /\ HasStateConfig \in BOOLEAN /\ Disjoint \in BOOLEAN /\ Merges \in BOOLEAN
    /\ MaxOps \in Nat /\ MaxSets \in Nat

VARIABLES
    tree,    \* the value of each leaf in the Model
    dirs,    \* the containers linked in the Model's tree
    dev,     \* the configuration held by the external system
    dirty,   \* leaves the external system has not reported back yet
    phase,   \* the step of the Set in progress
    setSeq,  \* Model.setSeq
    backup,  \* Model.setBackup
    idx,     \* the backup entry SetRollback or SetDone is at
    err,     \* the error of the Set in progress
    devErr,  \* a StateConfig call failed in this Set
    orig,    \* the tree when the Set began
    origDev, \* what the external system held by then
    before,  \* "reported": it had reported everything by then; else how the
             \* previous Set ended
    gone     \* leaves this Set was asked to delete

vars == <<tree, dirs, dev, dirty, phase, setSeq, backup, idx, err, devErr,
          orig, origDev, before, gone>>
history == <<setSeq, orig, origDev, before>>

-----------------------------------------------------------------------------
(* The data tree (ytypes and the MO methods of gnmi/model/utilities.go). *)

LeavesOf(n) == IF n \in Dirs THEN {l \in Leaves : DirOf[l] = n} ELSE {n}
DirAt(n) == IF n \in Dirs THEN n ELSE DirOf[n]
Overlap(m, n) == LeavesOf(m) \cap LeavesOf(n) # {}

\* Find: a container that is linked, a leaf that is set.
Found(n) == IF n \in Dirs THEN n \in dirs ELSE tree[n] # None
Content(n) == [l \in LeavesOf(n) |-> tree[l]]

\* The tree without node n, and with the leaves of v written.
Cleared(t, n) == [l \in Leaves |-> IF l \in LeavesOf(n) THEN None ELSE t[l]]
Written(t, v) == [l \in Leaves |-> IF l \in DOMAIN v THEN v[l] ELSE t[l]]

\* What a request may write to n: a value for a leaf, some leaves of a
\* container (JSON).
Payloads(n) ==
    IF n \in Dirs THEN UNION {[s -> Values] : s \in SUBSET LeavesOf(n) \ {{}}}
                  ELSE [{n} -> Values]

\* What is left of payload v when writing it fails half way: Unmarshal has
\* set some of the leaves; a single leaf is not written at all.
Partial(n, v) ==
    {[l \in s |-> v[l]] : s \in IF n \in Dirs THEN SUBSET DOMAIN v \ {DOMAIN v}
                                              ELSE {{}}}

\* A struct that is unlinked keeps its content from now on.
Unlink(b, n) ==
    [i \in DOMAIN b |-> IF b[i].live /\ b[i].node = n
                        THEN [b[i] EXCEPT !.old = Content(n), !.live = FALSE]
                        ELSE b[i]]

-----------------------------------------------------------------------------
(* executeStateConfig(gpath, oldval).  ListAll yields every field of a      *)
(* struct, the unset ones too, and nothing for an old value that is a leaf. *)

\* The leaves ListAll finds at n in the tree.
Listed(n, linked, t) ==
    IF n \in Dirs THEN IF linked THEN LeavesOf(n) ELSE {}
                  ELSE {l \in {n} : t[l] # None}

\* The leaves ListAll finds in an old value.
ListedOld(n, had) == IF n \in Dirs /\ had THEN LeavesOf(n) ELSE {}

GetValueString(x) == IF x = None THEN Empty ELSE x

\* The calls made for node n, given whether it had an old value and the tree
\* t and links d after the change; ok is whether all of them succeeded.
executeStateConfig(n, had, t, d, ok) ==
    LET new == Listed(n, n \in d, t)
        del == ListedOld(n, had) \ new
    IN  IF ~HasStateConfig
        THEN ok /\ UNCHANGED <<dev, dirty>>
        ELSE \E x \in SUBSET del, y \in SUBSET new :
               /\ y # {} => x = del
               /\ ok => x = del /\ y = new
               /\ dev' = [l \in Leaves |-> IF l \in x THEN None
                                           ELSE IF l \in y THEN GetValueString(t[l])
                                           ELSE dev[l]]
               /\ dirty' = dirty \cup x \cup y

-----------------------------------------------------------------------------
(* The Set RPC *)

\* s.Model.Lock and SetInit.
SetInit ==
    /\ phase = "idle"
    /\ setSeq < MaxSets
    /\ setSeq' = setSeq + 1
    /\ phase' = "delete"
    /\ backup' = <<>>
    /\ err' = FALSE
    /\ devErr' = FALSE
    /\ orig' = tree
    /\ origDev' = dev
    /\ before' = IF dirty = {} THEN "reported" ELSE IF err THEN "failed" ELSE "ok"
    /\ gone' = {}
    /\ UNCHANGED <<tree, dirs, dev, dirty, idx>>

\* Targets a request of this instance may name next.
MayName(n) ==
    /\ Len(backup) < MaxOps
    /\ Disjoint => \A i \in DOMAIN backup : ~Overlap(backup[i].node, n)

\* addBackupEntry; the entry of an updated container stays linked.
addBackupEntry(op, n) ==
    [node |-> n, executed |-> FALSE,
     old  |-> IF Found(n) THEN Content(n) ELSE Nil,
     live |-> op = "update" /\ n \in Dirs /\ Found(n)]

\* The first error ends the operations: the rest of the request is aborted.
Fail == err' = TRUE /\ phase' = "rollback" /\ idx' = 1

\* A target is refused before it is backed up: one that was found and whose path
\* does not convert back (ToGNMIPath), or a read-only one.
SetRefuse(op) ==
    /\ phase = op
    /\ \E n \in Nodes : /\ MayName(n)
                        /\ Found(n) \/ (n \in ReadOnly /\ op # "delete")
    /\ Fail
    /\ UNCHANGED <<tree, dirs, dev, dirty, backup, devErr, gone, history>>

\* The change of one target: its backup entry e, then the tree t and links d,
\* then the external system, which marks the entry executed if it agrees.
Execute(b, e, n, t, d) ==
    /\ tree' = t
    /\ dirs' = d
    /\ \E ok \in BOOLEAN :
         /\ executeStateConfig(n, e.old # Nil, t, d, ok)
         /\ backup' = Append(b, [e EXCEPT !.executed = ok])
         /\ \/ ok /\ UNCHANGED <<phase, idx, err, devErr>>
            \/ ~ok /\ Fail /\ devErr' = TRUE

\* Writing the value failed after the tree was touched.
BadData(b, e, t, d) ==
    /\ tree' = t
    /\ dirs' = d
    /\ backup' = Append(b, e)
    /\ Fail
    /\ UNCHANGED <<dev, dirty, devErr>>

\* DeleteNode failed: the target stays as it was backed up.
NotDeleted(e) == BadData(backup, e, tree, dirs)

SetDelete(n) ==
    /\ phase = "delete"
    /\ n \notin ReadOnly /\ Found(n) /\ MayName(n)
    /\ LET e == addBackupEntry("delete", n)
       IN  \/ Execute(Unlink(backup, n), e, n, Cleared(tree, n), dirs \ {n})
           \/ NotDeleted(e)
    /\ gone' = gone \cup LeavesOf(n)
    /\ UNCHANGED history

SetReplace(n) ==
    /\ phase = "replace"
    /\ n \notin ReadOnly /\ MayName(n)
    /\ LET b == Unlink(backup, n)
           e == addBackupEntry("replace", n)
       IN  \/ Found(n) /\ NotDeleted(e)
           \/ \E v \in Payloads(n) :
                \/ Execute(b, e, n, Written(Cleared(tree, n), v), dirs \cup {DirAt(n)})
                \/ \E w \in Partial(n, v) :
                     BadData(b, e, Written(Cleared(tree, n), w), dirs \cup {DirAt(n)})
    /\ UNCHANGED <<gone, history>>

SetUpdate(n) ==
    /\ phase = "update"
    /\ n \notin ReadOnly /\ MayName(n)
    /\ n \in dirs => Merges
    /\ LET e == addBackupEntry("update", n)
       IN  \E v \in Payloads(n) :
             \/ Execute(backup, e, n, Written(tree, v), dirs \cup {DirAt(n)})
             \/ \E w \in Partial(n, v) :
                  BadData(backup, e, Written(tree, w), dirs \cup {DirAt(n)})
    /\ UNCHANGED <<gone, history>>

\* Deletes, then replaces, then updates; SetDone follows the last of them.
NextKind ==
    /\ phase \in {"delete", "replace", "update"}
    /\ phase' = CASE phase = "delete"  -> "replace"
                  [] phase = "replace" -> "update"
                  [] phase = "update"  -> "done"
    /\ idx' = 1
    /\ UNCHANGED <<tree, dirs, dev, dirty, backup, err, devErr, gone, history>>

-----------------------------------------------------------------------------
(* SetRollback and SetDone *)

\* The value an entry restores; a live entry restores what is there.
OldOf(e) == IF e.live THEN Content(e.node) ELSE e.old

\* The tree and links once entry e is restored: DeleteValue, which spares list
\* keys, or WriteValue, which overwrites the whole struct.
Restored(e) ==
    IF e.old = Nil
    THEN IF e.node \in KeyLeaves THEN tree ELSE Cleared(tree, e.node)
    ELSE Written(tree, OldOf(e))
RestoredDirs(e) ==
    IF e.old = Nil THEN dirs \ {e.node} ELSE dirs \cup {DirAt(e.node)}

\* Defect: an entry that was not executed is not restored at all.
RevertExecuted(e) ==
    IF e.executed THEN tree' = Restored(e) /\ dirs' = RestoredDirs(e)
                  ELSE UNCHANGED <<tree, dirs>>

\* The data of entry e is put back.
Revert(e) == tree' = Restored(e) /\ dirs' = RestoredDirs(e)

\* Defect: the external system is configured for the wrong entries.
ReplaysUnexecuted(e) == ~e.executed

\* The external system is configured again for the entries it has executed.
Replays(e) == e.executed

\* Entries are undone in the order they were made.  Errors are ignored.
SetRollback ==
    /\ phase = "rollback"
    /\ idx <= Len(backup)
    /\ LET e == backup[idx]
       IN  /\ Revert(e)
           /\ backup' = IF e.old = Nil THEN Unlink(backup, e.node) ELSE backup
           /\ \/ /\ Replays(e)
                 /\ \E ok \in BOOLEAN :
                      /\ executeStateConfig(e.node, Found(e.node), tree', dirs', ok)
                      /\ devErr' = (devErr \/ ~ok)
              \/ ~Replays(e) /\ UNCHANGED <<dev, dirty, devErr>>
    /\ idx' = idx + 1
    /\ UNCHANGED <<phase, err, gone, history>>

EndRollback ==
    /\ phase = "rollback"
    /\ idx > Len(backup)
    /\ backup' = <<>>
    /\ phase' = "done"
    /\ idx' = 1
    /\ UNCHANGED <<tree, dirs, dev, dirty, err, devErr, gone, history>>

\* Defect: SetDone leaves what the Set created in the Model.
KeepsCreated(e) == IF e.old = Nil THEN UNCHANGED <<tree, dirs>> ELSE Revert(e)

\* One entry of the loop of SetDone.
DoneEntry(e) == Revert(e)

\* With a StateConfig the new data is reverted: the external system reports it.
SetDone ==
    /\ phase = "done"
    /\ HasStateConfig
    /\ idx <= Len(backup)
    /\ LET e == backup[idx]
       IN  /\ DoneEntry(e)
           /\ backup' = IF e.old = Nil THEN Unlink(backup, e.node) ELSE backup
    /\ idx' = idx + 1
    /\ UNCHANGED <<dev, dirty, phase, err, devErr, gone, history>>

\* The answer is sent and the Model lock released.
EndSet ==
    /\ phase = "done"
    /\ HasStateConfig => idx > Len(backup)
    /\ backup' = IF HasStateConfig THEN <<>> ELSE backup
    /\ phase' = "idle"
    /\ UNCHANGED <<tree, dirs, dev, dirty, idx, err, devErr, gone, history>>

-----------------------------------------------------------------------------
(* The external system reports leaves it was configured with: one Model      *)
(* update of UpdateCreate, UpdateReplace and UpdateDelete calls.             *)

\* The tree once the leaves of s are written or deleted, list keys excepted.
Reported(s) ==
    [l \in Leaves |-> IF l \in s /\ ~(dev[l] = None /\ l \in KeyLeaves)
                     THEN dev[l] ELSE tree[l]]

StateUpdate ==
    /\ phase = "idle"
    /\ \E s \in SUBSET dirty \ {{}} :
         /\ tree' = Reported(s)
         /\ dirs' = dirs \cup {DirOf[l] : l \in {m \in s : dev[m] # None}}
         /\ dirty' = dirty \ s
    /\ UNCHANGED <<dev, phase, backup, idx, err, devErr, gone, history>>

\* Every request was answered and reported.
Stopped == phase = "idle" /\ setSeq = MaxSets /\ dirty = {} /\ UNCHANGED vars

-----------------------------------------------------------------------------
\* The startup configuration, known to the external system too.
Init ==
    /\ tree \in [Leaves -> Values \cup {None}]
    /\ dirs = {DirOf[l] : l \in {m \in Leaves : tree[m] # None}}
    /\ dev = tree
    /\ dirty = {}
    /\ phase = "idle"
    /\ setSeq = 0
    /\ backup = <<>>
    /\ idx = 1
    /\ err = FALSE
    /\ devErr = FALSE
    /\ orig = tree
    /\ origDev = tree
    /\ before = "reported"
    /\ gone = {}

Next ==
    \/ SetInit
    \/ \E op \in {"delete", "replace", "update"} : SetRefuse(op)
    \/ \E n \in Nodes : SetDelete(n) \/ SetReplace(n) \/ SetUpdate(n)
    \/ NextKind
    \/ SetRollback \/ EndRollback
    \/ SetDone \/ EndSet
    \/ StateUpdate
    \/ Stopped

Spec == Init /\ [][Next]_vars

-----------------------------------------------------------------------------
(* The Set as the abstract one of AtomicSet *)

Ops == {"delete", "replace", "update"}

\* A Set is being executed, or its data is being put back.
Restoring == \/ phase \in Ops \cup {"rollback"}
             \/ phase = "done" /\ (err \/ HasStateConfig)

\* List keys and containers are left out: SetRollback deletes neither the keys
\* nor the container that a leaf was created in.
ConfigLeaves == Leaves \ KeyLeaves
ConfigOf(t) == [l \in ConfigLeaves |-> t[l]]
AtomicConfig == ConfigOf(IF Restoring THEN orig ELSE tree)
AtomicWork == IF phase \in Ops THEN ConfigOf(tree) ELSE AtomicConfig
AtomicStage == IF phase \in Ops THEN phase ELSE "closed"

Atomic == INSTANCE AtomicSet
            WITH Leaves <- ConfigLeaves, Targets <- {LeavesOf(n) \ KeyLeaves : n \in Nodes},
                 Deferred <- HasStateConfig,
                 config <- AtomicConfig, work <- AtomicWork, stage <- AtomicStage,
                 device <- ConfigOf(dev), pending <- dirty \ KeyLeaves

-----------------------------------------------------------------------------
(* Properties *)

BackupEntry == [node : Nodes, executed : BOOLEAN, live : BOOLEAN,
                old : {Nil} \cup UNION {[LeavesOf(n) -> Stored] : n \in Nodes}]

\* Every variable keeps its type, and a leaf that is set is in a linked
\* container (the Go structs of the Model).
TypeOK ==
    /\ tree \in [Leaves -> Stored]
    /\ dirs \in SUBSET Dirs
    /\ \A l \in Leaves : tree[l] # None => DirOf[l] \in dirs
    /\ dev \in [Leaves -> Stored]
    /\ dirty \in SUBSET Leaves
    /\ phase \in {"idle", "delete", "replace", "update", "rollback", "done"}
    /\ setSeq \in 0..MaxSets
    /\ backup \in Seq(BackupEntry) /\ Len(backup) <= MaxOps
    /\ idx \in 1..(MaxOps + 1)
    /\ err \in BOOLEAN /\ devErr \in BOOLEAN
    /\ before \in {"reported", "failed", "ok"}
    /\ orig \in [Leaves -> Stored] /\ origDev \in [Leaves -> Stored]
    /\ gone \in SUBSET Leaves

\* "SetRollback reverts the original configuration" (set.go:76): once the
\* rollback of a failed Set is over, every leaf has the value it had when the
\* Set began, whichever operation failed and however far it got.  List keys
\* are excepted: DeleteValue does not delete them.
RollbackRestoresTree ==
    phase = "done" /\ err => \A l \in Leaves \ KeyLeaves : tree[l] = orig[l]

\* Every value the external system held when the Set began is there again.
KeepsDevice == \A l \in Leaves \ KeyLeaves : origDev[l] # None => dev[l] = origDev[l]

\* A Set refused by the Model itself takes no configured value away from the
\* external system, provided it had reported everything when the Set began
\* (SetRollback's executeStateConfig).
NoConfigLostByFailedSet ==
    (HasStateConfig /\ phase = "done" /\ err /\ ~devErr /\ before = "reported")
        => KeepsDevice

\* Once everything is reported the Model and the external system agree, also
\* after Sets that failed half way through executeStateConfig.
AgreeWhenReported ==
    (HasStateConfig /\ phase = "idle" /\ dirty = {}) =>
        \A l \in Leaves \ KeyLeaves : tree[l] = dev[l]

\* A Set is atomic: it works as if on a private copy of the configuration that
\* its deletes, replaces and updates change in this order, and that takes effect
\* as a whole (SetDone) or not at all (SetRollback), whichever operation fails
\* and however far it got.  With a StateConfig it changes nothing by itself: the
\* external system is told what it writes, and the configuration changes when
\* that system reports.
ImplementsAtomicSet == Atomic!Spec

\* The same while the Set before it, which succeeded, is not reported yet.
\* Does NOT hold (MCSetStateConfig.cfg).
FailedSetKeepsEarlierSet ==
    (HasStateConfig /\ phase = "done" /\ err /\ ~devErr /\ before = "ok")
        => KeepsDevice

\* "SetDelete deletes the path from root if the path exists" (set.go:116): after
\* a Set that succeeded, and once everything is reported, what it deleted is
\* gone.  Does NOT hold with a StateConfig (MCSetStateConfig.cfg).
DeletedIsGone ==
    (phase = "idle" /\ dirty = {} /\ ~err) => \A l \in gone : tree[l] = None

=============================================================================
