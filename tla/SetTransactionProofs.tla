------------------------ MODULE SetTransactionProofs ------------------------
(***************************************************************************)
(* Theorems about the Set transaction, for every data tree, every number   *)
(* of targets and requests, with and without an external system.           *)
(*                                                                         *)
(* What the transaction promises rests on its backup entries.  The entry   *)
(* of a target holds what the target was when the Set began, a leaf that   *)
(* no entry covers was not touched, and a leaf whose entry is behind idx   *)
(* was put back: RestoreInv says this for the Model, DeviceInv for the     *)
(* external system.                                                        *)
(***************************************************************************)
EXTENDS SetTransaction, TLAPS

\* A backup entry with an old value has one for the leaves of its node.
Entry == {e \in BackupEntry : e.old # Nil => e.old \in [LeavesOf(e.node) -> Stored]}

TInv == TypeOK /\ backup \in Seq(Entry)

\* The hypotheses of the theorems on rollback: the targets of a request do not
\* overlap, and no request merges into an existing container.  Without either
\* of them SetRollback does not restore the tree.
Separate == Disjoint /\ ~Merges

\* The entries SetRollback and SetDone have not reached yet.
From == IF phase \in {"rollback", "done"} THEN idx ELSE 1
Pending(l) == \E i \in DOMAIN backup : i >= From /\ l \in LeavesOf(backup[i].node)
Replayed(l) == \E i \in DOMAIN backup :
                  i >= From /\ backup[i].executed /\ l \in LeavesOf(backup[i].node)

\* What an entry keeps of the tree the Set began with.
KeepsOrig(e) ==
    \A l \in LeavesOf(e.node) \ KeyLeaves :
        orig[l] = IF e.old = Nil THEN None ELSE e.old[l]

RestoreInv ==
    /\ \A i \in DOMAIN backup : ~backup[i].live /\ KeepsOrig(backup[i])
    /\ \A i, j \in DOMAIN backup :
         i # j => ~Overlap(backup[i].node, backup[j].node)
    /\ phase \in Ops => ~err
    /\ phase = "done" /\ err => backup = <<>>
    /\ Restoring => \A l \in Leaves \ KeyLeaves : Pending(l) \/ tree[l] = orig[l]

\* What the Model holds outside a Set.
Settled(l) == IF phase = "idle" THEN tree[l] ELSE orig[l]

\* The external system differs from the Model in leaves it has yet to report.
ReportInv == HasStateConfig => \A l \in Leaves \ KeyLeaves : l \in dirty \/ Settled(l) = dev[l]

\* A value it held when the Set began is there, or its entry is still to be
\* replayed.
DeviceInv ==
    (HasStateConfig /\ phase # "idle" /\ before = "reported") =>
        /\ \A l \in Leaves \ KeyLeaves : orig[l] = origDev[l]
        /\ (~devErr /\ (phase = "done" => err)) =>
             \A l \in Leaves \ KeyLeaves :
                origDev[l] # None => dev[l] = origDev[l] \/ Replayed(l)

SInv == RestoreInv /\ ReportInv /\ DeviceInv

-----------------------------------------------------------------------------
(* The data tree *)

\* Every set leaf of t is in a container of d.
Linked(t, d) == \A l \in Leaves : t[l] # None => DirOf[l] \in d

\* LeavesOf: the leaves of a node are leaves, all in the same container.
LEMMA NodeLeaves ==
    ASSUME NEW n \in Nodes
    PROVE  /\ LeavesOf(n) \subseteq Leaves
           /\ DirAt(n) \in Dirs
           /\ \A l \in LeavesOf(n) : DirOf[l] = DirAt(n)
BY SetAssumption DEF LeavesOf, DirAt, Nodes

\* Content: what a node holds is an old value of it, and not Nil.
LEMMA ContentIsOld ==
    ASSUME TypeOK, NEW n \in Nodes
    PROVE  Content(n) \in [LeavesOf(n) -> Stored] /\ Content(n) # Nil
<1>1. LeavesOf(n) \in SUBSET Leaves
  BY NodeLeaves
<1>2. Content(n) \in [LeavesOf(n) -> Stored]
  BY <1>1 DEF Content, TypeOK
<1>3. QED
  BY <1>1, <1>2, SetAssumption

\* Cleared: the other leaves keep their value, and the container may go.
LEMMA ClearedTree ==
    ASSUME NEW t \in [Leaves -> Stored], NEW d \in SUBSET Dirs, Linked(t, d),
           NEW n \in Nodes
    PROVE  /\ Cleared(t, n) \in [Leaves -> Stored]
           /\ Linked(Cleared(t, n), d \ {n})
           /\ Linked(Cleared(t, n), d)
           /\ \A l \in Leaves : Cleared(t, n)[l] = IF l \in LeavesOf(n) THEN None ELSE t[l]
<1>1. \A l \in Leaves : Cleared(t, n)[l] = IF l \in LeavesOf(n) THEN None ELSE t[l]
  BY DEF Cleared
<1>2. Cleared(t, n) \in [Leaves -> Stored]
  BY DEF Cleared, Stored
<1>3. Linked(Cleared(t, n), d)
  BY <1>1 DEF Linked
<1>4. Linked(Cleared(t, n), d \ {n})
  <2>1. SUFFICES ASSUME NEW l \in Leaves, Cleared(t, n)[l] # None
                 PROVE  DirOf[l] \in d \ {n}
    BY DEF Linked
  <2>2. l \notin LeavesOf(n) /\ DirOf[l] \in d
    BY <1>1, <2>1 DEF Linked
  <2>3. DirOf[l] # n
    BY <2>2, SetAssumption DEF LeavesOf
  <2>4. QED
    BY <2>2, <2>3
<1>5. QED
  BY <1>1, <1>2, <1>3, <1>4

\* Written: the leaves of v have its values, and their container is linked.
LEMMA WrittenTree ==
    ASSUME NEW t \in [Leaves -> Stored], NEW d \in SUBSET Dirs, Linked(t, d),
           NEW n \in Nodes, NEW s \in SUBSET LeavesOf(n), NEW v \in [s -> Stored]
    PROVE  /\ Written(t, v) \in [Leaves -> Stored]
           /\ Linked(Written(t, v), d \cup {DirAt(n)})
           /\ d \cup {DirAt(n)} \in SUBSET Dirs
           /\ \A l \in Leaves : Written(t, v)[l] = IF l \in s THEN v[l] ELSE t[l]
<1>1. \A l \in Leaves : Written(t, v)[l] = IF l \in s THEN v[l] ELSE t[l]
  BY DEF Written
<1>2. Written(t, v) \in [Leaves -> Stored]
  BY DEF Written
<1>3. Linked(Written(t, v), d \cup {DirAt(n)})
  BY <1>1, NodeLeaves DEF Linked
<1>4. QED
  BY <1>1, <1>2, <1>3, NodeLeaves

\* Payloads: a request writes to leaves of its target.
LEMMA PayloadLeaves ==
    ASSUME NEW n \in Nodes, NEW v \in Payloads(n)
    PROVE  \E s \in SUBSET LeavesOf(n) : v \in [s -> Stored]
<1>1. PICK s \in SUBSET LeavesOf(n) : v \in [s -> Values]
  <2>1. CASE n \in Dirs
    BY <2>1 DEF Payloads
  <2>2. CASE n \notin Dirs
    BY <2>2 DEF Payloads, LeavesOf
  <2>3. QED
    BY <2>1, <2>2
<1>2. v \in [s -> Stored]
  BY <1>1 DEF Stored
<1>3. QED
  BY <1>2

\* A payload that was written half way.
LEMMA PartialLeaves ==
    ASSUME NEW n \in Nodes, NEW v \in Payloads(n), NEW w \in Partial(n, v)
    PROVE  \E s \in SUBSET LeavesOf(n) : w \in [s -> Stored]
<1>1. PICK s \in SUBSET LeavesOf(n) : v \in [s -> Stored]
  BY PayloadLeaves
<1>2. DOMAIN v = s
  BY <1>1
<1>3. PICK p \in SUBSET s : w = [l \in p |-> v[l]]
  BY <1>2 DEF Partial
<1>4. w \in [p -> Stored]
  BY <1>1, <1>3
<1>5. QED
  BY <1>4

\* GetValueString of a stored value is stored.
LEMMA ValueStringStored ==
    ASSUME NEW x \in Stored
    PROVE  GetValueString(x) \in Stored /\ (x # None => GetValueString(x) = x)
BY DEF GetValueString, Stored

\* Unlink keeps the entries and what they stand for.
LEMMA UnlinkEntries ==
    ASSUME TypeOK, NEW b \in Seq(Entry), NEW n \in Nodes
    PROVE  Unlink(b, n) \in Seq(Entry) /\ Len(Unlink(b, n)) = Len(b)
<1>1. DOMAIN b = 1..Len(b) /\ Len(b) \in Nat
  OBVIOUS
<1> DEFINE f(i) == IF b[i].live /\ b[i].node = n
                   THEN [b[i] EXCEPT !.old = Content(n), !.live = FALSE]
                   ELSE b[i]
<1>2. \A i \in 1..Len(b) : f(i) \in Entry
  <2>1. TAKE i \in 1..Len(b)
  <2>2. b[i] \in Entry
    OBVIOUS
  <2>3. CASE b[i].live /\ b[i].node = n
    <3> DEFINE e == [node |-> n, executed |-> b[i].executed, live |-> FALSE, old |-> Content(n)]
    <3>1. f(i) = e
      BY <2>2, <2>3 DEF Entry, BackupEntry
    <3>2. Content(n) \in [LeavesOf(n) -> Stored]
      BY ContentIsOld
    <3>3. e \in Entry
      BY <2>2, <3>2 DEF Entry, BackupEntry
    <3>4. QED
      BY <3>1, <3>3
  <2>4. QED
    BY <2>2, <2>3
<1>3. Unlink(b, n) = [i \in 1..Len(b) |-> f(i)]
  BY <1>1 DEF Unlink
<1> HIDE DEF f
<1>4. QED
  BY <1>1, <1>2, <1>3

\* ... and changes nothing when no entry is live.
LEMMA UnlinkNothing ==
    ASSUME NEW b \in Seq(Entry), NEW n, \A i \in DOMAIN b : ~b[i].live
    PROVE  Unlink(b, n) = b
<1>1. Unlink(b, n) = [i \in DOMAIN b |-> b[i]]
  BY DEF Unlink
<1>2. QED
  BY <1>1

\* addBackupEntry: the entry of a target is one, with what the target holds.
LEMMA NewEntry ==
    ASSUME TypeOK, NEW op, NEW n \in Nodes, NEW ok \in BOOLEAN
    PROVE  LET e == addBackupEntry(op, n)
               f == [e EXCEPT !.executed = ok]
           IN  /\ e \in Entry /\ f \in Entry
               /\ e.node = n /\ ~e.executed
               /\ f.node = n /\ f.executed = ok /\ f.old = e.old /\ f.live = e.live
               /\ e.old = IF Found(n) THEN Content(n) ELSE Nil
               /\ e.live = (op = "update" /\ n \in Dirs /\ Found(n))
<1> DEFINE old == IF Found(n) THEN Content(n) ELSE Nil
           live == op = "update" /\ n \in Dirs /\ Found(n)
           ent(x) == [node |-> n, executed |-> x, old |-> old, live |-> live]
<1>1. old \in {Nil} \cup [LeavesOf(n) -> Stored]
  BY ContentIsOld
<1>2. live \in BOOLEAN
  OBVIOUS
<1> HIDE DEF old, live
<1>3. \A x \in BOOLEAN : ent(x) \in Entry
  BY <1>1, <1>2 DEF Entry, BackupEntry
<1>4. addBackupEntry(op, n) = ent(FALSE)
  BY DEF addBackupEntry, old, live
<1>5. [addBackupEntry(op, n) EXCEPT !.executed = ok] = ent(ok)
  BY <1>4
<1>6. old = IF Found(n) THEN Content(n) ELSE Nil
  BY DEF old
<1>7. live = (op = "update" /\ n \in Dirs /\ Found(n))
  BY DEF live
<1>8. \A x \in BOOLEAN : /\ ent(x).node = n /\ ent(x).executed = x
                         /\ ent(x).old = old /\ ent(x).live = live
  OBVIOUS
<1> HIDE DEF ent
<1>9. QED
  BY <1>3, <1>4, <1>5, <1>6, <1>7, <1>8

-----------------------------------------------------------------------------
(* One target of a request *)

\* The external system is told about leaves of n only, and has to report the
\* ones it was told about.
DeviceStep(n) ==
    /\ dev' \in [Leaves -> Stored]
    /\ dirty' \in SUBSET Leaves
    /\ dirty \subseteq dirty' /\ dirty' \subseteq dirty \cup LeavesOf(n)
    /\ ~HasStateConfig => UNCHANGED <<dev, dirty>>
    /\ \A l \in Leaves : dev'[l] = dev[l] \/ (l \in dirty' /\ l \in LeavesOf(n))

\* executeStateConfig: whatever part of it succeeds, and all of it if it does.
LEMMA DeviceStepOf ==
    ASSUME TypeOK, NEW n \in Nodes, NEW had \in BOOLEAN, NEW t \in [Leaves -> Stored],
           NEW d \in SUBSET Dirs, NEW ok \in BOOLEAN,
           executeStateConfig(n, had, t, d, ok)
    PROVE  /\ DeviceStep(n)
           /\ ok /\ HasStateConfig =>
                \A l \in Listed(n, n \in d, t) :
                    l \in dirty' /\ dev'[l] = GetValueString(t[l])
<1>1. CASE ~HasStateConfig
  BY <1>1 DEF executeStateConfig, DeviceStep, TypeOK
<1>2. CASE HasStateConfig
  <2> DEFINE new == Listed(n, n \in d, t)
             del == ListedOld(n, had) \ new
  <2>1. new \subseteq LeavesOf(n) /\ del \subseteq LeavesOf(n)
    BY DEF Listed, ListedOld, LeavesOf
  <2>2. PICK x \in SUBSET del, y \in SUBSET new :
          /\ ok => x = del /\ y = new
          /\ dev' = [l \in Leaves |-> IF l \in x THEN None
                                      ELSE IF l \in y THEN GetValueString(t[l])
                                      ELSE dev[l]]
          /\ dirty' = dirty \cup x \cup y
    BY <1>2 DEF executeStateConfig
  <2> HIDE DEF new, del
  <2>3. LeavesOf(n) \subseteq Leaves
    BY NodeLeaves
  <2>4. dev' \in [Leaves -> Stored]
    BY <2>2, ValueStringStored DEF TypeOK, Stored
  <2>5. \A l \in Leaves : dev'[l] = IF l \in x THEN None
                                    ELSE IF l \in y THEN GetValueString(t[l])
                                    ELSE dev[l]
    BY <2>2
  <2>6. /\ dirty \subseteq dirty' /\ dirty' \subseteq dirty \cup LeavesOf(n)
        /\ dirty' \in SUBSET Leaves
    BY <2>1, <2>2, <2>3 DEF TypeOK
  <2>7. DeviceStep(n)
    BY <1>2, <2>1, <2>2, <2>4, <2>5, <2>6 DEF DeviceStep
  <2>8. ok => \A l \in new : l \in dirty' /\ dev'[l] = GetValueString(t[l])
    BY <2>1, <2>2, <2>3, <2>5 DEF del
  <2>9. QED
    BY <2>7, <2>8 DEF new
<1>3. QED
  BY <1>1, <1>2

\* What an operation on target n does, whichever it is and however it ends:
\* its entry follows the entries b, and the tree and the external system change
\* within the target.
OpStep(op, n, b) ==
    \E ok \in BOOLEAN :
      /\ backup' = Append(b, [addBackupEntry(op, n) EXCEPT !.executed = ok])
      /\ tree' \in [Leaves -> Stored]
      /\ dirs' \in SUBSET Dirs
      /\ Linked(tree', dirs')
      /\ \A l \in Leaves : tree'[l] = tree[l] \/ l \in LeavesOf(n)
      /\ DeviceStep(n)
      /\ ok \/ devErr' \/ dev' = dev
      /\ UNCHANGED <<phase, idx, err>> \/ Fail
      /\ devErr' \in BOOLEAN /\ (devErr => devErr')

\* Execute is such a step, whether the external system agrees or not.
LEMMA ExecuteIsOp ==
    ASSUME TInv, NEW op, NEW n \in Nodes, NEW b, NEW t \in [Leaves -> Stored],
           NEW d \in SUBSET Dirs, Linked(t, d),
           \A l \in Leaves : t[l] = tree[l] \/ l \in LeavesOf(n),
           Execute(b, addBackupEntry(op, n), n, t, d)
    PROVE  OpStep(op, n, b)
<1> DEFINE e == addBackupEntry(op, n)
<1>1. PICK ok \in BOOLEAN :
        /\ executeStateConfig(n, e.old # Nil, t, d, ok)
        /\ backup' = Append(b, [e EXCEPT !.executed = ok])
        /\ \/ ok /\ UNCHANGED <<phase, idx, err, devErr>>
           \/ ~ok /\ Fail /\ devErr' = TRUE
  BY DEF Execute
<1>2. tree' = t /\ dirs' = d
  BY DEF Execute
<1>3. DeviceStep(n)
  <2>1. (e.old # Nil) \in BOOLEAN
    OBVIOUS
  <2> HIDE DEF e
  <2>2. QED
    BY <1>1, <2>1, DeviceStepOf DEF TInv
<1>4. ok \/ devErr'
  BY <1>1
<1>5. UNCHANGED <<phase, idx, err>> \/ Fail
  BY <1>1
<1>6. devErr' \in BOOLEAN /\ (devErr => devErr')
  <2>1. devErr' = devErr \/ devErr' = TRUE
    BY <1>1
  <2>2. devErr \in BOOLEAN
    BY DEF TInv, TypeOK
  <2>3. CASE devErr' = devErr
    BY <2>2, <2>3
  <2>4. CASE devErr' = TRUE
    BY <2>4
  <2>5. QED
    BY <2>1, <2>3, <2>4
<1>7. Linked(tree', dirs')
  BY <1>2
<1> HIDE DEF e
<1>8. QED
  BY <1>1, <1>2, <1>3, <1>4, <1>5, <1>6, <1>7 DEF OpStep, e

\* addBackupEntry: an entry is not executed yet.
LEMMA EntryNotExecuted ==
    ASSUME NEW op, NEW n
    PROVE  addBackupEntry(op, n) = [addBackupEntry(op, n) EXCEPT !.executed = FALSE]
<1> DEFINE old == IF Found(n) THEN Content(n) ELSE Nil
           live == op = "update" /\ n \in Dirs /\ Found(n)
           e(x) == [node |-> n, executed |-> x, old |-> old, live |-> live]
<1>1. addBackupEntry(op, n) = e(FALSE)
  BY DEF addBackupEntry
<1> HIDE DEF old, live
<1>2. \A x \in BOOLEAN : [e(FALSE) EXCEPT !.executed = x] = e(x)
  OBVIOUS
<1> HIDE DEF e
<1>3. QED
  BY <1>1, <1>2

\* BadData is such a step: the external system is not told.
LEMMA BadDataIsOp ==
    ASSUME TInv, NEW op, NEW n \in Nodes, NEW b, NEW t \in [Leaves -> Stored],
           NEW d \in SUBSET Dirs, Linked(t, d),
           \A l \in Leaves : t[l] = tree[l] \/ l \in LeavesOf(n),
           BadData(b, addBackupEntry(op, n), t, d)
    PROVE  OpStep(op, n, b)
<1> DEFINE e == addBackupEntry(op, n)
<1>1. e = [e EXCEPT !.executed = FALSE]
  BY EntryNotExecuted
<1>2. /\ backup' = Append(b, e)
      /\ tree' = t /\ dirs' = d
      /\ Fail
      /\ dev' = dev /\ dirty' = dirty /\ devErr' = devErr
  BY DEF BadData
<1>3. DeviceStep(n)
  BY <1>2 DEF DeviceStep, TInv, TypeOK
<1>4. Linked(tree', dirs')
  BY <1>2
<1>5. backup' = Append(b, [e EXCEPT !.executed = FALSE])
  BY <1>1, <1>2
<1> HIDE DEF e
<1>6. QED
  BY <1>2, <1>3, <1>4, <1>5 DEF OpStep, e, TInv, TypeOK

\* Every operation on a target is such a step.
LEMMA TargetOp ==
    ASSUME TInv, NEW n \in Nodes, SetDelete(n) \/ SetReplace(n) \/ SetUpdate(n)
    PROVE  /\ \E op \in Ops, b \in {backup, Unlink(backup, n)} :
                /\ phase = op
                /\ op = "update" /\ n \in dirs => Merges
                /\ OpStep(op, n, b)
           /\ MayName(n)
           /\ gone' \in SUBSET Leaves
           /\ UNCHANGED history
<1>1. tree \in [Leaves -> Stored] /\ dirs \in SUBSET Dirs /\ Linked(tree, dirs)
  BY DEF TInv, TypeOK, Linked
<1>2. LeavesOf(n) \subseteq Leaves
  BY NodeLeaves
<1>c. /\ Cleared(tree, n) \in [Leaves -> Stored]
      /\ Linked(Cleared(tree, n), dirs \ {n})
      /\ Linked(Cleared(tree, n), dirs)
      /\ \A l \in Leaves : Cleared(tree, n)[l] = tree[l] \/ l \in LeavesOf(n)
  BY <1>1, ClearedTree
<1>w. ASSUME NEW t \in [Leaves -> Stored], Linked(t, dirs),
             \A l \in Leaves : t[l] = tree[l] \/ l \in LeavesOf(n),
             NEW w, \E s \in SUBSET LeavesOf(n) : w \in [s -> Stored]
      PROVE  /\ Written(t, w) \in [Leaves -> Stored]
             /\ dirs \cup {DirAt(n)} \in SUBSET Dirs
             /\ Linked(Written(t, w), dirs \cup {DirAt(n)})
             /\ \A l \in Leaves : Written(t, w)[l] = tree[l] \/ l \in LeavesOf(n)
  <2>1. PICK s \in SUBSET LeavesOf(n) : w \in [s -> Stored]
    BY <1>w
  <2>2. /\ Written(t, w) \in [Leaves -> Stored]
        /\ dirs \cup {DirAt(n)} \in SUBSET Dirs
        /\ Linked(Written(t, w), dirs \cup {DirAt(n)})
        /\ \A l \in Leaves : Written(t, w)[l] = IF l \in s THEN w[l] ELSE t[l]
    <3> DEFINE u == Written(t, w)
    <3>1. u \in [Leaves -> Stored]
      BY <1>1, <1>w, <2>1, WrittenTree
    <3>2. Linked(u, dirs \cup {DirAt(n)}) /\ dirs \cup {DirAt(n)} \in SUBSET Dirs
      BY <1>1, <1>w, <2>1, WrittenTree
    <3>3. \A l \in Leaves : u[l] = IF l \in s THEN w[l] ELSE t[l]
      BY <2>1 DEF Written
    <3>4. QED
      BY <3>1, <3>2, <3>3
  <2>3. QED
    BY <1>w, <2>2
<1>d. ASSUME NEW op, NotDeleted(addBackupEntry(op, n))
      PROVE  OpStep(op, n, backup)
  BY <1>1, <1>d, BadDataIsOp DEF NotDeleted
<1>3. CASE SetDelete(n)
  <2>1. \/ Execute(Unlink(backup, n), addBackupEntry("delete", n), n, Cleared(tree, n), dirs \ {n})
        \/ NotDeleted(addBackupEntry("delete", n))
    BY <1>3 DEF SetDelete
  <2>2. \E b \in {backup, Unlink(backup, n)} : OpStep("delete", n, b)
    BY <1>1, <1>c, <1>d, <2>1, ExecuteIsOp
  <2>3. gone' \in SUBSET Leaves
    BY <1>2, <1>3 DEF SetDelete, TInv, TypeOK
  <2>4. phase = "delete" /\ MayName(n) /\ UNCHANGED history
    BY <1>3 DEF SetDelete
  <2>5. QED
    BY <2>2, <2>3, <2>4 DEF Ops
<1>4. CASE SetReplace(n)
  <2> DEFINE b == Unlink(backup, n)
             e == addBackupEntry("replace", n)
             c == Cleared(tree, n)
             d == dirs \cup {DirAt(n)}
  <2>1. \/ NotDeleted(e)
        \/ \E v \in Payloads(n) :
             \/ Execute(b, e, n, Written(c, v), d)
             \/ \E w \in Partial(n, v) : BadData(b, e, Written(c, w), d)
    BY <1>4 DEF SetReplace
  <2>2. ASSUME NEW v \in Payloads(n),
               \/ Execute(b, e, n, Written(c, v), d)
               \/ \E w \in Partial(n, v) : BadData(b, e, Written(c, w), d)
        PROVE  OpStep("replace", n, b)
    <3>1. CASE Execute(b, e, n, Written(c, v), d)
      <4>1. \E s \in SUBSET LeavesOf(n) : v \in [s -> Stored]
        BY PayloadLeaves
      <4>2. /\ Written(c, v) \in [Leaves -> Stored] /\ d \in SUBSET Dirs
            /\ Linked(Written(c, v), d)
            /\ \A l \in Leaves : Written(c, v)[l] = tree[l] \/ l \in LeavesOf(n)
        BY <1>c, <1>w, <4>1
      <4> HIDE DEF b, c, d
      <4>3. QED
        BY <3>1, <4>2, ExecuteIsOp
    <3>2. ASSUME NEW w \in Partial(n, v), BadData(b, e, Written(c, w), d)
          PROVE  OpStep("replace", n, b)
      <4>1. \E s \in SUBSET LeavesOf(n) : w \in [s -> Stored]
        BY PartialLeaves
      <4>2. /\ Written(c, w) \in [Leaves -> Stored] /\ d \in SUBSET Dirs
            /\ Linked(Written(c, w), d)
            /\ \A l \in Leaves : Written(c, w)[l] = tree[l] \/ l \in LeavesOf(n)
        BY <1>c, <1>w, <4>1
      <4> HIDE DEF b, c, d
      <4>3. QED
        BY <3>2, <4>2, BadDataIsOp
    <3>3. QED
      BY <2>2, <3>1, <3>2
  <2>3. phase = "replace" /\ MayName(n) /\ gone' = gone /\ UNCHANGED history
    BY <1>4 DEF SetReplace
  <2>4. \E a \in {backup, b} : OpStep("replace", n, a)
    BY <1>d, <2>1, <2>2
  <2>5. QED
    BY <2>3, <2>4 DEF Ops, TInv, TypeOK
<1>5. CASE SetUpdate(n)
  <2> DEFINE e == addBackupEntry("update", n)
             d == dirs \cup {DirAt(n)}
  <2>1. PICK v \in Payloads(n) :
          \/ Execute(backup, e, n, Written(tree, v), d)
          \/ \E w \in Partial(n, v) : BadData(backup, e, Written(tree, w), d)
    BY <1>5 DEF SetUpdate
  <2>2. OpStep("update", n, backup)
    <3>1. CASE Execute(backup, e, n, Written(tree, v), d)
      <4>1. \E s \in SUBSET LeavesOf(n) : v \in [s -> Stored]
        BY PayloadLeaves
      <4>2. /\ Written(tree, v) \in [Leaves -> Stored] /\ d \in SUBSET Dirs
            /\ Linked(Written(tree, v), d)
            /\ \A l \in Leaves : Written(tree, v)[l] = tree[l] \/ l \in LeavesOf(n)
        BY <1>1, <1>w, <4>1
      <4> HIDE DEF d
      <4>3. QED
        BY <3>1, <4>2, ExecuteIsOp
    <3>2. ASSUME NEW w \in Partial(n, v), BadData(backup, e, Written(tree, w), d)
          PROVE  OpStep("update", n, backup)
      <4>1. \E s \in SUBSET LeavesOf(n) : w \in [s -> Stored]
        BY PartialLeaves
      <4>2. /\ Written(tree, w) \in [Leaves -> Stored] /\ d \in SUBSET Dirs
            /\ Linked(Written(tree, w), d)
            /\ \A l \in Leaves : Written(tree, w)[l] = tree[l] \/ l \in LeavesOf(n)
        BY <1>1, <1>w, <4>1
      <4> HIDE DEF d
      <4>3. QED
        BY <3>2, <4>2, BadDataIsOp
    <3>3. QED
      BY <2>1, <3>1, <3>2
  <2>3. phase = "update" /\ MayName(n) /\ gone' = gone /\ (n \in dirs => Merges) /\ UNCHANGED history
    BY <1>5 DEF SetUpdate
  <2>4. QED
    BY <2>2, <2>3 DEF Ops, TInv, TypeOK
<1>6. QED
  BY <1>3, <1>4, <1>5

-----------------------------------------------------------------------------
(* One backup entry of SetRollback or SetDone *)

\* Restored: the node of the entry has its old value again, list keys excepted,
\* and no other leaf is touched.
LEMMA RestoredTree ==
    ASSUME TInv, NEW e \in Entry
    PROVE  /\ Restored(e) \in [Leaves -> Stored]
           /\ RestoredDirs(e) \in SUBSET Dirs
           /\ Linked(Restored(e), RestoredDirs(e))
           /\ \A l \in Leaves : Restored(e)[l] = tree[l] \/ l \in LeavesOf(e.node)
           /\ ~e.live => \A l \in LeavesOf(e.node) \ KeyLeaves :
                             Restored(e)[l] = IF e.old = Nil THEN None ELSE e.old[l]
           /\ e.old # Nil /\ e.node \in Dirs => e.node \in RestoredDirs(e)
<1>1. tree \in [Leaves -> Stored] /\ dirs \in SUBSET Dirs /\ Linked(tree, dirs)
  BY DEF TInv, TypeOK, Linked
<1>2. e.node \in Nodes /\ (e.old # Nil => e.old \in [LeavesOf(e.node) -> Stored])
  BY DEF Entry, BackupEntry
<1> DEFINE n == e.node
<1>3. LeavesOf(n) \subseteq Leaves
  BY <1>2, NodeLeaves
<1>4. CASE e.old = Nil /\ n \in KeyLeaves
  <2>1. n \notin Dirs /\ LeavesOf(n) = {n}
    BY <1>4, SetAssumption DEF LeavesOf
  <2>2. Restored(e) = tree /\ RestoredDirs(e) = dirs
    BY <1>1, <1>4, <2>1 DEF Restored, RestoredDirs
  <2>3. QED
    BY <1>1, <1>4, <2>1, <2>2
<1>5. CASE e.old = Nil /\ n \notin KeyLeaves
  <2>1. Restored(e) = Cleared(tree, n) /\ RestoredDirs(e) = dirs \ {n}
    BY <1>5 DEF Restored, RestoredDirs
  <2> HIDE DEF n
  <2>2. /\ Cleared(tree, n) \in [Leaves -> Stored]
        /\ Linked(Cleared(tree, n), dirs \ {n})
        /\ \A l \in Leaves : Cleared(tree, n)[l] = IF l \in LeavesOf(n) THEN None ELSE tree[l]
    BY <1>1, <1>2, ClearedTree DEF n
  <2>3. QED
    BY <1>1, <1>3, <1>5, <2>1, <2>2 DEF n
<1>6. CASE e.old # Nil
  <2> DEFINE v == OldOf(e)
  <2>1. Restored(e) = Written(tree, v) /\ RestoredDirs(e) = dirs \cup {DirAt(n)}
    BY <1>6 DEF Restored, RestoredDirs
  <2>2. v \in [LeavesOf(n) -> Stored]
    BY <1>2, <1>6, ContentIsOld DEF OldOf, TInv
  <2>3. ~e.live => v = e.old
    BY DEF OldOf
  <2>4. n \in Dirs => DirAt(n) = n
    BY DEF DirAt
  <2> HIDE DEF n, v
  <2>5. /\ Written(tree, v) \in [Leaves -> Stored]
        /\ Linked(Written(tree, v), dirs \cup {DirAt(n)})
        /\ dirs \cup {DirAt(n)} \in SUBSET Dirs
    BY <1>1, <1>2, <2>2, WrittenTree DEF n
  <2>6. \A l \in Leaves : Written(tree, v)[l] = IF l \in LeavesOf(n) THEN v[l] ELSE tree[l]
    BY <2>2 DEF Written
  <2>7. QED
    BY <1>3, <1>6, <2>1, <2>3, <2>4, <2>5, <2>6 DEF n
<1>7. QED
  BY <1>4, <1>5, <1>6

-----------------------------------------------------------------------------
(* The type invariant *)

\* A backup entry is added behind the others.
LEMMA AppendEntry ==
    ASSUME NEW b \in Seq(Entry), NEW e \in Entry
    PROVE  /\ Append(b, e) \in Seq(Entry)
           /\ Len(Append(b, e)) = Len(b) + 1
           /\ DOMAIN Append(b, e) = 1..(Len(b) + 1)
           /\ \A i \in 1..Len(b) : Append(b, e)[i] = b[i]
           /\ Append(b, e)[Len(b) + 1] = e
OBVIOUS

\* Entries are of the type that TypeOK gives them.
LEMMA EntriesAreBackup == \A b \in Seq(Entry) : b \in Seq(BackupEntry)
BY DEF Entry

\* The startup configuration is a tree.
LEMMA InitTInv == Init => TInv
<1> SUFFICES ASSUME Init PROVE TInv
  OBVIOUS
<1>1. tree \in [Leaves -> Stored]
  BY DEF Init, Stored
<1>2. dirs \in SUBSET Dirs
  BY SetAssumption DEF Init
<1>3. \A l \in Leaves : tree[l] # None => DirOf[l] \in dirs
  BY DEF Init
<1>4. backup \in Seq(Entry) /\ backup \in Seq(BackupEntry) /\ Len(backup) <= MaxOps
  BY SetAssumption DEF Init
<1>5. /\ setSeq \in 0..MaxSets /\ idx \in 1..(MaxOps + 1)
  BY SetAssumption DEF Init
<1>6. dev = tree /\ orig = tree /\ origDev = tree
  BY DEF Init
<1>7. /\ dirty = {} /\ gone = {} /\ phase = "idle" /\ before = "reported"
      /\ err = FALSE /\ devErr = FALSE
  BY DEF Init
<1>8. QED
  BY <1>1, <1>2, <1>3, <1>4, <1>5, <1>6, <1>7 DEF TInv, TypeOK

\* An operation keeps the types.
LEMMA OpTInv ==
    ASSUME TInv, NEW n \in Nodes, SetDelete(n) \/ SetReplace(n) \/ SetUpdate(n)
    PROVE  TInv'
<1>1. PICK op \in Ops, b \in {backup, Unlink(backup, n)} : OpStep(op, n, b)
  BY TargetOp
<1>2. b \in Seq(Entry) /\ Len(b) = Len(backup)
  BY UnlinkEntries DEF TInv
<1>3. MayName(n) /\ gone' \in SUBSET Leaves /\ UNCHANGED history
  BY TargetOp
<1>4. PICK ok \in BOOLEAN :
        /\ backup' = Append(b, [addBackupEntry(op, n) EXCEPT !.executed = ok])
        /\ tree' \in [Leaves -> Stored]
        /\ dirs' \in SUBSET Dirs
        /\ Linked(tree', dirs')
        /\ DeviceStep(n)
        /\ UNCHANGED <<phase, idx, err>> \/ Fail
        /\ devErr' \in BOOLEAN
  BY <1>1 DEF OpStep
<1>5. [addBackupEntry(op, n) EXCEPT !.executed = ok] \in Entry
  BY NewEntry DEF TInv
<1>6. backup' \in Seq(Entry) /\ Len(backup') = Len(backup) + 1
  BY <1>2, <1>4, <1>5, AppendEntry
<1>7. Len(backup') <= MaxOps /\ backup' \in Seq(BackupEntry)
  BY <1>3, <1>6, SetAssumption, EntriesAreBackup DEF MayName, TInv
<1>8. /\ phase' \in {"idle", "delete", "replace", "update", "rollback", "done"}
      /\ idx' \in 1..(MaxOps + 1)
      /\ err' \in BOOLEAN
  <2>1. CASE UNCHANGED <<phase, idx, err>>
    BY <2>1 DEF TInv, TypeOK
  <2>2. CASE Fail
    BY <2>2, SetAssumption DEF Fail
  <2>3. QED
    BY <1>4, <2>1, <2>2
<1>9. dev' \in [Leaves -> Stored] /\ dirty' \in SUBSET Leaves
  BY <1>4 DEF DeviceStep
<1>10. \A l \in Leaves : tree'[l] # None => DirOf[l] \in dirs'
  BY <1>4 DEF Linked
<1>11. /\ setSeq' = setSeq /\ before' = before /\ orig' = orig /\ origDev' = origDev
  BY <1>3 DEF history
<1>12. QED
  BY <1>3, <1>4, <1>6, <1>7, <1>8, <1>9, <1>10, <1>11 DEF TInv, TypeOK

\* The entry a rollback is at, and what is left of the entries.
LEMMA EntryAt ==
    ASSUME TInv, idx <= Len(backup)
    PROVE  /\ backup[idx] \in Entry
           /\ backup[idx].node \in Nodes
           /\ idx \in DOMAIN backup
           /\ idx + 1 \in 1..(MaxOps + 1)
<1>1. idx \in DOMAIN backup
  BY SetAssumption DEF TInv, TypeOK
<1>2. backup[idx] \in Entry
  BY <1>1 DEF TInv
<1>3. idx + 1 \in 1..(MaxOps + 1)
  BY SetAssumption DEF TInv, TypeOK
<1>4. QED
  BY <1>1, <1>2, <1>3 DEF Entry, BackupEntry

\* Undoing an entry keeps the number of entries and their type.
LEMMA RestTyped ==
    ASSUME TInv, NEW n \in Nodes, NEW nil,
           backup' = IF nil THEN Unlink(backup, n) ELSE backup
    PROVE  backup' \in Seq(Entry) /\ backup' \in Seq(BackupEntry) /\ Len(backup') = Len(backup)
BY UnlinkEntries, EntriesAreBackup DEF TInv

\* Every step keeps the types.
LEMMA NextTInv == TInv /\ [Next]_vars => TInv'
<1> SUFFICES ASSUME TInv, [Next]_vars
             PROVE  TInv'
  OBVIOUS
<1>1. CASE SetInit
  <2>1. setSeq' \in 0..MaxSets
    BY <1>1, SetAssumption DEF SetInit, TInv, TypeOK
  <2>2. before' \in {"reported", "failed", "ok"}
    BY <1>1 DEF SetInit
  <2>3. backup' \in Seq(Entry) /\ backup' \in Seq(BackupEntry) /\ Len(backup') <= MaxOps
    BY <1>1, SetAssumption DEF SetInit
  <2>4. QED
    BY <1>1, <2>1, <2>2, <2>3 DEF SetInit, TInv, TypeOK
<1>2. ASSUME NEW op \in Ops, SetRefuse(op)
      PROVE  TInv'
  BY <1>2, SetAssumption DEF SetRefuse, Fail, history, TInv, TypeOK
<1>3. ASSUME NEW n \in Nodes, SetDelete(n) \/ SetReplace(n) \/ SetUpdate(n)
      PROVE  TInv'
  BY <1>3, OpTInv
<1>4. CASE NextKind
  <2>1. phase' \in {"replace", "update", "done"} /\ idx' = 1
    BY <1>4 DEF NextKind
  <2>2. QED
    BY <1>4, <2>1, SetAssumption DEF NextKind, history, TInv, TypeOK
<1>5. CASE SetRollback
  <2> DEFINE e == backup[idx]
  <2>1. /\ idx <= Len(backup)
        /\ tree' = Restored(e) /\ dirs' = RestoredDirs(e)
        /\ backup' = IF e.old = Nil THEN Unlink(backup, e.node) ELSE backup
        /\ \/ \E ok \in BOOLEAN :
                /\ executeStateConfig(e.node, Found(e.node), tree', dirs', ok)
                /\ devErr' = (devErr \/ ~ok)
           \/ UNCHANGED <<dev, dirty, devErr>>
        /\ idx' = idx + 1
        /\ UNCHANGED <<phase, err, gone, history>>
    BY <1>5 DEF SetRollback, Revert
  <2>2. e \in Entry /\ e.node \in Nodes /\ idx' \in 1..(MaxOps + 1)
    BY <2>1, EntryAt
  <2> HIDE DEF e
  <2>3. /\ tree' \in [Leaves -> Stored] /\ dirs' \in SUBSET Dirs
        /\ Linked(tree', dirs')
    BY <2>1, <2>2, RestoredTree
  <2>4. /\ dev' \in [Leaves -> Stored] /\ dirty' \in SUBSET Leaves /\ devErr' \in BOOLEAN
    <3>1. CASE UNCHANGED <<dev, dirty, devErr>>
      BY <3>1 DEF TInv, TypeOK
    <3>2. ASSUME NEW ok \in BOOLEAN,
                 executeStateConfig(e.node, Found(e.node), tree', dirs', ok),
                 devErr' = (devErr \/ ~ok)
          PROVE  dev' \in [Leaves -> Stored] /\ dirty' \in SUBSET Leaves /\ devErr' \in BOOLEAN
      <4>1. Found(e.node) \in BOOLEAN
        <5>1. CASE e.node \in Dirs
          BY <5>1 DEF Found
        <5>2. CASE e.node \notin Dirs
          BY <5>2 DEF Found
        <5>3. QED
          BY <5>1, <5>2
      <4>2. DeviceStep(e.node)
        BY <2>2, <2>3, <3>2, <4>1, DeviceStepOf DEF TInv
      <4>3. devErr' \in BOOLEAN
        BY <3>2
      <4>4. QED
        BY <4>2, <4>3 DEF DeviceStep
    <3>3. QED
      BY <2>1, <3>1, <3>2
  <2>5. backup' \in Seq(Entry) /\ backup' \in Seq(BackupEntry) /\ Len(backup') = Len(backup)
    BY <2>1, <2>2, RestTyped
  <2>6. UNCHANGED <<phase, err, gone, setSeq, orig, origDev, before>>
    BY <2>1 DEF history
  <2>7. QED
    BY <2>2, <2>3, <2>4, <2>5, <2>6 DEF Linked, TInv, TypeOK
<1>6. CASE EndRollback
  <2>1. backup' \in Seq(Entry) /\ backup' \in Seq(BackupEntry) /\ Len(backup') <= MaxOps
    BY <1>6, SetAssumption DEF EndRollback
  <2>2. QED
    BY <1>6, <2>1, SetAssumption DEF EndRollback, history, TInv, TypeOK
<1>7. CASE SetDone
  <2> DEFINE e == backup[idx]
  <2>1. /\ idx <= Len(backup)
        /\ tree' = Restored(e) /\ dirs' = RestoredDirs(e)
        /\ backup' = IF e.old = Nil THEN Unlink(backup, e.node) ELSE backup
        /\ idx' = idx + 1
        /\ UNCHANGED <<dev, dirty, phase, err, devErr, gone, history>>
    BY <1>7 DEF SetDone, DoneEntry, Revert
  <2>2. e \in Entry /\ e.node \in Nodes /\ idx' \in 1..(MaxOps + 1)
    BY <2>1, EntryAt
  <2> HIDE DEF e
  <2>3. /\ tree' \in [Leaves -> Stored] /\ dirs' \in SUBSET Dirs
        /\ Linked(tree', dirs')
    BY <2>1, <2>2, RestoredTree
  <2>4. backup' \in Seq(Entry) /\ backup' \in Seq(BackupEntry) /\ Len(backup') = Len(backup)
    BY <2>1, <2>2, RestTyped
  <2>5. UNCHANGED <<dev, dirty, phase, err, devErr, gone, setSeq, orig, origDev, before>>
    BY <2>1 DEF history
  <2>6. QED
    BY <2>2, <2>3, <2>4, <2>5 DEF Linked, TInv, TypeOK
<1>8. CASE EndSet
  <2>1. backup' \in Seq(Entry) /\ backup' \in Seq(BackupEntry) /\ Len(backup') <= MaxOps
    BY <1>8, SetAssumption DEF EndSet, TInv, TypeOK
  <2>2. QED
    BY <1>8, <2>1 DEF EndSet, history, TInv, TypeOK
<1>9. CASE StateUpdate
  <2>1. PICK s \in SUBSET dirty :
          /\ tree' = Reported(s)
          /\ dirs' = dirs \cup {DirOf[l] : l \in {m \in s : dev[m] # None}}
          /\ dirty' = dirty \ s
    BY <1>9 DEF StateUpdate
  <2>2. tree' \in [Leaves -> Stored]
    BY <2>1 DEF Reported, TInv, TypeOK
  <2>3. dirs' \in SUBSET Dirs
    BY <2>1, SetAssumption DEF TInv, TypeOK
  <2>4. \A l \in Leaves : tree'[l] # None => DirOf[l] \in dirs'
    BY <2>1 DEF Reported, TInv, TypeOK
  <2>5. QED
    BY <1>9, <2>1, <2>2, <2>3, <2>4 DEF StateUpdate, history, TInv, TypeOK
<1>10. CASE UNCHANGED vars
  BY <1>10 DEF vars, TInv, TypeOK
<1>11. QED
  BY <1>1, <1>2, <1>3, <1>4, <1>5, <1>6, <1>7, <1>8, <1>9, <1>10 DEF Next, Stopped, Ops

\* The types hold in every behaviour of the Set RPC.
LEMMA SpecTInv == Spec => []TInv
BY InitTInv, NextTInv, PTL DEF Spec

\* Every variable keeps its type, and a set leaf is always in a linked
\* container, through operations that fail half way and rollbacks in any order.
THEOREM SpecTypeOK == Spec => []TypeOK
<1>1. TInv => TypeOK
  BY DEF TInv
<1>2. QED
  BY <1>1, SpecTInv, PTL

-----------------------------------------------------------------------------
(* Operations keep what the rollback needs *)

\* The external system starts with the configuration of the Model.
LEMMA InitSInv == Init => SInv
<1> SUFFICES ASSUME Init PROVE SInv
  OBVIOUS
<1>1. /\ backup = <<>> /\ phase = "idle" /\ dev = tree /\ origDev = tree /\ orig = tree
  BY DEF Init
<1>2. DOMAIN backup = {}
  BY <1>1
<1>3. RestoreInv
  BY <1>1, <1>2 DEF RestoreInv, Restoring, Ops
<1>4. ReportInv /\ DeviceInv
  BY <1>1 DEF ReportInv, DeviceInv, Settled
<1>5. QED
  BY <1>3, <1>4 DEF SInv

\* addBackupEntry: the entry of a target no earlier one covers keeps what the
\* target was when the Set began, and no later operation changes it.
LEMMA NewEntryKeeps ==
    ASSUME Separate, TInv, RestoreInv, NEW op \in Ops, phase = op,
           NEW n \in Nodes, MayName(n),
           op = "update" /\ n \in dirs => Merges, NEW ok \in BOOLEAN
    PROVE  LET f == [addBackupEntry(op, n) EXCEPT !.executed = ok]
           IN  ~f.live /\ KeepsOrig(f)
<1> DEFINE e == addBackupEntry(op, n)
           f == [e EXCEPT !.executed = ok]
<1>1. /\ f.node = n
      /\ f.old = IF Found(n) THEN Content(n) ELSE Nil
      /\ f.live = e.live
  <2>1. f.node = n /\ f.old = e.old /\ f.live = e.live
    <3>1. f.node = n
      BY DEF addBackupEntry
    <3>2. f.old = e.old
      BY NewEntry DEF TInv
    <3>3. f.live = e.live
      BY NewEntry DEF TInv
    <3>4. QED
      BY <3>1, <3>2, <3>3
  <2>2. e.old = IF Found(n) THEN Content(n) ELSE Nil
    BY DEF addBackupEntry
  <2>3. QED
    BY <2>1, <2>2
<1>a. e.live = (op = "update" /\ n \in Dirs /\ Found(n))
  BY DEF addBackupEntry
<1>b. ~(op = "update" /\ n \in Dirs /\ Found(n))
  BY DEF Found, Separate
<1> HIDE DEF e, f
<1>2. ~f.live
  BY <1>1, <1>a, <1>b
<1>3. LeavesOf(n) \subseteq Leaves
  BY NodeLeaves
<1>4. ASSUME NEW l \in LeavesOf(n) \ KeyLeaves
      PROVE  orig[l] = IF f.old = Nil THEN None ELSE f.old[l]
  <2>1. ~Pending(l)
    BY <1>4 DEF MayName, Separate, Overlap, Pending
  <2>2. orig[l] = tree[l]
    BY <1>3, <1>4, <2>1 DEF RestoreInv, Restoring
  <2>3. CASE Found(n)
    <3>1. f.old = Content(n) /\ f.old # Nil
      BY <1>1, <2>3, ContentIsOld DEF TInv
    <3>2. Content(n)[l] = tree[l]
      BY <1>4 DEF Content
    <3>3. QED
      BY <2>2, <3>1, <3>2
  <2>4. CASE ~Found(n)
    <3>1. tree[l] = None
      <4>1. CASE n \in Dirs
        BY <1>3, <1>4, <2>4, <4>1 DEF Found, LeavesOf, TInv, TypeOK
      <4>2. CASE n \notin Dirs
        BY <1>4, <2>4, <4>2 DEF Found, LeavesOf
      <4>3. QED
        BY <4>1, <4>2
    <3>2. QED
      BY <1>1, <2>2, <2>4, <3>1
  <2>5. QED
    BY <2>3, <2>4
<1>5. KeepsOrig(f)
  BY <1>1, <1>4 DEF KeepsOrig
<1>6. QED
  BY <1>2, <1>5 DEF e, f

\* SetDelete, SetReplace, SetUpdate: the target gets an entry before it changes.
LEMMA OpSInv ==
    ASSUME Separate, TInv, SInv, NEW n \in Nodes,
           SetDelete(n) \/ SetReplace(n) \/ SetUpdate(n)
    PROVE  SInv'
<1>1. PICK op \in Ops, b \in {backup, Unlink(backup, n)} :
        phase = op /\ (op = "update" /\ n \in dirs => Merges) /\ OpStep(op, n, b)
  BY TargetOp
<1>2. b = backup
  BY UnlinkNothing DEF TInv, SInv, RestoreInv
<1>3. MayName(n) /\ UNCHANGED <<setSeq, orig, origDev, before>>
  BY TargetOp DEF history
<1>4. PICK ok \in BOOLEAN :
        /\ backup' = Append(backup, [addBackupEntry(op, n) EXCEPT !.executed = ok])
        /\ \A l \in Leaves : tree'[l] = tree[l] \/ l \in LeavesOf(n)
        /\ DeviceStep(n)
        /\ ok \/ devErr' \/ dev' = dev
        /\ UNCHANGED <<phase, idx, err>> \/ Fail
        /\ devErr => devErr'
  BY <1>1, <1>2 DEF OpStep
<1> DEFINE f == [addBackupEntry(op, n) EXCEPT !.executed = ok]
           k == Len(backup) + 1
<1>5. f \in Entry /\ f.node = n /\ f.executed = ok
  BY NewEntry DEF TInv
<1>6. ~f.live /\ KeepsOrig(f)
  BY <1>1, <1>3, NewEntryKeeps DEF SInv
<1>a. backup' = Append(backup, f)
  BY <1>4
<1> HIDE DEF f
<1>7. /\ DOMAIN backup = 1..Len(backup) /\ Len(backup) \in Nat
      /\ DOMAIN backup' = 1..k
      /\ \A i \in DOMAIN backup : backup'[i] = backup[i]
      /\ backup'[k] = f
  BY <1>5, <1>a, AppendEntry DEF TInv
<1>8. /\ phase # "idle" /\ phase' # "idle" /\ phase' # "done"
      /\ phase' \in Ops => ~err'
      /\ From = 1 /\ From' = 1
  <2>1. CASE UNCHANGED <<phase, idx, err>>
    BY <1>1, <2>1 DEF Ops, From, SInv, RestoreInv
  <2>2. CASE Fail
    BY <1>1, <2>2 DEF Ops, Fail, From
  <2>3. QED
    BY <1>4, <2>1, <2>2
<1>9. \A i \in DOMAIN backup' : i \in DOMAIN backup \/ i = k
  BY <1>7
<1>10. k \in DOMAIN backup' /\ k >= 1 /\ DOMAIN backup \subseteq DOMAIN backup'
  BY <1>7
<1> HIDE DEF k
<1>11. \A i \in DOMAIN backup' : ~backup'[i].live /\ KeepsOrig(backup[i])'
  BY <1>3, <1>6, <1>7, <1>9 DEF SInv, RestoreInv, KeepsOrig
<1>12. \A i, j \in DOMAIN backup' : i # j => ~Overlap(backup'[i].node, backup'[j].node)
  <2>1. \A i \in DOMAIN backup : ~Overlap(backup[i].node, n) /\ ~Overlap(n, backup[i].node)
    BY <1>3 DEF MayName, Separate, Overlap
  <2>2. QED
    BY <1>5, <1>7, <1>9, <2>1 DEF SInv, RestoreInv
<1>13. \A l \in LeavesOf(n) : Pending(l)'
  BY <1>5, <1>7, <1>8, <1>10 DEF Pending
<1>14. \A l : Pending(l) => Pending(l)'
  BY <1>7, <1>8, <1>10 DEF Pending
<1>15. \A l \in Leaves \ KeyLeaves : Pending(l)' \/ tree'[l] = orig'[l]
  BY <1>1, <1>3, <1>4, <1>13, <1>14 DEF SInv, RestoreInv, Restoring
<1>16. RestoreInv'
  BY <1>8, <1>11, <1>12, <1>15 DEF RestoreInv
<1>17. ReportInv'
  BY <1>3, <1>4, <1>8 DEF SInv, ReportInv, Settled, DeviceStep
<1>18. ASSUME HasStateConfig, before' = "reported"
       PROVE  /\ \A l \in Leaves \ KeyLeaves : orig'[l] = origDev'[l]
              /\ ~devErr' => \A l \in Leaves \ KeyLeaves :
                    origDev'[l] # None => dev'[l] = origDev'[l] \/ Replayed(l)'
  <2>1. \A l : Replayed(l) => Replayed(l)'
    BY <1>7, <1>8, <1>10 DEF Replayed
  <2>2. ok => \A l \in LeavesOf(n) : Replayed(l)'
    BY <1>5, <1>7, <1>8, <1>10 DEF Replayed
  <2>3. /\ \A l \in Leaves \ KeyLeaves : orig[l] = origDev[l]
        /\ ~devErr => \A l \in Leaves \ KeyLeaves :
              origDev[l] # None => dev[l] = origDev[l] \/ Replayed(l)
    BY <1>1, <1>3, <1>8, <1>18 DEF SInv, DeviceInv, Ops
  <2>4. QED
    BY <1>3, <1>4, <2>1, <2>2, <2>3 DEF DeviceStep
<1>19. DeviceInv'
  BY <1>18 DEF DeviceInv
<1>20. QED
  BY <1>16, <1>17, <1>19 DEF SInv

-----------------------------------------------------------------------------
(* SetRollback and SetDone put the tree back *)

\* One entry is put back, in either loop ...
PutBack(e) ==
    /\ phase \in {"rollback", "done"}
    /\ Restoring
    /\ idx <= Len(backup)
    /\ tree' = Restored(e)
    /\ backup' = backup
    /\ idx' = idx + 1
    /\ UNCHANGED <<phase, err, setSeq, orig, origDev, before>>

\* ... it puts its leaves back, and no entry before or after it is disturbed.
LEMMA PutBackRestores ==
    ASSUME Separate, TInv, RestoreInv, PutBack(backup[idx])
    PROVE  /\ RestoreInv'
           /\ \A l \in LeavesOf(backup[idx].node) \ KeyLeaves : tree'[l] = orig[l]
<1> DEFINE e == backup[idx]
<1>1. e \in Entry /\ e.node \in Nodes /\ idx \in DOMAIN backup
  BY EntryAt DEF PutBack
<1>2. KeepsOrig(e) /\ ~e.live
  BY <1>1 DEF RestoreInv
<1>3. PutBack(e)
  OBVIOUS
<1> HIDE DEF e
<1>4. /\ \A l \in Leaves : tree'[l] = tree[l] \/ l \in LeavesOf(e.node)
      /\ \A l \in LeavesOf(e.node) \ KeyLeaves :
            tree'[l] = IF e.old = Nil THEN None ELSE e.old[l]
  BY <1>1, <1>2, <1>3, RestoredTree DEF PutBack
<1>5. \A l \in LeavesOf(e.node) \ KeyLeaves : tree'[l] = orig[l]
  BY <1>2, <1>4 DEF KeepsOrig
<1>6. From = idx /\ From' = idx + 1 /\ DOMAIN backup \subseteq Nat /\ idx \in Nat
  BY <1>3 DEF PutBack, From, TInv, TypeOK
<1>7. \A l : Pending(l) => Pending(l)' \/ l \in LeavesOf(e.node)
  <2>1. SUFFICES ASSUME NEW l, Pending(l), l \notin LeavesOf(e.node)
                 PROVE  Pending(l)'
    OBVIOUS
  <2>2. PICK i \in DOMAIN backup : i >= idx /\ l \in LeavesOf(backup[i].node)
    BY <1>6, <2>1 DEF Pending
  <2>3. i # idx
    BY <2>1, <2>2 DEF e
  <2>4. i >= idx + 1
    BY <1>6, <2>2, <2>3
  <2>5. QED
    BY <1>3, <1>6, <2>2, <2>4 DEF Pending, PutBack
<1>8. \A l \in Leaves \ KeyLeaves : Pending(l)' \/ tree'[l] = orig[l]
  BY <1>3, <1>4, <1>5, <1>7 DEF RestoreInv, PutBack
<1>9. /\ \A i \in DOMAIN backup : ~backup[i].live /\ KeepsOrig(backup[i])'
      /\ phase \notin Ops
      /\ ~(phase = "done" /\ err)
  <2>1. phase \notin Ops
    BY <1>3 DEF PutBack, Ops
  <2>2. backup # <<>>
    BY <1>1
  <2>3. \A i \in DOMAIN backup : KeepsOrig(backup[i])'
    BY <1>3 DEF RestoreInv, KeepsOrig, PutBack
  <2>4. QED
    BY <2>1, <2>2, <2>3 DEF RestoreInv
<1>10. RestoreInv'
  BY <1>3, <1>8, <1>9 DEF RestoreInv, PutBack
<1>11. QED
  BY <1>5, <1>10 DEF e

\* The loop of SetRollback: the Model has the entry's old value again, and so
\* has the external system unless one of its calls failed.
LEMMA RollbackSInv ==
    ASSUME Separate, TInv, SInv, SetRollback
    PROVE  SInv'
<1> DEFINE e == backup[idx]
           n == e.node
<1>1. /\ phase = "rollback" /\ idx <= Len(backup)
      /\ tree' = Restored(e) /\ dirs' = RestoredDirs(e)
      /\ backup' = IF e.old = Nil THEN Unlink(backup, n) ELSE backup
      /\ \/ /\ e.executed
            /\ \E ok \in BOOLEAN :
                 /\ executeStateConfig(n, Found(n), tree', dirs', ok)
                 /\ devErr' = (devErr \/ ~ok)
         \/ ~e.executed /\ UNCHANGED <<dev, dirty, devErr>>
      /\ idx' = idx + 1
      /\ UNCHANGED <<phase, err, setSeq, orig, origDev, before>>
  BY DEF SetRollback, Revert, Replays, history
<1>2. e \in Entry /\ n \in Nodes /\ idx \in DOMAIN backup
  BY <1>1, EntryAt
<1>3. backup' = backup
  BY <1>1, UnlinkNothing DEF TInv, SInv, RestoreInv
<1>4. PutBack(e)
  BY <1>1, <1>3 DEF PutBack, Restoring
<1>5. RestoreInv' /\ \A l \in LeavesOf(n) \ KeyLeaves : tree'[l] = orig[l]
  BY <1>4, PutBackRestores DEF SInv
<1>6. KeepsOrig(e)
  BY <1>2 DEF SInv, RestoreInv
<1>a. LeavesOf(n) \subseteq Leaves
  BY <1>2, NodeLeaves
<1>e. \A i \in DOMAIN backup : i = idx => backup[i].node = n /\ backup[i].executed = e.executed
  OBVIOUS
<1> HIDE DEF e, n
<1>7. /\ tree' \in [Leaves -> Stored] /\ dirs' \in SUBSET Dirs
      /\ e.old # Nil /\ n \in Dirs => n \in dirs'
  BY <1>1, <1>2, RestoredTree DEF n
\* What the external system is told.
<1>8. /\ DeviceStep(n)
      /\ e.executed /\ HasStateConfig /\ ~devErr' =>
            \A l \in Listed(n, n \in dirs', tree') : dev'[l] = GetValueString(tree'[l])
      /\ ~e.executed => dev' = dev
      /\ ~devErr' => ~devErr
  <2>1. CASE ~e.executed /\ UNCHANGED <<dev, dirty, devErr>>
    BY <2>1 DEF DeviceStep, TInv, TypeOK
  <2>2. ASSUME NEW ok \in BOOLEAN, e.executed,
               executeStateConfig(n, Found(n), tree', dirs', ok),
               devErr' = (devErr \/ ~ok)
        PROVE  /\ DeviceStep(n)
               /\ HasStateConfig /\ ~devErr' =>
                     \A l \in Listed(n, n \in dirs', tree') : dev'[l] = GetValueString(tree'[l])
               /\ ~devErr' => ~devErr
    <3>1. Found(n) \in BOOLEAN
      <4>1. CASE n \in Dirs
        BY <4>1 DEF Found
      <4>2. CASE n \notin Dirs
        BY <4>2 DEF Found
      <4>3. QED
        BY <4>1, <4>2
    <3>2. /\ DeviceStep(n)
          /\ ok /\ HasStateConfig =>
                \A l \in Listed(n, n \in dirs', tree') : dev'[l] = GetValueString(tree'[l])
      BY <1>2, <1>7, <2>2, <3>1, DeviceStepOf DEF TInv
    <3>3. ~devErr' => ok /\ ~devErr
      BY <2>2
    <3>4. QED
      BY <3>2, <3>3
  <2>3. QED
    BY <1>1, <2>1, <2>2
<1>9. ReportInv'
  BY <1>1, <1>8 DEF SInv, ReportInv, Settled, DeviceStep
<1>10. ASSUME HasStateConfig, before = "reported", ~devErr',
              NEW l \in Leaves \ KeyLeaves, origDev[l] # None
       PROVE  dev'[l] = origDev[l] \/ Replayed(l)'
  <2>1. orig[l] = origDev[l] /\ (dev[l] = origDev[l] \/ Replayed(l))
    BY <1>1, <1>8, <1>10 DEF SInv, DeviceInv
  <2>2. From = idx /\ From' = idx + 1 /\ DOMAIN backup \subseteq Nat /\ idx \in Nat
    BY <1>1 DEF From, TInv, TypeOK
  <2>3. CASE e.executed /\ l \in LeavesOf(n)
    <3>1. tree'[l] = orig[l] /\ tree'[l] \in Stored
      BY <1>5, <1>7, <2>3
    <3>2. e.old # Nil
      BY <1>6, <1>10, <2>1, <2>3 DEF KeepsOrig, n
    <3>3. l \in Listed(n, n \in dirs', tree')
      BY <1>7, <1>10, <2>1, <2>3, <3>1, <3>2 DEF Listed, LeavesOf
    <3>4. dev'[l] = GetValueString(tree'[l])
      BY <1>8, <1>10, <2>3, <3>3
    <3>5. QED
      BY <1>10, <2>1, <3>1, <3>4, ValueStringStored
  <2>4. CASE ~(e.executed /\ l \in LeavesOf(n))
    <3>1. dev'[l] = dev[l]
      BY <1>8, <1>10, <2>4 DEF DeviceStep
    <3>2. ASSUME Replayed(l)
          PROVE  Replayed(l)'
      <4>1. PICK i \in DOMAIN backup :
              i >= idx /\ backup[i].executed /\ l \in LeavesOf(backup[i].node)
        BY <2>2, <3>2 DEF Replayed
      <4>2. i # idx
        BY <1>e, <2>4, <4>1
      <4>3. i >= idx + 1
        BY <2>2, <4>1, <4>2
      <4>4. QED
        BY <1>3, <2>2, <4>1, <4>3 DEF Replayed
    <3>3. QED
      BY <2>1, <3>1, <3>2
  <2>5. QED
    BY <2>3, <2>4
<1>11. DeviceInv'
  BY <1>1, <1>10 DEF SInv, DeviceInv
<1>12. QED
  BY <1>5, <1>9, <1>11 DEF SInv

\* The loop of SetDone: the new data is taken out of the Model again.
LEMMA DoneSInv ==
    ASSUME Separate, TInv, SInv, SetDone
    PROVE  SInv'
<1> DEFINE e == backup[idx]
<1>1. /\ phase = "done" /\ HasStateConfig /\ idx <= Len(backup)
      /\ tree' = Restored(e)
      /\ backup' = IF e.old = Nil THEN Unlink(backup, e.node) ELSE backup
      /\ idx' = idx + 1
      /\ UNCHANGED <<dev, dirty, phase, err, devErr, setSeq, orig, origDev, before>>
  BY DEF SetDone, DoneEntry, Revert, history
<1>2. backup' = backup
  BY <1>1, UnlinkNothing DEF TInv, SInv, RestoreInv
<1>3. PutBack(e)
  BY <1>1, <1>2 DEF PutBack, Restoring
<1>4. RestoreInv'
  BY <1>3, PutBackRestores DEF SInv
<1>5. ~err
  <2>1. idx \in DOMAIN backup
    BY <1>1, EntryAt
  <2>2. backup # <<>>
    BY <2>1
  <2>3. QED
    BY <1>1, <2>2 DEF SInv, RestoreInv
<1> HIDE DEF e
<1>6. ReportInv'
  BY <1>1 DEF SInv, ReportInv, Settled
<1>7. DeviceInv'
  BY <1>1, <1>5 DEF SInv, DeviceInv
<1>8. QED
  BY <1>4, <1>6, <1>7 DEF SInv

\* Once a loop is over no entry is left.
LEMMA LoopOver ==
    ASSUME TInv, phase \in {"rollback", "done"}, idx > Len(backup)
    PROVE  \A l : ~Pending(l) /\ ~Replayed(l)
<1>1. From = idx /\ idx \in Nat /\ Len(backup) \in Nat /\ DOMAIN backup = 1..Len(backup)
  BY DEF From, TInv, TypeOK
<1>2. QED
  BY <1>1 DEF Pending, Replayed

\* Every step keeps what SetRollback and SetDone rely on.
LEMMA NextSInv ==
    ASSUME Separate
    PROVE  TInv /\ SInv /\ [Next]_vars => SInv'
<1> SUFFICES ASSUME TInv, SInv, [Next]_vars
             PROVE  SInv'
  OBVIOUS
<1>1. CASE SetInit
  <2>1. /\ phase = "idle" /\ phase' = "delete" /\ backup' = <<>>
        /\ orig' = tree /\ origDev' = dev /\ tree' = tree /\ dev' = dev /\ dirty' = dirty
        /\ ~err'
        /\ before' = "reported" => dirty = {}
    BY <1>1 DEF SetInit
  <2>2. DOMAIN backup' = {}
    BY <2>1
  <2>3. RestoreInv'
    BY <2>1, <2>2 DEF RestoreInv
  <2>4. ReportInv'
    BY <2>1 DEF SInv, ReportInv, Settled
  <2>5. DeviceInv'
    BY <2>1 DEF SInv, ReportInv, DeviceInv, Settled
  <2>6. QED
    BY <2>3, <2>4, <2>5 DEF SInv
<1>2. ASSUME NEW op \in Ops, SetRefuse(op)
      PROVE  SInv'
  <2>1. /\ phase \in Ops /\ phase' = "rollback" /\ idx' = 1 /\ err' = TRUE
        /\ UNCHANGED <<tree, dev, dirty, backup, devErr, orig, origDev, before>>
    BY <1>2 DEF SetRefuse, Fail, history
  <2>2. From = 1 /\ From' = 1
    BY <2>1 DEF From, Ops
  <2>3. \A l : Pending(l)' = Pending(l) /\ Replayed(l)' = Replayed(l)
    BY <2>1, <2>2 DEF Pending, Replayed
  <2>4. RestoreInv'
    BY <2>1, <2>3 DEF SInv, RestoreInv, Restoring, KeepsOrig, Ops
  <2>5. ReportInv'
    BY <2>1 DEF SInv, ReportInv, Settled, Ops
  <2>6. DeviceInv'
    BY <2>1, <2>3 DEF SInv, DeviceInv, Ops
  <2>7. QED
    BY <2>4, <2>5, <2>6 DEF SInv
<1>3. ASSUME NEW n \in Nodes, SetDelete(n) \/ SetReplace(n) \/ SetUpdate(n)
      PROVE  SInv'
  BY <1>3, OpSInv
<1>4. CASE NextKind
  <2>1. /\ phase \in Ops /\ phase' \in {"replace", "update", "done"} /\ idx' = 1
        /\ UNCHANGED <<tree, dev, dirty, backup, err, devErr, orig, origDev, before>>
    BY <1>4 DEF NextKind, history, Ops
  <2>2. ~err /\ Restoring
    BY <2>1 DEF SInv, RestoreInv, Restoring
  <2>3. From = 1 /\ From' = 1
    BY <2>1 DEF From, Ops
  <2>4. \A l : Pending(l)' = Pending(l) /\ Replayed(l)' = Replayed(l)
    BY <2>1, <2>3 DEF Pending, Replayed
  <2>5. RestoreInv'
    BY <2>1, <2>2, <2>4 DEF SInv, RestoreInv, KeepsOrig
  <2>6. ReportInv'
    BY <2>1 DEF SInv, ReportInv, Settled, Ops
  <2>7. DeviceInv'
    BY <2>1, <2>2, <2>4 DEF SInv, DeviceInv, Ops
  <2>8. QED
    BY <2>5, <2>6, <2>7 DEF SInv
<1>5. CASE SetRollback
  BY <1>5, RollbackSInv
<1>6. CASE EndRollback
  <2>1. /\ phase = "rollback" /\ phase' = "done" /\ idx > Len(backup) /\ backup' = <<>>
        /\ UNCHANGED <<tree, dev, dirty, err, devErr, orig, origDev, before>>
    BY <1>6 DEF EndRollback, history
  <2>2. \A l : ~Pending(l) /\ ~Replayed(l)
    BY <2>1, LoopOver
  <2>3. DOMAIN backup' = {}
    BY <2>1
  <2>4. RestoreInv'
    BY <2>1, <2>2, <2>3 DEF SInv, RestoreInv, Restoring, Ops
  <2>5. ReportInv'
    BY <2>1 DEF SInv, ReportInv, Settled
  <2>6. DeviceInv'
    BY <2>1, <2>2 DEF SInv, DeviceInv
  <2>7. QED
    BY <2>4, <2>5, <2>6 DEF SInv
<1>7. CASE SetDone
  BY <1>7, DoneSInv
<1>8. CASE EndSet
  <2>1. /\ phase = "done" /\ phase' = "idle"
        /\ HasStateConfig => idx > Len(backup)
        /\ backup' = IF HasStateConfig THEN <<>> ELSE backup
        /\ UNCHANGED <<tree, dev, dirty, err, orig>>
    BY <1>8 DEF EndSet, history
  <2>2. RestoreInv'
    <3>1. CASE HasStateConfig
      <4>1. DOMAIN backup' = {}
        BY <2>1, <3>1
      <4>2. QED
        BY <2>1, <4>1 DEF RestoreInv, Restoring, Ops
    <3>2. CASE ~HasStateConfig
      BY <2>1, <3>2 DEF SInv, RestoreInv, Restoring, KeepsOrig, Ops
    <3>3. QED
      BY <3>1, <3>2
  <2>3. ReportInv'
    <3>1. SUFFICES ASSUME HasStateConfig, NEW l \in Leaves \ KeyLeaves
                   PROVE  l \in dirty' \/ Settled(l)' = dev'[l]
      BY DEF ReportInv
    <3>2. tree[l] = orig[l]
      BY <2>1, <3>1, LoopOver DEF SInv, RestoreInv, Restoring
    <3>3. QED
      BY <2>1, <3>1, <3>2 DEF SInv, ReportInv, Settled
  <2>4. DeviceInv'
    BY <2>1 DEF DeviceInv
  <2>5. QED
    BY <2>2, <2>3, <2>4 DEF SInv
<1>9. CASE StateUpdate
  <2>1. PICK s \in SUBSET dirty : tree' = Reported(s) /\ dirty' = dirty \ s
    BY <1>9 DEF StateUpdate
  <2>2. /\ phase = "idle" /\ phase' = "idle"
        /\ UNCHANGED <<dev, backup, idx, err, orig>>
    BY <1>9 DEF StateUpdate, history
  <2>3. RestoreInv'
    BY <2>2 DEF SInv, RestoreInv, Restoring, KeepsOrig, Ops
  <2>4. \A l \in Leaves \ KeyLeaves : tree'[l] = IF l \in s THEN dev[l] ELSE tree[l]
    BY <2>1 DEF Reported
  <2>5. ReportInv'
    BY <2>1, <2>2, <2>4 DEF SInv, ReportInv, Settled
  <2>6. DeviceInv'
    BY <2>2 DEF DeviceInv
  <2>7. QED
    BY <2>3, <2>5, <2>6 DEF SInv
<1>10. CASE UNCHANGED vars
  <2>1. \A l : Pending(l)' = Pending(l) /\ Replayed(l)' = Replayed(l)
    BY <1>10 DEF vars, Pending, Replayed, From
  <2>2. RestoreInv'
    BY <1>10, <2>1 DEF vars, SInv, RestoreInv, Restoring, KeepsOrig
  <2>3. ReportInv' /\ DeviceInv'
    BY <1>10, <2>1 DEF vars, SInv, ReportInv, DeviceInv, Settled
  <2>4. QED
    BY <2>2, <2>3 DEF SInv
<1>11. QED
  BY <1>1, <1>2, <1>3, <1>4, <1>5, <1>6, <1>7, <1>8, <1>9, <1>10 DEF Next, Stopped, Ops

\* The inductive invariant holds in every behaviour of such requests.
LEMMA SpecSInv ==
    ASSUME Separate
    PROVE  Spec => [](TInv /\ SInv)
<1>1. Init => TInv /\ SInv
  BY InitTInv, InitSInv
<1>2. TInv /\ SInv /\ [Next]_vars => (TInv /\ SInv)'
  BY NextTInv, NextSInv
<1>3. QED
  BY <1>1, <1>2, PTL DEF Spec

-----------------------------------------------------------------------------
(* What a Set promises *)

\* SetRollback: with targets that do not overlap and no merge, every leaf of
\* every tree has the value it had when the Set began once the rollback is
\* over, whichever target failed, in whichever of its calls.
THEOREM SpecRollbackRestoresTree ==
    ASSUME Separate
    PROVE  Spec => []RollbackRestoresTree
<1>1. TInv /\ SInv => RollbackRestoresTree
  <2>1. SUFFICES ASSUME TInv, SInv, phase = "done", err,
                        NEW l \in Leaves \ KeyLeaves
                 PROVE  tree[l] = orig[l]
    BY DEF RollbackRestoresTree
  <2>2. ~Pending(l)
    BY <2>1 DEF SInv, RestoreInv, Pending
  <2>3. QED
    BY <2>1, <2>2 DEF SInv, RestoreInv, Restoring
<1>2. QED
  BY <1>1, SpecSInv, PTL

\* SetRollback replays executeStateConfig: a Set refused by the Model takes no
\* value away from an external system that had reported everything.
THEOREM SpecNoConfigLostByFailedSet ==
    ASSUME Separate
    PROVE  Spec => []NoConfigLostByFailedSet
<1>1. TInv /\ SInv => NoConfigLostByFailedSet
  <2>1. SUFFICES ASSUME TInv, SInv, HasStateConfig, phase = "done", err, ~devErr,
                        before = "reported",
                        NEW l \in Leaves \ KeyLeaves, origDev[l] # None
                 PROVE  dev[l] = origDev[l]
    BY DEF NoConfigLostByFailedSet, KeepsDevice
  <2>2. ~Replayed(l)
    BY <2>1 DEF SInv, RestoreInv, Replayed
  <2>3. QED
    BY <2>1, <2>2 DEF SInv, DeviceInv
<1>2. QED
  BY <1>1, SpecSInv, PTL

\* SetDone takes the new data out of the Model and leaves it to the report:
\* once everything is reported the Model and the external system agree, after
\* any number of Sets that succeeded, were refused or failed in the middle.
THEOREM SpecAgreeWhenReported ==
    ASSUME Separate
    PROVE  Spec => []AgreeWhenReported
<1>1. TInv /\ SInv => AgreeWhenReported
  BY DEF SInv, ReportInv, Settled, AgreeWhenReported
<1>2. QED
  BY <1>1, SpecSInv, PTL
-----------------------------------------------------------------------------
(* A Set is atomic *)

\* What the mapping to AtomicSet needs besides: a rollback follows an error, and
\* without a StateConfig nothing is left to be reported.
AtomicInv ==
    /\ phase = "rollback" => err
    /\ HasStateConfig \/ dirty = {}

AInv == TInv /\ SInv /\ AtomicInv

\* The leaves of a target as AtomicSet names them.
TargetOf(n) == LeavesOf(n) \ KeyLeaves

\* The external system is told about a target of the abstract Set.
LEMMA TellTarget ==
    ASSUME TInv, NEW n \in Nodes, DeviceStep(n)
    PROVE  Atomic!Tell(TargetOf(n))
<1> DEFINE s == (dirty' \ dirty) \ KeyLeaves
<1>1. s \in SUBSET TargetOf(n)
  BY DEF DeviceStep, TargetOf
<1>2. dirty' \ KeyLeaves = (dirty \ KeyLeaves) \cup s
  BY DEF DeviceStep
<1>3. ConfigOf(dev)' \in [ConfigLeaves -> Stored]
  BY DEF DeviceStep, ConfigOf, ConfigLeaves
<1>4. \A l \in ConfigLeaves :
        ConfigOf(dev)'[l] = ConfigOf(dev)[l]
        \/ (l \in TargetOf(n) /\ l \in dirty' \ KeyLeaves)
  BY DEF DeviceStep, ConfigOf, ConfigLeaves, TargetOf
<1>5. ~HasStateConfig => ConfigOf(dev)' = ConfigOf(dev) /\ dirty' \ KeyLeaves = dirty \ KeyLeaves
  BY DEF DeviceStep, ConfigOf
<1> HIDE DEF s
<1>6. QED
  BY <1>1, <1>2, <1>3, <1>4, <1>5 DEF Atomic!Tell

\* An external system that is told nothing.
LEMMA TellNothing ==
    ASSUME TInv, NEW n \in Nodes, UNCHANGED <<dev, dirty>>
    PROVE  Atomic!Tell(TargetOf(n))
<1>1. DeviceStep(n)
  BY DEF DeviceStep, TInv, TypeOK
<1>2. QED
  BY <1>1, TellTarget

\* The first error drops the private copy.
LEMMA FailAborts ==
    ASSUME phase \in Ops, Fail, orig' = orig, NEW n \in Nodes, Atomic!Tell(TargetOf(n))
    PROVE  Atomic!Next
<1>1. phase' = "rollback" /\ Restoring /\ Restoring'
  BY DEF Fail, Restoring
<1>2. AtomicConfig' = AtomicConfig
  BY <1>1 DEF AtomicConfig, ConfigOf
<1>3. AtomicWork' = AtomicConfig' /\ AtomicStage' = "closed"
  BY <1>1 DEF AtomicWork, AtomicStage, Ops
<1>4. AtomicStage \in Atomic!Stages
  BY DEF AtomicStage, Ops, Atomic!Stages
<1>5. Atomic!Abort(TargetOf(n))
  BY <1>2, <1>3, <1>4 DEF Atomic!Abort
<1>6. TargetOf(n) \in {LeavesOf(m) \ KeyLeaves : m \in Nodes}
  BY DEF TargetOf
<1>7. QED
  BY <1>5, <1>6 DEF Atomic!Next

\* An operation that succeeds writes v to the private copy and unsets u.
LEMMA OpWrites ==
    ASSUME TInv, phase \in Ops, UNCHANGED <<phase, orig>>, NEW n \in Nodes, DeviceStep(n),
           NEW u, NEW v,
           \A l \in ConfigLeaves :
               tree'[l] = IF l \in DOMAIN v THEN v[l] ELSE IF l \in u THEN None ELSE tree[l],
           HasStateConfig => \A l \in DOMAIN v : l \in dirty' /\ dev'[l] = v[l],
           DOMAIN v \subseteq ConfigLeaves
    PROVE  Atomic!Write(phase, TargetOf(n), u, v)
<1>1. Restoring /\ Restoring' /\ phase' \in Ops
  BY DEF Restoring
<1>2. AtomicConfig' = AtomicConfig /\ AtomicStage' = AtomicStage /\ AtomicStage = phase
  BY <1>1 DEF AtomicConfig, AtomicStage, ConfigOf
<1>3. AtomicWork = ConfigOf(tree) /\ AtomicWork' = ConfigOf(tree)'
  BY <1>1 DEF AtomicWork
<1>4. AtomicWork' = [l \in ConfigLeaves |-> IF l \in DOMAIN v THEN v[l]
                                            ELSE IF l \in u THEN None ELSE AtomicWork[l]]
  BY <1>3 DEF ConfigOf
<1>5. HasStateConfig => \A l \in DOMAIN v : l \in dirty' \ KeyLeaves /\ ConfigOf(dev)'[l] = v[l]
  BY DEF ConfigOf, ConfigLeaves
<1>6. Atomic!Tell(TargetOf(n))
  BY TellTarget
<1>7. QED
  BY <1>2, <1>4, <1>5, <1>6 DEF Atomic!Write

\* Payloads: what a request writes, list keys left out, is a payload of AtomicSet.
LEMMA PayloadOfTarget ==
    ASSUME NEW n \in Nodes, NEW v \in Payloads(n)
    PROVE  LET w == [l \in DOMAIN v \ KeyLeaves |-> v[l]]
           IN  /\ w \in Atomic!Payloads(TargetOf(n))
               /\ DOMAIN w \subseteq ConfigLeaves
               /\ \A l \in DOMAIN v : v[l] \in Values
               /\ DOMAIN v \subseteq LeavesOf(n)
<1>1. PICK s \in SUBSET LeavesOf(n) : v \in [s -> Values]
  <2>1. CASE n \in Dirs
    BY <2>1 DEF Payloads
  <2>2. CASE n \notin Dirs
    BY <2>2 DEF Payloads, LeavesOf
  <2>3. QED
    BY <2>1, <2>2
<1> DEFINE w == [l \in DOMAIN v \ KeyLeaves |-> v[l]]
<1>2. DOMAIN v = s /\ LeavesOf(n) \subseteq Leaves
  BY <1>1, NodeLeaves
<1>3. s \ KeyLeaves \in SUBSET TargetOf(n) /\ w \in [s \ KeyLeaves -> Values]
  BY <1>1, <1>2 DEF TargetOf
<1>4. w \in Atomic!Payloads(TargetOf(n))
  BY <1>3 DEF Atomic!Payloads
<1>5. DOMAIN w \subseteq ConfigLeaves
  BY <1>1, <1>2 DEF ConfigLeaves
<1>6. QED
  BY <1>1, <1>2, <1>4, <1>5

\* executeStateConfig: when it succeeds the external system holds what the
\* request wrote and has to report it.
LEMMA ExecuteTells ==
    ASSUME TInv, NEW n \in Nodes, NEW v \in Payloads(n), NEW had \in BOOLEAN,
           NEW t \in [Leaves -> Stored], NEW d \in SUBSET Dirs,
           DirAt(n) \in d, \A l \in DOMAIN v : t[l] = v[l],
           HasStateConfig, NEW ok \in BOOLEAN, ok, executeStateConfig(n, had, t, d, ok)
    PROVE  \A l \in DOMAIN v : l \in dirty' /\ dev'[l] = v[l]
<1>1. \A l \in Listed(n, n \in d, t) : l \in dirty' /\ dev'[l] = GetValueString(t[l])
  BY DeviceStepOf DEF TInv
<1>2. SUFFICES ASSUME NEW l \in DOMAIN v
               PROVE  l \in dirty' /\ dev'[l] = v[l]
  OBVIOUS
<1>a. (\A m \in DOMAIN v : v[m] \in Values) /\ DOMAIN v \subseteq LeavesOf(n)
  BY PayloadOfTarget
<1>b. None \notin Values
  BY SetAssumption
<1>3. v[l] \in Values /\ l \in LeavesOf(n) /\ t[l] = v[l] /\ t[l] # None
  BY <1>a, <1>b
<1>4. l \in Listed(n, n \in d, t)
  BY <1>3 DEF Listed, LeavesOf, DirAt
<1>5. GetValueString(t[l]) = v[l]
  BY <1>3 DEF GetValueString
<1>6. QED
  BY <1>1, <1>4, <1>5

\* SetDelete, SetReplace, SetUpdate: the private copy changes, or is dropped.
LEMMA OpIsAtomic ==
    ASSUME AInv, NEW n \in Nodes, SetDelete(n) \/ SetReplace(n) \/ SetUpdate(n)
    PROVE  Atomic!Next
<1>0. TInv /\ TypeOK /\ TargetOf(n) \in {LeavesOf(m) \ KeyLeaves : m \in Nodes}
  BY DEF AInv, TInv, TargetOf
<1>1. PICK op \in Ops, b \in {backup, Unlink(backup, n)} : phase = op /\ OpStep(op, n, b)
  BY <1>0, TargetOp
<1>2. DeviceStep(n) /\ (UNCHANGED <<phase, idx, err>> \/ Fail)
  BY <1>1 DEF OpStep
<1>3. orig' = orig
  BY <1>0, TargetOp DEF history
<1>4. CASE Fail
  BY <1>0, <1>1, <1>2, <1>3, <1>4, TellTarget, FailAborts
<1>5. ASSUME ~Fail, NEW b1, NEW e, NEW t, NEW d, Execute(b1, e, n, t, d)
      PROVE  /\ tree' = t /\ UNCHANGED phase
             /\ \E ok \in BOOLEAN : ok /\ executeStateConfig(n, e.old # Nil, t, d, ok)
  <2>1. PICK ok \in BOOLEAN :
          /\ executeStateConfig(n, e.old # Nil, t, d, ok)
          /\ \/ ok /\ UNCHANGED <<phase, idx, err, devErr>>
             \/ ~ok /\ Fail /\ devErr' = TRUE
    BY <1>5 DEF Execute
  <2>2. ok = TRUE
    BY <1>5, <2>1
  <2>3. QED
    BY <1>5, <2>1, <2>2 DEF Execute
<1>6. ASSUME ~Fail, SetDelete(n)
      PROVE  Atomic!Next
  <2>1. tree' = Cleared(tree, n) /\ UNCHANGED phase /\ phase = "delete"
    BY <1>5, <1>6 DEF SetDelete, NotDeleted, BadData
  <2>2. \A l \in ConfigLeaves :
          tree'[l] = IF l \in DOMAIN <<>> THEN <<>>[l] ELSE IF l \in TargetOf(n) THEN None ELSE tree[l]
    BY <2>1 DEF Cleared, ConfigLeaves, TargetOf
  <2>3. Atomic!Write("delete", TargetOf(n), TargetOf(n), <<>>)
    BY <1>0, <1>1, <1>2, <1>3, <2>1, <2>2, OpWrites
  <2>4. QED
    BY <1>0, <2>3 DEF Atomic!Next, Atomic!Delete
<1>7. ASSUME ~Fail, NEW v \in Payloads(n), NEW b1, NEW e, NEW c \in [Leaves -> Stored],
             Linked(c, dirs), Execute(b1, e, n, Written(c, v), dirs \cup {DirAt(n)})
      PROVE  LET w == [l \in DOMAIN v \ KeyLeaves |-> v[l]]
             IN  /\ \A l \in ConfigLeaves : tree'[l] = IF l \in DOMAIN w THEN w[l] ELSE c[l]
                 /\ HasStateConfig => \A l \in DOMAIN w : l \in dirty' /\ dev'[l] = w[l]
                 /\ DOMAIN w \subseteq ConfigLeaves
                 /\ w \in Atomic!Payloads(TargetOf(n))
                 /\ UNCHANGED phase
  <2> DEFINE w == [l \in DOMAIN v \ KeyLeaves |-> v[l]]
             t == Written(c, v)
             d == dirs \cup {DirAt(n)}
             had == e.old # Nil
  <2>1. tree' = t /\ UNCHANGED phase
    BY <1>5, <1>7
  <2>b. PICK ok \in BOOLEAN : ok /\ executeStateConfig(n, had, t, d, ok)
    BY <1>5, <1>7
  <2>2. \A l \in Leaves : t[l] = IF l \in DOMAIN v THEN v[l] ELSE c[l]
    BY DEF Written
  <2>3. t \in [Leaves -> Stored] /\ d \in SUBSET Dirs /\ DirAt(n) \in d
    <3>1. PICK s \in SUBSET LeavesOf(n) : v \in [s -> Stored]
      BY PayloadLeaves
    <3>2. dirs \in SUBSET Dirs
      BY <1>0 DEF TypeOK
    <3>3. QED
      BY <1>7, <3>1, <3>2, WrittenTree
  <2>4. \A l \in DOMAIN v : l \in Leaves
    BY PayloadOfTarget, NodeLeaves
  <2>5. had \in BOOLEAN
    OBVIOUS
  <2> HIDE DEF t, d, had
  <2>a. \A l \in DOMAIN v : t[l] = v[l]
    BY <2>2, <2>4
  <2>6. HasStateConfig => \A l \in DOMAIN v : l \in dirty' /\ dev'[l] = v[l]
    BY <1>0, <2>3, <2>5, <2>a, <2>b, ExecuteTells
  <2>7. /\ w \in Atomic!Payloads(TargetOf(n)) /\ DOMAIN w \subseteq ConfigLeaves
    BY PayloadOfTarget
  <2>8. \A l \in ConfigLeaves : tree'[l] = IF l \in DOMAIN w THEN w[l] ELSE c[l]
    BY <2>1, <2>2 DEF ConfigLeaves
  <2>9. HasStateConfig => \A l \in DOMAIN w : l \in dirty' /\ dev'[l] = w[l]
    BY <2>6
  <2>10. QED
    BY <2>1, <2>7, <2>8, <2>9
<1>8. tree \in [Leaves -> Stored] /\ dirs \in SUBSET Dirs /\ Linked(tree, dirs)
  BY <1>0 DEF TypeOK, Linked
<1>9. ASSUME ~Fail, SetReplace(n)
      PROVE  Atomic!Next
  <2> DEFINE c == Cleared(tree, n)
  <2>1. PICK v \in Payloads(n) :
          Execute(Unlink(backup, n), addBackupEntry("replace", n), n,
                  Written(c, v), dirs \cup {DirAt(n)})
    BY <1>9 DEF SetReplace, NotDeleted, BadData
  <2>2. c \in [Leaves -> Stored] /\ Linked(c, dirs)
    BY <1>8, ClearedTree
  <2>3. \A l \in ConfigLeaves : c[l] = IF l \in TargetOf(n) THEN None ELSE tree[l]
    BY DEF Cleared, ConfigLeaves, TargetOf
  <2> HIDE DEF c
  <2> DEFINE w == [l \in DOMAIN v \ KeyLeaves |-> v[l]]
  <2>4. /\ \A l \in ConfigLeaves : tree'[l] = IF l \in DOMAIN w THEN w[l] ELSE c[l]
        /\ HasStateConfig => \A l \in DOMAIN w : l \in dirty' /\ dev'[l] = w[l]
        /\ DOMAIN w \subseteq ConfigLeaves
        /\ w \in Atomic!Payloads(TargetOf(n))
        /\ UNCHANGED phase
    BY <1>7, <1>9, <2>1, <2>2
  <2>5. phase = "replace"
    BY <1>9 DEF SetReplace
  <2> HIDE DEF w
  <2>6. Atomic!Write("replace", TargetOf(n), TargetOf(n), w)
    BY <1>0, <1>1, <1>2, <1>3, <2>3, <2>4, <2>5, OpWrites
  <2>7. QED
    BY <1>0, <2>4, <2>6 DEF Atomic!Next, Atomic!Replace
<1>10. ASSUME ~Fail, SetUpdate(n)
       PROVE  Atomic!Next
  <2>1. PICK v \in Payloads(n) :
          Execute(backup, addBackupEntry("update", n), n,
                  Written(tree, v), dirs \cup {DirAt(n)})
    BY <1>10 DEF SetUpdate, BadData
  <2> DEFINE w == [l \in DOMAIN v \ KeyLeaves |-> v[l]]
  <2>2. /\ \A l \in ConfigLeaves : tree'[l] = IF l \in DOMAIN w THEN w[l] ELSE tree[l]
        /\ HasStateConfig => \A l \in DOMAIN w : l \in dirty' /\ dev'[l] = w[l]
        /\ DOMAIN w \subseteq ConfigLeaves
        /\ w \in Atomic!Payloads(TargetOf(n))
        /\ UNCHANGED phase
    BY <1>7, <1>8, <1>10, <2>1
  <2>3. phase = "update"
    BY <1>10 DEF SetUpdate
  <2> HIDE DEF w
  <2>4. Atomic!Write("update", TargetOf(n), {}, w)
    BY <1>0, <1>1, <1>2, <1>3, <2>2, <2>3, OpWrites
  <2>5. QED
    BY <1>0, <2>2, <2>4 DEF Atomic!Next, Atomic!Update
<1>11. QED
  BY <1>4, <1>6, <1>9, <1>10

\* A step that leaves the abstract Set alone.
LEMMA AtomicUnchanged ==
    ASSUME AtomicConfig' = AtomicConfig, phase \notin Ops, phase' \notin Ops,
           UNCHANGED <<dev, dirty>>
    PROVE  UNCHANGED Atomic!vars
BY DEF AtomicWork, AtomicStage, ConfigOf, Atomic!vars

\* Every step is one of the abstract Set, or none.
LEMMA NextIsAtomic ==
    ASSUME Separate
    PROVE  AInv /\ [Next]_vars => [Atomic!Next]_(Atomic!vars)
<1> SUFFICES ASSUME AInv, [Next]_vars
             PROVE  Atomic!Next \/ UNCHANGED Atomic!vars
  OBVIOUS
<1>0. TInv /\ TypeOK /\ SInv
  BY DEF AInv, TInv
<1>1. CASE SetInit
  <2>1. /\ phase = "idle" /\ phase' = "delete" /\ orig' = tree
        /\ tree' = tree /\ dev' = dev /\ dirty' = dirty
    BY <1>1 DEF SetInit
  <2>2. ~Restoring /\ Restoring' /\ phase \notin Ops /\ phase' \in Ops
    BY <2>1 DEF Restoring, Ops
  <2>3. AtomicConfig' = AtomicConfig /\ AtomicConfig = ConfigOf(tree)
    BY <2>1, <2>2 DEF AtomicConfig, ConfigOf
  <2>4. AtomicWork' = ConfigOf(tree) /\ AtomicStage = "closed" /\ AtomicStage' = "delete"
    BY <2>1, <2>2 DEF AtomicWork, AtomicStage, ConfigOf
  <2>5. ConfigOf(dev)' = ConfigOf(dev)
    BY <2>1 DEF ConfigOf
  <2>6. Atomic!Begin
    BY <2>1, <2>3, <2>4, <2>5 DEF Atomic!Begin
  <2>7. QED
    BY <2>6 DEF Atomic!Next
<1>2. ASSUME NEW op \in Ops, SetRefuse(op)
      PROVE  Atomic!Next
  <2>1. phase \in Ops /\ Fail /\ orig' = orig /\ UNCHANGED <<dev, dirty>>
    BY <1>2 DEF SetRefuse, history
  <2>2. PICK n \in Nodes : TRUE
    BY <1>2, SetAssumption DEF SetRefuse
  <2>3. QED
    BY <1>0, <2>1, TellNothing, FailAborts
<1>3. ASSUME NEW n \in Nodes, SetDelete(n) \/ SetReplace(n) \/ SetUpdate(n)
      PROVE  Atomic!Next
  BY <1>3, OpIsAtomic
<1>4. CASE NextKind
  <2>1. /\ phase \in Ops /\ UNCHANGED <<tree, dev, dirty, err, orig>>
        /\ phase' = CASE phase = "delete"  -> "replace"
                      [] phase = "replace" -> "update"
                      [] phase = "update"  -> "done"
    BY <1>4 DEF NextKind, history, Ops
  <2>2. ~err /\ Restoring
    BY <1>0, <2>1 DEF SInv, RestoreInv, Restoring
  <2>3. AtomicStage = phase /\ AtomicWork = ConfigOf(tree) /\ AtomicConfig = ConfigOf(orig)
    BY <2>1, <2>2 DEF AtomicStage, AtomicWork, AtomicConfig
  <2>4. ConfigOf(dev)' = ConfigOf(dev)
    BY <2>1 DEF ConfigOf
  <2>5. CASE phase \in {"delete", "replace"}
    <3>1. /\ phase' \in Ops /\ Restoring'
          /\ \/ phase = "delete" /\ phase' = "replace"
             \/ phase = "replace" /\ phase' = "update"
      BY <2>1, <2>5 DEF Ops, Restoring
    <3>2. AtomicConfig' = AtomicConfig /\ AtomicWork' = AtomicWork /\ AtomicStage' = phase'
      BY <2>1, <2>3, <3>1 DEF AtomicConfig, AtomicWork, AtomicStage, ConfigOf
    <3>3. Atomic!NextStage
      BY <2>1, <2>3, <2>4, <3>1, <3>2 DEF Atomic!NextStage
    <3>4. QED
      BY <3>3 DEF Atomic!Next
  <2>6. CASE phase = "update"
    <3>1. phase' = "done" /\ phase' \notin Ops /\ (Restoring' <=> HasStateConfig)
      BY <2>1, <2>2, <2>6 DEF Ops, Restoring
    <3>2. AtomicConfig' = IF HasStateConfig THEN AtomicConfig ELSE AtomicWork
      <4>1. CASE HasStateConfig
        BY <2>1, <2>3, <3>1, <4>1 DEF AtomicConfig, ConfigOf
      <4>2. CASE ~HasStateConfig
        BY <2>1, <2>3, <3>1, <4>2 DEF AtomicConfig, ConfigOf
      <4>3. QED
        BY <4>1, <4>2
    <3>3. AtomicWork' = AtomicConfig' /\ AtomicStage' = "closed"
      BY <3>1 DEF AtomicWork, AtomicStage
    <3>4. Atomic!Commit
      BY <2>1, <2>3, <2>4, <2>6, <3>2, <3>3 DEF Atomic!Commit
    <3>5. QED
      BY <3>4 DEF Atomic!Next
  <2>7. QED
    BY <2>1, <2>5, <2>6 DEF Ops
<1>5. CASE SetRollback
  <2> DEFINE e == backup[idx]
             n == e.node
  <2>1. /\ phase = "rollback" /\ phase' = "rollback" /\ idx <= Len(backup) /\ orig' = orig
        /\ tree' = Restored(e) /\ dirs' = RestoredDirs(e)
        /\ \/ \E ok \in BOOLEAN : executeStateConfig(n, Found(n), tree', dirs', ok)
           \/ UNCHANGED <<dev, dirty>>
    BY <1>5 DEF SetRollback, Revert, Replays, history
  <2>2. e \in Entry /\ n \in Nodes
    BY <1>0, <2>1, EntryAt
  <2> HIDE DEF e, n
  <2>3. tree' \in [Leaves -> Stored] /\ dirs' \in SUBSET Dirs
    BY <1>0, <2>1, <2>2, RestoredTree
  <2>4. Atomic!Tell(TargetOf(n))
    <3>1. Found(n) \in BOOLEAN
      <4>1. CASE n \in Dirs
        BY <4>1 DEF Found
      <4>2. CASE n \notin Dirs
        BY <4>2 DEF Found
      <4>3. QED
        BY <4>1, <4>2
    <3>2. ASSUME NEW ok \in BOOLEAN, executeStateConfig(n, Found(n), tree', dirs', ok)
          PROVE  Atomic!Tell(TargetOf(n))
      <4>1. DeviceStep(n)
        BY <1>0, <2>2, <2>3, <3>1, <3>2, DeviceStepOf
      <4>2. QED
        BY <1>0, <2>2, <4>1, TellTarget
    <3>3. QED
      BY <1>0, <2>1, <2>2, <3>2, TellNothing
  <2>5. Restoring /\ Restoring' /\ phase \notin Ops
    BY <2>1 DEF Restoring, Ops
  <2>6. AtomicConfig' = AtomicConfig
    BY <2>1, <2>5 DEF AtomicConfig, ConfigOf
  <2>7. AtomicWork' = AtomicWork /\ AtomicStage' = AtomicStage /\ AtomicStage = "closed"
    BY <2>1, <2>5, <2>6 DEF AtomicWork, AtomicStage
  <2>8. Atomic!TakeBack(TargetOf(n))
    BY <2>4, <2>6, <2>7 DEF Atomic!TakeBack
  <2>9. TargetOf(n) \in {LeavesOf(m) \ KeyLeaves : m \in Nodes}
    BY <2>2 DEF TargetOf
  <2>10. QED
    BY <2>8, <2>9 DEF Atomic!Next
<1>6. CASE EndRollback
  <2>1. /\ phase = "rollback" /\ phase' = "done" /\ UNCHANGED <<dev, dirty, err, orig>>
    BY <1>6 DEF EndRollback, history
  <2>2. Restoring /\ Restoring' /\ phase \notin Ops /\ phase' \notin Ops
    BY <2>1 DEF AInv, AtomicInv, Restoring, Ops
  <2>3. AtomicConfig' = AtomicConfig
    BY <2>1, <2>2 DEF AtomicConfig, ConfigOf
  <2>4. QED
    BY <2>1, <2>2, <2>3, AtomicUnchanged
<1>7. CASE SetDone
  <2>1. /\ phase = "done" /\ phase' = "done" /\ HasStateConfig /\ UNCHANGED <<dev, dirty, orig>>
    BY <1>7 DEF SetDone, history
  <2>2. Restoring /\ Restoring' /\ phase \notin Ops /\ phase' \notin Ops
    BY <2>1 DEF Restoring, Ops
  <2>3. AtomicConfig' = AtomicConfig
    BY <2>1, <2>2 DEF AtomicConfig, ConfigOf
  <2>4. QED
    BY <2>1, <2>2, <2>3, AtomicUnchanged
<1>8. CASE EndSet
  <2>1. /\ phase = "done" /\ phase' = "idle" /\ UNCHANGED <<tree, dev, dirty, orig>>
        /\ HasStateConfig => idx > Len(backup)
    BY <1>8 DEF EndSet, history
  <2>2. phase \notin Ops /\ phase' \notin Ops /\ ~Restoring'
    BY <2>1 DEF Restoring, Ops
  <2>3. ASSUME Restoring, NEW l \in ConfigLeaves
        PROVE  orig[l] = tree[l]
    <3>1. ~Pending(l)
      <4>1. CASE HasStateConfig
        BY <1>0, <2>1, <4>1, LoopOver
      <4>2. CASE ~HasStateConfig
        <5>1. backup = <<>>
          BY <1>0, <2>1, <2>3, <4>2 DEF Restoring, SInv, RestoreInv, Ops
        <5>2. QED
          BY <5>1 DEF Pending
      <4>3. QED
        BY <4>1, <4>2
    <3>2. QED
      BY <1>0, <2>3, <3>1 DEF SInv, RestoreInv, ConfigLeaves
  <2>4. AtomicConfig' = AtomicConfig
    <3>1. AtomicConfig' = ConfigOf(tree)
      BY <2>1, <2>2 DEF AtomicConfig, ConfigOf
    <3>2. Restoring => ConfigOf(orig) = ConfigOf(tree)
      BY <2>3 DEF ConfigOf
    <3>3. QED
      BY <3>1, <3>2 DEF AtomicConfig
  <2>5. QED
    BY <2>1, <2>2, <2>4, AtomicUnchanged
<1>9. CASE StateUpdate
  <2>1. PICK s \in SUBSET dirty : tree' = Reported(s) /\ dirty' = dirty \ s
    BY <1>9 DEF StateUpdate
  <2>2. phase = "idle" /\ phase' = "idle" /\ dev' = dev
    BY <1>9 DEF StateUpdate
  <2>3. ~Restoring /\ ~Restoring' /\ phase \notin Ops /\ phase' \notin Ops
    BY <2>2 DEF Restoring, Ops
  <2> DEFINE r == s \ KeyLeaves
  <2>4. r \in SUBSET (dirty \ KeyLeaves) /\ dirty' \ KeyLeaves = (dirty \ KeyLeaves) \ r
    BY <2>1
  <2>5. AtomicConfig = ConfigOf(tree) /\ AtomicConfig' = ConfigOf(tree)'
    BY <2>3 DEF AtomicConfig
  <2>6. AtomicConfig' = [l \in ConfigLeaves |-> IF l \in r THEN ConfigOf(dev)[l] ELSE AtomicConfig[l]]
    BY <2>1, <2>5 DEF ConfigOf, ConfigLeaves, Reported
  <2>7. /\ AtomicWork' = AtomicConfig' /\ AtomicStage = "closed" /\ AtomicStage' = "closed"
        /\ ConfigOf(dev)' = ConfigOf(dev)
    BY <2>2, <2>3 DEF AtomicWork, AtomicStage, ConfigOf
  <2> HIDE DEF r
  <2>8. Atomic!Report(r)
    BY <2>4, <2>6, <2>7 DEF Atomic!Report
  <2>9. QED
    BY <2>4, <2>8 DEF Atomic!Next
<1>10. CASE UNCHANGED vars
  BY <1>10 DEF vars, AtomicConfig, AtomicWork, AtomicStage, Restoring, ConfigOf, Atomic!vars
<1>11. QED
  BY <1>1, <1>2, <1>3, <1>4, <1>5, <1>6, <1>7, <1>8, <1>9, <1>10 DEF Next, Stopped, Ops

\* Every step keeps what the mapping needs.
LEMMA NextAtomicInv == TInv /\ AtomicInv /\ [Next]_vars => AtomicInv'
<1> SUFFICES ASSUME TInv, AtomicInv, [Next]_vars
             PROVE  AtomicInv'
  OBVIOUS
<1>1. ASSUME NEW n \in Nodes, SetDelete(n) \/ SetReplace(n) \/ SetUpdate(n)
      PROVE  AtomicInv'
  <2>1. PICK op \in Ops, b \in {backup, Unlink(backup, n)} : phase = op /\ OpStep(op, n, b)
    BY <1>1, TargetOp
  <2>2. DeviceStep(n) /\ (UNCHANGED <<phase, idx, err>> \/ Fail)
    BY <2>1 DEF OpStep
  <2>3. QED
    BY <2>1, <2>2 DEF AtomicInv, DeviceStep, Fail, Ops
<1>2. CASE SetRollback
  BY <1>2 DEF SetRollback, executeStateConfig, AtomicInv
<1>3. ASSUME NEW op \in Ops, SetRefuse(op)
      PROVE  AtomicInv'
  BY <1>3 DEF SetRefuse, Fail, AtomicInv
<1>4. CASE NextKind
  <2>1. phase' # "rollback" /\ dirty' = dirty
    BY <1>4 DEF NextKind
  <2>2. QED
    BY <2>1 DEF AtomicInv
<1>5. CASE SetInit \/ EndRollback \/ SetDone \/ EndSet \/ StateUpdate
  <2>1. phase' # "rollback" /\ dirty' \subseteq dirty
    BY <1>5 DEF SetInit, EndRollback, SetDone, EndSet, StateUpdate
  <2>2. QED
    BY <2>1 DEF AtomicInv
<1>6. CASE UNCHANGED vars
  BY <1>6 DEF vars, AtomicInv
<1>7. QED
  BY <1>1, <1>2, <1>3, <1>4, <1>5, <1>6 DEF Next, Stopped, Ops

\* The startup configuration is the configuration of the abstract Set.
LEMMA InitIsAtomic == Init => Atomic!Init
<1> SUFFICES ASSUME Init PROVE Atomic!Init
  OBVIOUS
<1>1. phase = "idle" /\ dirty = {} /\ dev = tree /\ tree \in [Leaves -> Stored]
  BY DEF Init, Stored
<1>2. ~Restoring /\ phase \notin Ops
  BY <1>1 DEF Restoring, Ops
<1>3. AtomicConfig = ConfigOf(tree) /\ AtomicWork = AtomicConfig /\ AtomicStage = "closed"
  BY <1>2 DEF AtomicConfig, AtomicWork, AtomicStage
<1>4. ConfigOf(tree) \in [ConfigLeaves -> Stored]
  BY <1>1 DEF ConfigOf, ConfigLeaves
<1>5. QED
  BY <1>1, <1>3, <1>4 DEF Atomic!Init

\* SetInit to SetDone: with targets that do not overlap and no merge a Set takes
\* effect as a whole or not at all, for every tree, request and failure.  With
\* an external system, that system is told what an operation writes, and the
\* Model changes only when it reports.
THEOREM SpecImplementsAtomicSet ==
    ASSUME Separate
    PROVE  Spec => ImplementsAtomicSet
<1>1. Init => AtomicInv
  BY DEF Init, AtomicInv
<1>2. Spec => []AInv
  <2>1. Init => AInv
    BY <1>1, InitTInv, InitSInv DEF AInv
  <2>2. AInv /\ [Next]_vars => AInv'
    BY NextTInv, NextSInv, NextAtomicInv DEF AInv
  <2>3. QED
    BY <2>1, <2>2, PTL DEF Spec
<1>3. AInv /\ [Next]_vars => [Atomic!Next]_(Atomic!vars)
  BY NextIsAtomic
<1>4. QED
  BY <1>2, <1>3, InitIsAtomic, PTL DEF Spec, ImplementsAtomicSet, Atomic!Spec
=============================================================================
