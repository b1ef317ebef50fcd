------------------------ MODULE ClientAliasesProofs ------------------------
(***************************************************************************)
(* Proofs of the properties of ClientAliases for any set of names and      *)
(* paths and any table of target-defined aliases.                          *)
(***************************************************************************)
EXTENDS ClientAliases, TLAPS

\* A step that adds an alias whose name is free keeps the tables in agreement.
\* (updateServerAliases and updateClientAlias, the two map insertions.)
LEMMA AddAgrees ==
    ASSUME TypeOK, TablesAgree, NEW n \in Names, NEW p \in Paths,
           NEW srv \in BOOLEAN, NameFree(n), AddAlias(n, p, srv)
    PROVE  /\ alias2path' \in [Names -> AliasEntry \cup {NoEntry}]
           /\ path2alias' \in [Paths -> AliasEntry \cup {NoEntry}]
           /\ TablesAgree'
           /\ \A q \in Paths : path2alias'[q] # NoEntry =>
                  path2alias'[q] = path2alias[q] \/ path2alias'[q].name = n
<1> DEFINE ca == [name |-> n, path |-> p, isServer |-> srv]
<1>1. ca \in AliasEntry
  BY DEF AliasEntry
<1>2. /\ alias2path' = [alias2path EXCEPT ![n] = ca]
      /\ path2alias' = [path2alias EXCEPT ![p] = ca]
  BY DEF AddAlias
<1>3. /\ alias2path' \in [Names -> AliasEntry \cup {NoEntry}]
      /\ path2alias' \in [Paths -> AliasEntry \cup {NoEntry}]
  BY <1>1, <1>2 DEF TypeOK
<1>4. \A m \in Names : alias2path'[m] # NoEntry => alias2path'[m].name = m
  BY <1>2 DEF TablesAgree, TypeOK
<1>5. ASSUME NEW q \in Paths, path2alias'[q] # NoEntry
      PROVE  /\ path2alias'[q].path = q
             /\ alias2path'[path2alias'[q].name] = path2alias'[q]
  <2>1. CASE q = p
    BY <1>2, <2>1 DEF TypeOK
  <2>2. CASE q # p
    <3>1. path2alias'[q] = path2alias[q]
      BY <1>2, <2>2 DEF TypeOK
    <3>2. path2alias[q].name # n
      BY <1>5, <3>1 DEF TablesAgree, NameFree
    <3>3. path2alias[q].name \in Names
      BY <1>5, <3>1 DEF TypeOK, AliasEntry
    <3> QED
      BY <1>2, <1>5, <3>1, <3>2, <3>3 DEF TypeOK, TablesAgree
  <2> QED
    BY <2>1, <2>2
<1>6. ASSUME NEW q \in Paths, path2alias'[q] # NoEntry
      PROVE  path2alias'[q] = path2alias[q] \/ path2alias'[q].name = n
  BY <1>2, <1>6 DEF TypeOK
<1> QED
  BY <1>3, <1>4, <1>5, <1>6 DEF TablesAgree

\* A step that deletes an alias keeps the tables in agreement, and every entry
\* left in path2alias was there before.  (The two map deletions.)
LEMMA DeleteAgrees ==
    ASSUME TypeOK, TablesAgree, NEW n \in Names, ~NameFree(n), DeleteAlias(n)
    PROVE  /\ alias2path' \in [Names -> AliasEntry \cup {NoEntry}]
           /\ path2alias' \in [Paths -> AliasEntry \cup {NoEntry}]
           /\ TablesAgree'
           /\ \A q \in Paths : path2alias'[q] # NoEntry =>
                  path2alias'[q] = path2alias[q]
<1> DEFINE gone == alias2path[n].path
<1>1. gone \in Paths
  BY DEF TypeOK, NameFree, AliasEntry
<1>2. /\ alias2path' = [alias2path EXCEPT ![n] = NoEntry]
      /\ path2alias' = [path2alias EXCEPT ![gone] = NoEntry]
  BY DEF DeleteAlias
<1>3. /\ alias2path' \in [Names -> AliasEntry \cup {NoEntry}]
      /\ path2alias' \in [Paths -> AliasEntry \cup {NoEntry}]
  BY <1>2 DEF TypeOK
<1>4. \A m \in Names : alias2path'[m] # NoEntry => alias2path'[m].name = m
  BY <1>2 DEF TablesAgree, TypeOK
<1>5. ASSUME NEW q \in Paths, path2alias'[q] # NoEntry
      PROVE  /\ path2alias'[q] = path2alias[q]
             /\ path2alias'[q].path = q
             /\ alias2path'[path2alias'[q].name] = path2alias'[q]
  <2>1. q # gone /\ path2alias'[q] = path2alias[q]
    BY <1>1, <1>2, <1>5 DEF TypeOK
  <2>2. path2alias[q].path = q /\ alias2path[path2alias[q].name] = path2alias[q]
    BY <1>5, <2>1 DEF TablesAgree
  <2>3. path2alias[q].name # n
    BY <2>1, <2>2
  <2>4. path2alias[q].name \in Names
    BY <1>5, <2>1 DEF TypeOK, AliasEntry
  <2> QED
    BY <1>2, <2>1, <2>2, <2>3, <2>4 DEF TypeOK
<1> QED
  BY <1>3, <1>4, <1>5 DEF TablesAgree

\* The inductive invariant holds initially.
LEMMA InitIInv == Init => IInv
<1> SUFFICES ASSUME Init PROVE IInv
  OBVIOUS
<1>1. batch \in 0..MaxBatch
  BY AliasAssumption DEF Init
<1>2. TypeOK
  BY <1>1, Zenon DEF Init, TypeOK
<1>3. TablesAgree /\ AnnouncedOrPending
  BY DEF Init, TablesAgree, AnnouncedOrPending
<1> QED
  BY <1>2, <1>3 DEF IInv

\* An entry that is still the one of before stays announced or pending when
\* the list of announcements only grows.
LEMMA PendingGrows ==
    ASSUME IInv, NEW n \in Names, pending' = pending \cup {n}, told' = told,
           path2alias' \in [Paths -> AliasEntry \cup {NoEntry}],
           \A q \in Paths : path2alias'[q] # NoEntry =>
               path2alias'[q] = path2alias[q] \/ path2alias'[q].name = n
    PROVE  \A p \in Paths : path2alias'[p] # NoEntry =>
               path2alias'[p].name \in pending' \/ told'[path2alias'[p].name] = p
BY DEF IInv, AnnouncedOrPending

\* Every step of the session keeps the inductive invariant.
LEMMA NextIInv == IInv /\ [Next]_vars => IInv'
<1> SUFFICES ASSUME IInv, [Next]_vars PROVE IInv'
  OBVIOUS
<1> USE AliasAssumption
<1>1. ASSUME NEW add \in BOOLEAN, StartServerUpdate(add) PROVE IInv'
  BY <1>1 DEF StartServerUpdate, IInv, TypeOK, TablesAgree, AnnouncedOrPending
<1>2. ASSUME NEW n \in Names, ServerEntry(n) PROVE IInv'
  <2>0. /\ n \in DOMAIN ServerAliases
        /\ pc = "server" /\ todo' = todo \ {n}
        /\ UNCHANGED <<useServerAliases, pc, batch, failed, told>>
    BY <1>2 DEF ServerEntry, IInv, TypeOK
  <2>1. CASE AddsServerAlias(n) /\ AddAlias(n, ServerAliases[n], TRUE)
             /\ pending' = pending \cup {n}
    <3>1. ServerAliases[n] \in Paths /\ NameFree(n)
      BY <2>0, <2>1 DEF AddsServerAlias, Parses
    <3>2. /\ alias2path' \in [Names -> AliasEntry \cup {NoEntry}]
          /\ path2alias' \in [Paths -> AliasEntry \cup {NoEntry}]
          /\ TablesAgree'
          /\ \A q \in Paths : path2alias'[q] # NoEntry =>
                 path2alias'[q] = path2alias[q] \/ path2alias'[q].name = n
      BY <2>1, <3>1, AddAgrees DEF IInv
    <3>3. AnnouncedOrPending'
      BY <2>0, <2>1, <3>2, PendingGrows DEF AnnouncedOrPending
    <3> QED
      BY <2>0, <2>1, <3>2, <3>3 DEF IInv, TypeOK
  <2>2. CASE DeletesServerAlias(n) /\ DeleteAlias(n)
             /\ pending' = pending \cup {n}
    <3>1. /\ alias2path' \in [Names -> AliasEntry \cup {NoEntry}]
          /\ path2alias' \in [Paths -> AliasEntry \cup {NoEntry}]
          /\ TablesAgree'
          /\ \A q \in Paths : path2alias'[q] # NoEntry =>
                 path2alias'[q] = path2alias[q]
      BY <2>2, DeleteAgrees DEF IInv, DeletesServerAlias
    <3>2. AnnouncedOrPending'
      BY <2>0, <2>2, <3>1, PendingGrows DEF AnnouncedOrPending
    <3> QED
      BY <2>0, <2>2, <3>1, <3>2 DEF IInv, TypeOK
  <2>3. CASE UNCHANGED <<alias2path, path2alias, pending>>
    BY <2>0, <2>3 DEF IInv, TypeOK, TablesAgree, AnnouncedOrPending
  <2> QED
    BY <1>2, <2>1, <2>2, <2>3 DEF ServerEntry
<1>3. CASE EndServerUpdate
  BY <1>3 DEF EndServerUpdate, tables, IInv, TypeOK, TablesAgree, AnnouncedOrPending
<1>4. CASE StartClientUpdate
  BY <1>4 DEF StartClientUpdate, tables, IInv, TypeOK, TablesAgree, AnnouncedOrPending
<1>5. CASE updateClientAlias
  <2>0. /\ pc = "client" /\ batch' \in 0..MaxBatch
        /\ UNCHANGED <<useServerAliases, todo, told>>
    BY <1>5 DEF updateClientAlias, IInv, TypeOK
  <2>1. ASSUME NEW n \in Names, ClientDelete(n) PROVE IInv'
    <3>0. pending' = pending \cup {n} /\ UNCHANGED <<failed, pc>>
      BY <2>1 DEF ClientDelete
    <3>1. /\ alias2path' \in [Names -> AliasEntry \cup {NoEntry}]
          /\ path2alias' \in [Paths -> AliasEntry \cup {NoEntry}]
          /\ TablesAgree'
          /\ \A q \in Paths : path2alias'[q] # NoEntry =>
                 path2alias'[q] = path2alias[q]
      <4>1. CASE ~NameFree(n) /\ DeleteAlias(n)
        BY <4>1, DeleteAgrees DEF IInv
      <4>2. CASE UNCHANGED <<alias2path, path2alias>>
        BY <4>2 DEF IInv, TypeOK, TablesAgree
      <4> QED
        BY <2>1, <4>1, <4>2 DEF ClientDelete
    <3>2. AnnouncedOrPending'
      BY <2>0, <3>0, <3>1, PendingGrows DEF AnnouncedOrPending
    <3> QED
      BY <2>0, <3>0, <3>1, <3>2 DEF IInv, TypeOK
  <2>2. ASSUME NEW n \in Names, NEW p \in Paths, ClientAdd(n, p) PROVE IInv'
    <3>0. pending' = pending \cup {n} /\ UNCHANGED <<failed, pc>>
      BY <2>2 DEF ClientAdd
    <3>1. /\ alias2path' \in [Names -> AliasEntry \cup {NoEntry}]
          /\ path2alias' \in [Paths -> AliasEntry \cup {NoEntry}]
          /\ TablesAgree'
          /\ \A q \in Paths : path2alias'[q] # NoEntry =>
                 path2alias'[q] = path2alias[q] \/ path2alias'[q].name = n
      BY <2>2, AddAgrees DEF ClientAdd, AlreadyExists, IInv
    <3>2. AnnouncedOrPending'
      BY <2>0, <3>0, <3>1, PendingGrows DEF AnnouncedOrPending
    <3> QED
      BY <2>0, <3>0, <3>1, <3>2 DEF IInv, TypeOK
  <2>3. CASE ClientRefuse
    BY <2>0, <2>3 DEF ClientRefuse, IInv, TypeOK, TablesAgree, AnnouncedOrPending
  <2> QED
    BY <1>5, <2>1, <2>2, <2>3 DEF updateClientAlias
<1>6. CASE EndClientUpdate
  BY <1>6 DEF EndClientUpdate, tables, IInv, TypeOK, TablesAgree, AnnouncedOrPending
<1>7. ASSUME NEW n \in Names, Announce(n) PROVE IInv'
  <2>1. /\ pc = "announce" /\ pending' = pending \ {n}
        /\ told' = [told EXCEPT ![n] = IF ToPath(n) = NoPath THEN @ ELSE ToPath(n)]
        /\ UNCHANGED <<alias2path, path2alias, useServerAliases, pc, todo, batch, failed>>
    BY <1>7 DEF Announce, tables
  <2>2. ToPath(n) \in Paths \cup {NoPath}
    BY DEF ToPath, IInv, TypeOK, AliasEntry
  <2>3. ASSUME NEW p \in Paths, path2alias[p] # NoEntry
        PROVE  path2alias[p].name \in pending' \/ told'[path2alias[p].name] = p
    <3>1. path2alias[p].name \in Names
      BY <2>3 DEF IInv, TypeOK, AliasEntry
    <3>2. CASE path2alias[p].name = n
      <4>1. alias2path[n] = path2alias[p] /\ alias2path[n].path = p
        BY <2>3, <3>2 DEF IInv, TablesAgree
      <4>2. ToPath(n) = p /\ ToPath(n) # NoPath
        BY <2>3, <4>1 DEF ToPath
      <4> QED
        BY <2>1, <3>2, <4>2 DEF IInv, TypeOK
    <3>3. CASE path2alias[p].name # n
      BY <2>1, <2>3, <3>1, <3>3 DEF IInv, TypeOK, AnnouncedOrPending
    <3> QED
      BY <3>2, <3>3
  <2>4. AnnouncedOrPending'
    BY <2>1, <2>3 DEF AnnouncedOrPending
  <2> QED
    BY <2>1, <2>2, <2>4 DEF IInv, TypeOK, TablesAgree
<1>8. CASE EndAnnounce
  BY <1>8 DEF EndAnnounce, tables, IInv, TypeOK, TablesAgree, AnnouncedOrPending
<1>9. CASE UNCHANGED vars
  BY <1>9 DEF vars, IInv, TypeOK, TablesAgree, AnnouncedOrPending
<1> QED
  BY <1>1, <1>2, <1>3, <1>4, <1>5, <1>6, <1>7, <1>8, <1>9 DEF Next, Closed

\* The inductive invariant holds in every reachable state.
THEOREM SpecIInv == Spec => []IInv
BY InitIInv, NextIInv, PTL DEF Spec

\* The tables and the loop state keep their types.
THEOREM SpecTypeOK == Spec => []TypeOK
<1>1. IInv => TypeOK
  BY DEF IInv
<1> QED
  BY <1>1, SpecIInv, PTL

\* An alias that replaces a prefix always leads back to it.
THEOREM SpecRoundTrip == Spec => []RoundTrip
<1>1. IInv => RoundTrip
  <2> SUFFICES ASSUME IInv, NEW p \in Paths, ToAlias(p) # NoEntry
               PROVE  ToAlias(p) \in Names /\ ToPath(ToAlias(p)) = p
    BY DEF RoundTrip
  <2>1. path2alias[p] # NoEntry /\ ToAlias(p) = path2alias[p].name
    BY DEF ToAlias
  <2>2. path2alias[p].name \in Names
    BY <2>1 DEF IInv, TypeOK, AliasEntry
  <2>3. alias2path[ToAlias(p)] = path2alias[p] /\ path2alias[p].path = p
    BY <2>1 DEF IInv, TablesAgree
  <2> QED
    BY <2>1, <2>2, <2>3 DEF ToPath
<1> QED
  BY <1>1, SpecIInv, PTL

\* Between requests every alias in use has been announced for its path.
THEOREM SpecAnnounced == Spec => []AnnouncedBeforeNextRequest
<1>1. IInv => AnnouncedBeforeNextRequest
  BY DEF IInv, AnnouncedOrPending, AnnouncedBeforeNextRequest, ToAlias
<1> QED
  BY <1>1, SpecIInv, PTL

\* The target-defined aliases never take a name away from the client.
THEOREM SpecKeepsClientNames == Spec => ServerUpdateKeepsClientNames
<1> DEFINE Keeps == \A n \in Names :
             (pc = "server" /\ alias2path[n] # NoEntry /\ ~alias2path[n].isServer)
                => alias2path'[n] = alias2path[n]
<1>1. IInv /\ [Next]_vars => [Keeps]_vars
  <2> SUFFICES ASSUME IInv, Next, NEW n \in Names, pc = "server",
                      alias2path[n] # NoEntry, ~alias2path[n].isServer
               PROVE  alias2path'[n] = alias2path[n]
    BY DEF Next
  <2>1. ASSUME NEW m \in Names, ServerEntry(m) PROVE alias2path'[n] = alias2path[n]
    BY <2>1 DEF ServerEntry, AddsServerAlias, DeletesServerAlias, NameFree,
                AddAlias, DeleteAlias, IInv, TypeOK
  <2>2. CASE EndServerUpdate
    BY <2>2 DEF EndServerUpdate, tables
  <2> QED
    BY <2>1, <2>2 DEF Next, StartServerUpdate, StartClientUpdate, updateClientAlias,
       EndClientUpdate, Announce, EndAnnounce, Closed
<1> QED
  BY <1>1, SpecIInv, PTL DEF Spec, ServerUpdateKeepsClientNames
=============================================================================
