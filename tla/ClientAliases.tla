--------------------------- MODULE ClientAliases ---------------------------
(***************************************************************************)
(* The alias tables of one Subscribe session (gnmi/server/aliases.go) and  *)
(* the RPC goroutine that updates them and announces the result to the     *)
(* client (clientAliasesUpdate and serverAliasesUpdate, subscribe.go).     *)
(*                                                                         *)
(* Both tables are guarded by clientAliases.mutex.  updateServerAliases    *)
(* holds it for its whole loop over a Go map, whose order is arbitrary:    *)
(* the loop is one step per map entry, in any order, and the readers ToPath*)
(* and ToAlias are excluded until it ends (pc = "server").  The other      *)
(* operations hold the mutex for a single step.  Between the table update  *)
(* and its announcements the mutex is free, so the telemetry goroutines of *)
(* the session read the tables while pc = "announce".                      *)
(***************************************************************************)
EXTENDS Naturals, FiniteSets

CONSTANTS
    Names,          \* alias names that start with '#'
    Paths,          \* data paths an alias can stand for
    ServerAliases,  \* Server.serverAliases: the target-defined aliases
    BadPath,        \* a configured path that xpath.ToGNMIPath cannot parse
    NoEntry,        \* a missing map entry (nil *aliasEntry)
    NoPath,         \* no path: the nil path of a request or an answer
    MaxBatch        \* aliases in one AliasList of a client request

ASSUME AliasAssumption ==
    /\ DOMAIN ServerAliases \subseteq Names
    /\ \A n \in DOMAIN ServerAliases : ServerAliases[n] \in Paths \cup {BadPath}
    /\ BadPath \notin Paths
    /\ NoPath \notin Paths
    /\ NoEntry \notin [name : Names, path : Paths, isServer : BOOLEAN]
    /\ MaxBatch \in Nat \ {0}

AliasEntry == [name : Names, path : Paths, isServer : BOOLEAN]

VARIABLES
    alias2path,       \* clientAliases.alias2path
    path2alias,       \* clientAliases.path2alias
    useServerAliases, \* clientAliases.useServerAliases
    pc,               \* where the RPC goroutine of the session is
    todo,             \* server aliases the loop has not visited yet
    batch,            \* aliases of the current AliasList handled so far
    pending,          \* aliases updated and not announced yet (aliaslist)
    failed,           \* an alias of the current request was refused
    told              \* the path last announced to the client for each alias

vars == <<alias2path, path2alias, useServerAliases, pc, todo, batch, pending,
          failed, told>>
tables == <<alias2path, path2alias, useServerAliases>>

Init ==
    /\ alias2path = [n \in Names |-> NoEntry]
    /\ path2alias = [p \in Paths |-> NoEntry]
    /\ useServerAliases = FALSE
    /\ pc = "idle"
    /\ todo = {}
    /\ batch = 0
    /\ pending = {}
    /\ failed = FALSE
    /\ told = [n \in Names |-> NoPath]

-----------------------------------------------------------------------------
(* The conversions used for every notification. *)

\* The path an alias stands for; a name that is no alias parses to no path.
ToPath(n) == IF alias2path[n] # NoEntry THEN alias2path[n].path ELSE NoPath

\* The alias a prefix is replaced with, NoEntry when it is sent as it is.
ToAlias(p) == IF path2alias[p] # NoEntry THEN path2alias[p].name ELSE NoEntry

\* Defect: the path keeps its entry when the name is deleted.
DeleteNameOnly(n) ==
    /\ alias2path' = [alias2path EXCEPT ![n] = NoEntry]
    /\ UNCHANGED path2alias

\* Both map deletions for the entry of name n.
DeleteAlias(n) ==
    /\ alias2path' = [alias2path EXCEPT ![n] = NoEntry]
    /\ path2alias' = [path2alias EXCEPT ![alias2path[n].path] = NoEntry]

\* Both map insertions of a new entry.
AddAlias(n, p, isServer) ==
    LET ca == [name |-> n, path |-> p, isServer |-> isServer]
    IN  /\ path2alias' = [path2alias EXCEPT ![p] = ca]
        /\ alias2path' = [alias2path EXCEPT ![n] = ca]

-----------------------------------------------------------------------------
(* Target-defined aliases: updateServerAliases(serverAliases, add). *)

StartServerUpdate(add) ==
    /\ pc = "idle"
    /\ pc' = "server"
    /\ todo' = DOMAIN ServerAliases
    /\ useServerAliases' = add
    /\ UNCHANGED <<alias2path, path2alias, batch, pending, failed, told>>

\* xpath.ToGNMIPath accepts the configured path.
Parses(n) == ServerAliases[n] # BadPath

\* The name is not in use.
NameFree(n) == alias2path[n] = NoEntry

AddsServerAlias(n) == useServerAliases /\ Parses(n) /\ NameFree(n)

DeletesServerAlias(n) ==
    ~useServerAliases /\ Parses(n) /\ ~NameFree(n) /\ alias2path[n].isServer

\* One map entry of the loop: added if its name is free, deleted if it is a
\* target-defined alias, skipped otherwise.
ServerEntry(n) ==
    /\ pc = "server"
    /\ n \in todo
    /\ todo' = todo \ {n}
    /\ \/ /\ AddsServerAlias(n)
          /\ AddAlias(n, ServerAliases[n], TRUE)
          /\ pending' = pending \cup {n}
       \/ /\ DeletesServerAlias(n)
          /\ DeleteAlias(n)
          /\ pending' = pending \cup {n}
       \/ /\ ~AddsServerAlias(n) /\ ~DeletesServerAlias(n)
          /\ UNCHANGED <<alias2path, path2alias, pending>>
    /\ UNCHANGED <<useServerAliases, pc, batch, failed, told>>

EndServerUpdate ==
    /\ pc = "server"
    /\ todo = {}
    /\ pc' = "announce"
    /\ UNCHANGED <<tables, todo, batch, pending, failed, told>>

-----------------------------------------------------------------------------
(* Client-defined aliases: updateClientAliases over updateClientAlias. *)

StartClientUpdate ==
    /\ pc = "idle"
    /\ pc' = "client"
    /\ batch' = 0
    /\ UNCHANGED <<tables, todo, pending, failed, told>>

\* A nil or empty path deletes the alias, whoever defined it.
ClientDelete(n) ==
    /\ \/ ~NameFree(n) /\ DeleteAlias(n)
       \/ NameFree(n) /\ UNCHANGED <<alias2path, path2alias>>
    /\ pending' = pending \cup {n}
    /\ UNCHANGED <<failed, pc>>

\* AlreadyExists, for the path or for the name.
AlreadyExists(n, p) == path2alias[p] # NoEntry \/ ~NameFree(n)

\* A new alias for a path that has none.
ClientAdd(n, p) ==
    /\ ~AlreadyExists(n, p)
    /\ AddAlias(n, p, FALSE)
    /\ pending' = pending \cup {n}
    /\ UNCHANGED <<failed, pc>>

\* Defect: on an error the aliases set before it are not returned.
RefuseForgetsBatch ==
    /\ failed' = TRUE
    /\ pc' = "announce"
    /\ pending' = {}
    /\ UNCHANGED <<alias2path, path2alias>>

\* Every refusal of updateClientAlias: the batch stops at its first error.
ClientRefuse ==
    /\ failed' = TRUE
    /\ pc' = "announce"
    /\ UNCHANGED <<alias2path, path2alias, pending>>

\* One alias of the client's AliasList.
updateClientAlias ==
    /\ pc = "client"
    /\ batch < MaxBatch
    /\ batch' = batch + 1
    /\ \/ \E n \in Names : ClientDelete(n)
       \/ \E n \in Names, p \in Paths : ClientAdd(n, p)
       \/ \E n \in Names, p \in Paths : AlreadyExists(n, p) /\ ClientRefuse
       \/ ClientRefuse  \* an empty name, one without '#', an invalid path
    /\ UNCHANGED <<useServerAliases, todo, told>>

EndClientUpdate ==
    /\ pc = "client"
    /\ pc' = "announce"
    /\ UNCHANGED <<tables, todo, batch, pending, failed, told>>

-----------------------------------------------------------------------------
(* buildAliasResponse for each updated alias; none for a deleted one.  An  *)
(* error of the batch is returned after that and ends the session.         *)

Announce(n) ==
    /\ pc = "announce"
    /\ n \in pending
    /\ pending' = pending \ {n}
    /\ told' = [told EXCEPT ![n] = IF ToPath(n) = NoPath THEN @ ELSE ToPath(n)]
    /\ UNCHANGED <<tables, pc, todo, batch, failed>>

EndAnnounce ==
    /\ pc = "announce"
    /\ pending = {}
    /\ pc' = IF failed THEN "closed" ELSE "idle"
    /\ UNCHANGED <<tables, todo, batch, pending, failed, told>>

\* The session is over; nothing happens to its tables any more.
Closed == pc = "closed" /\ UNCHANGED vars

Next ==
    \/ \E add \in BOOLEAN : StartServerUpdate(add)
    \/ \E n \in Names : ServerEntry(n)
    \/ EndServerUpdate
    \/ StartClientUpdate
    \/ updateClientAlias
    \/ EndClientUpdate
    \/ \E n \in Names : Announce(n)
    \/ EndAnnounce
    \/ Closed

Spec == Init /\ [][Next]_vars

-----------------------------------------------------------------------------
(* Properties *)

\* Both tables hold entries of their own key space, and the loop and batch
\* state of aliases.go stays within its types.
TypeOK ==
    /\ alias2path \in [Names -> AliasEntry \cup {NoEntry}]
    /\ path2alias \in [Paths -> AliasEntry \cup {NoEntry}]
    /\ useServerAliases \in BOOLEAN
    /\ pc \in {"idle", "server", "client", "announce", "closed"}
    /\ todo \in SUBSET DOMAIN ServerAliases
    /\ batch \in 0..MaxBatch
    /\ pending \in SUBSET Names
    /\ failed \in BOOLEAN
    /\ told \in [Names -> Paths \cup {NoPath}]

\* The alias put in place of a prefix by ToAlias always leads back to that
\* prefix by ToPath, in whatever order server and client aliases were added,
\* overwritten and deleted (aliases.go, ToAlias and ToPath).
RoundTrip ==
    \A p \in Paths : ToAlias(p) # NoEntry =>
        /\ ToAlias(p) \in Names
        /\ ToPath(ToAlias(p)) = p

\* Once the RPC goroutine has finished a request, every alias a notification
\* may carry was announced to the client for exactly that path, also when the
\* batch stopped at an error (subscribe.go, clientAliasesUpdate and
\* serverAliasesUpdate).
AnnouncedBeforeNextRequest ==
    pc \in {"idle", "closed"} =>
        \A p \in Paths : ToAlias(p) # NoEntry => told[ToAlias(p)] = p

\* Enabling or disabling the target-defined aliases never takes away or
\* redefines a name the client defined (updateServerAliases).
ServerUpdateKeepsClientNames ==
    [][\A n \in Names :
         (pc = "server" /\ alias2path[n] # NoEntry /\ ~alias2path[n].isServer)
            => alias2path'[n] = alias2path[n]]_vars

\* Every alias a prefix can be replaced with is either announced for that
\* prefix or still on the list of announcements, and that list is empty
\* between requests.
AnnouncedOrPending ==
    /\ \A p \in Paths : path2alias[p] # NoEntry =>
         path2alias[p].name \in pending \/ told[path2alias[p].name] = p
    /\ pc \in {"idle", "closed"} => pending = {}

\* The entries of the two tables belong together: a name's entry carries the
\* name, and a path's entry carries the path and is the entry of its name.
TablesAgree ==
    /\ \A n \in Names : alias2path[n] # NoEntry => alias2path[n].name = n
    /\ \A p \in Paths : path2alias[p] # NoEntry =>
         /\ path2alias[p].path = p
         /\ alias2path[path2alias[p].name] = path2alias[p]

\* The inductive invariant behind the properties above.
IInv == TypeOK /\ TablesAgree /\ AnnouncedOrPending

\* A path has one alias: updateClientAlias answers AlreadyExists for a path
\* that has one.  Does NOT hold (MCClientAliasesOnePerPath.cfg).
OneAliasPerPath ==
    \A m, n \in Names : (m # n /\ ToPath(m) # NoPath) => ToPath(m) # ToPath(n)

=============================================================================
