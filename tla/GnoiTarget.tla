----------------------------- MODULE GnoiTarget -----------------------------
(***************************************************************************)
(* The gNOI target (gnoi_target/gnoi_target.go with gnoi/gnoi.go) on top of*)
(* the certificate manager: its notifier replaces the gRPC server by one in*)
(* the other mode when credentials appear or disappear.                    *)
(*                                                                         *)
(* The notifier runs inside Manager.notify, with the read lock held, and   *)
(* GracefulStop waits for the RPCs of the server it stops.  The globals    *)
(* bootstrapping and grpcServer have no lock: every read and write of them *)
(* is a step of its own.                                                   *)
(***************************************************************************)
EXTENDS CertManager, Sequences

VARIABLES
    bootstrapping,  \* the target believes it has no credentials
    servers,        \* mode of every gRPC server made; grpcServer is the last
    registered,     \* servers with the CertificateManagement service
    stopped,        \* servers GracefulStop was called on
    listening,      \* server running in Serve, 0 if none (holds muServe)
    toServe,        \* goroutines started by "go serve()", waiting for muServe
    home,           \* server each handler runs on
    notifier,       \* where each running notifier is
    raced,          \* history: two notifiers decided to switch at a time
    fatal           \* the process ended: a service was registered twice

globals == <<bootstrapping, servers, registered>>
serving == <<stopped, listening, toServe>>
target == <<globals, serving, home, notifier, raced, fatal>>
allVars == <<vars, target>>

Modes == {"encrypted", "authenticated"}
grpcServer == Len(servers)

\* A notifier: its next step, the branch it took, the server it stops.
Running(step, auth, srv) == [at |-> step, auth |-> auth, srv |-> srv]
Waiting == Running("idle", FALSE, 0)

hasCredentials(c) == c.certs # 0 /\ c.caCerts # 0

\* main registers the notifier and calls notify(0, 0), which makes the first
\* server, an encrypted one.
TInit ==
    /\ Init
    /\ bootstrapping = TRUE
    /\ servers = <<"encrypted">>
    /\ registered = {1}
    /\ stopped = {}
    /\ listening = 0
    /\ toServe = 1
    /\ home = [p \in Procs |-> 0]
    /\ notifier = [n \in Notifiers |-> Waiting]
    /\ raced = FALSE
    /\ fatal = FALSE

-----------------------------------------------------------------------------
(* serve() *)

\* muServe is free: Serve runs the current server, or returns at once if that
\* one was stopped meanwhile.
Serve ==
    /\ listening = 0 /\ toServe > 0
    /\ toServe' = toServe - 1
    /\ listening' = IF grpcServer \in stopped THEN 0 ELSE grpcServer
    /\ UNCHANGED <<vars, globals, stopped, home, notifier, raced, fatal>>

NoRpcOn(s) == \A p \in Procs : rpc[p] # None => home[p] # s

\* Serve returns when its server was stopped and its RPCs have ended.
ServeReturn ==
    /\ listening \in stopped /\ NoRpcOn(listening)
    /\ listening' = 0
    /\ UNCHANGED <<vars, globals, stopped, toServe, home, notifier, raced, fatal>>

\* The handshake: an authenticated server takes its certificate and its CA
\* pool from TLSCertificates for every connection.
Accepts(s) ==
    servers[s] = "authenticated" => Installed # {} /\ caBundle # {}

TBegin(p, op, id) ==
    /\ listening \in registered \ stopped
    /\ Accepts(listening)
    /\ Begin(p, op, id)
    /\ home' = [home EXCEPT ![p] = listening]
    /\ UNCHANGED <<globals, serving, notifier, raced, fatal>>

THandle(p) == Handle(p) /\ UNCHANGED target

-----------------------------------------------------------------------------
(* notify(certs, caCerts), called by Manager.notify *)

Goes(n, r) == notifier' = [notifier EXCEPT ![n] = r]

Called(n) ==
    /\ NotifyBegin(n)
    /\ Goes(n, Running("test", FALSE, 0))
    /\ UNCHANGED <<globals, serving, home, raced, fatal>>

ModeWrong(n) == bootstrapping # ~hasCredentials(reader[n])

\* Between its test of bootstrapping and its assignment to it.
Switching(n) == notifier[n].at \in {"branch", "stop", "register", "toggle"}

\* The first read of bootstrapping.
Test(n) ==
    /\ notifier[n].at = "test"
    /\ Goes(n, Running(IF ModeWrong(n) THEN "branch" ELSE "done", FALSE, 0))
    /\ raced' = (raced \/ (ModeWrong(n) /\ \E m \in Notifiers : Switching(m)))
    /\ UNCHANGED <<vars, globals, serving, home, fatal>>

\* The second read of bootstrapping, and the call of GracefulStop.
Branch(n) ==
    /\ notifier[n].at = "branch"
    /\ stopped' = stopped \cup {grpcServer}
    /\ Goes(n, Running("stop", bootstrapping, grpcServer))
    /\ UNCHANGED <<vars, globals, listening, toServe, home, raced, fatal>>

\* Defect: the server is replaced without waiting for its RPCs.
StopsAtOnce(n) == notifier[n].srv \in stopped

\* GracefulStop returns.
GracefullyStopped(n) == NoRpcOn(notifier[n].srv)

\* PrepareAuthenticated or PrepareEncrypted.
Prepare(n) ==
    /\ notifier[n].at = "stop"
    /\ GracefullyStopped(n)
    /\ servers' = Append(servers, IF notifier[n].auth THEN "authenticated"
                                                      ELSE "encrypted")
    /\ Goes(n, [notifier[n] EXCEPT !.at = "register"])
    /\ UNCHANGED <<vars, bootstrapping, registered, serving, home, raced, fatal>>

\* RegCertificateManagement: a second registration ends the process.
Register(n) ==
    /\ notifier[n].at = "register"
    /\ fatal' = (grpcServer \in registered)
    /\ registered' = registered \cup {grpcServer}
    /\ Goes(n, [notifier[n] EXCEPT !.at = "toggle"])
    /\ UNCHANGED <<vars, bootstrapping, servers, serving, home, raced>>

\* Defect: the flag keeps its value.
KeepsFlag == UNCHANGED bootstrapping

TogglesFlag == bootstrapping' = ~bootstrapping

Toggle(n) ==
    /\ notifier[n].at = "toggle"
    /\ TogglesFlag
    /\ toServe' = toServe + 1
    /\ Goes(n, [notifier[n] EXCEPT !.at = "done"])
    /\ UNCHANGED <<vars, servers, registered, stopped, listening, home, raced, fatal>>

Returns(n) ==
    /\ notifier[n].at = "done"
    /\ NotifyEnd(n)
    /\ Goes(n, Waiting)
    /\ UNCHANGED <<globals, serving, home, raced, fatal>>

-----------------------------------------------------------------------------
Notify(n) ==
    Called(n) \/ Test(n) \/ Branch(n) \/ Prepare(n) \/ Register(n) \/ Toggle(n)
      \/ Returns(n)

TNext ==
    /\ ~fatal
    /\ \/ Serve
       \/ ServeReturn
       \/ \E p \in Procs, id \in CertIDs, op \in {"install", "rotate", "revoke"} :
             TBegin(p, op, id)
       \/ \E p \in Procs : THandle(p)
       \/ \E n \in Notifiers : Notify(n)

TSpec == TInit /\ [][TNext]_allVars

\* The Go scheduler runs every goroutine that can run, and clients neither
\* stall nor hold a stream open for ever.
TFairSpec ==
    /\ TSpec
    /\ WF_allVars(Serve) /\ WF_allVars(ServeReturn)
    /\ \A p \in Procs : WF_allVars(THandle(p))
    /\ \A n \in Notifiers : WF_allVars(Notify(n))

-----------------------------------------------------------------------------
(* Properties *)

\* The globals of gnoi_target.go stay within their types.
TTypeOK ==
    /\ TypeOK
    /\ bootstrapping \in BOOLEAN
    /\ servers \in Seq(Modes) /\ servers # <<>>
    /\ registered \subseteq 1..grpcServer
    /\ stopped \subseteq 1..grpcServer
    /\ listening \in 0..grpcServer
    /\ toServe \in Nat /\ raced \in BOOLEAN
    /\ home \in [Procs -> 0..grpcServer]
    /\ \A n \in Notifiers :
         /\ notifier[n].at \in {"idle", "test", "branch", "stop", "register", "toggle", "done"}
         /\ (reader[n] = None) <=> (notifier[n].at = "idle")

Quiet == pending = 0 /\ CanLock

HasCredentials == hasCredentials(CurrentCounts)

\* No update has failed half way: one that does starts no notification, and
\* leaves its ID locked with nobody to release it.
NothingHalfDone == BadPEM => LockedMeansInProgress

\* Once every notification has been handled, in whatever order the notifiers
\* ran and whatever the handlers did before and during the switches, the
\* current server is in the mode the flag says, and as long as no update failed
\* half way that is the mode the installed certificates call for.  The one
\* exception is a second notifier that tested the flag before the first had
\* changed it (notify; MCGnoiModeRace.cfg).
ModeMatchesCredentials ==
    (Quiet /\ ~raced) =>
             /\ servers[grpcServer] = IF bootstrapping THEN "encrypted" ELSE "authenticated"
             /\ NothingHalfDone => bootstrapping = ~HasCredentials

\* RPCs run on the server that is being served and on no other, whatever the
\* notifiers do (muServe); and unless two of them decided to switch at a time,
\* a switch leaves no RPC and no listener behind on a server that was replaced
\* (GracefulStop before Prepare).
NothingOnOldServers ==
    /\ \A p \in Procs : rpc[p] # None => home[p] = listening
    /\ ~raced => /\ \A p \in Procs : rpc[p] # None => home[p] = grpcServer
                 /\ listening \notin stopped => listening \in {0, grpcServer}

\* "It will (re)start the gRPC server in encrypted mode if no certs are
\* installed.  It will (re)start in authenticated mode otherwise" (notify):
\* the comment for any number of notifications at the same time.  Does NOT
\* hold (MCGnoiModeRace.cfg).
RightModeWhenQuiet ==
    (Quiet /\ ~fatal) =>
        servers[grpcServer] = IF HasCredentials THEN "authenticated" ELSE "encrypted"

\* "Once a Certificate and a CA Certificate bundle is installed via the gNOI
\* service the Target changes its connection to authenticated mode" (README of
\* gnoi_target).  Does NOT hold: the notifier waits in GracefulStop, with the
\* read lock held, for a handler that waits for the write lock
\* (MCGnoiSwitchDeadlock.cfg).
SwitchesToAuthenticated ==
    HasCredentials ~> (\/ ~HasCredentials
                       \/ listening # 0 /\ servers[listening] = "authenticated")

=============================================================================
