-------------------------- MODULE GnoiTargetProofs --------------------------
(***************************************************************************)
(* Proofs about GnoiTarget for every set of certificate IDs, handlers and  *)
(* notifiers: the target implements CertManager, and the server and its    *)
(* mode follow the credentials until two notifiers decide to switch at the *)
(* same time.                                                              *)
(***************************************************************************)
EXTENDS GnoiTarget, CertStoreProofs

NotifierState ==
    [at : {"idle", "test", "branch", "stop", "register", "toggle", "done"},
     auth : BOOLEAN, srv : Nat]

\* The mode that goes with the flag.
ModeFor(flag) == IF flag THEN "encrypted" ELSE "authenticated"

\* RPCs run on the server that is being served.
Served == \A p \in Procs : rpc[p] # None => home[p] = listening /\ listening # 0

\* One notifier switches at a time.
Exclusive == \A m, n \in Notifiers : Switching(m) /\ Switching(n) => m = n

\* The server a notifier waits for is the current one, which it has stopped.
StopsCurrent ==
    \A n \in Notifiers : notifier[n].at = "stop" =>
        notifier[n].srv = grpcServer /\ grpcServer \in stopped

\* No RPC and no listener is left on a server that was replaced.
OnCurrent ==
    /\ \A p \in Procs : rpc[p] # None => home[p] = grpcServer
    /\ listening \notin stopped => listening \in {0, grpcServer}

\* A notifier has made the new server and has not yet changed the flag.
Replaced == \E n \in Notifiers : notifier[n].at \in {"register", "toggle"}

\* The current server is in the mode of the flag, of the next one once replaced.
ServerMode ==
    servers[grpcServer] = ModeFor(IF Replaced THEN ~bootstrapping ELSE bootstrapping)

\* What a notifier has decided, and the flag on the way there.
Decided(n) ==
    LET creds == hasCredentials(reader[n])
    IN  /\ Switching(n) => bootstrapping = creds
        /\ notifier[n].at = "stop" => notifier[n].auth = bootstrapping
        /\ notifier[n].at = "done" => bootstrapping = ~creds

\* With no notifier running the flag is right, or a notification is on its way,
\* or an update failed half way.
SettledMode ==
    (\A n \in Notifiers : notifier[n].at = "idle") =>
        (NothingHalfDone => pending > 0 \/ bootstrapping = ~HasCredentials)

\* The inductive invariants, of the types, of the servers and of the mode.
TypeInv ==
    /\ TTypeOK
    /\ notifier \in [Notifiers -> NotifierState]

ServerInv ==
    /\ TypeInv
    /\ Served
    /\ ~raced => Exclusive /\ StopsCurrent /\ OnCurrent

ModeInv ==
    ~raced => /\ ServerMode
              /\ SettledMode
              /\ \A n \in Notifiers : Decided(n)

-----------------------------------------------------------------------------
\* The steps of the target are steps of the handlers and notify goroutines of
\* CertManager, or none.
LEMMA TargetStep == [TNext]_allVars => [Next]_vars
<1> SUFFICES ASSUME [TNext]_allVars PROVE [Next]_vars
  OBVIOUS
<1>1. ASSUME NEW n \in Notifiers, Notify(n)
      PROVE  NotifyBegin(n) \/ NotifyEnd(n) \/ UNCHANGED vars
  BY <1>1 DEF Notify, Called, Test, Branch, Prepare, Register, Toggle, Returns
<1>2. CASE Serve \/ ServeReturn \/ UNCHANGED allVars
  BY <1>2 DEF Serve, ServeReturn, allVars
<1>3. CASE \E p \in Procs, id \in CertIDs, op \in {"install", "rotate", "revoke"} :
              TBegin(p, op, id)
  BY <1>3 DEF TBegin, Next
<1>4. CASE \E p \in Procs : THandle(p)
  BY <1>4 DEF THandle, Next
<1> QED
  BY <1>1, <1>2, <1>3, <1>4 DEF TNext, Next

\* A notifier takes a step.
LEMMA Moves ==
    ASSUME TypeInv, NEW n \in Notifiers, NEW r \in NotifierState, Goes(n, r)
    PROVE  /\ notifier' \in [Notifiers -> NotifierState]
           /\ notifier'[n] = r
           /\ \A m \in Notifiers \ {n} : notifier'[m] = notifier[m]
  BY DEF TypeInv, Goes

\* A new server becomes the current one.
LEMMA NewServer ==
    ASSUME TypeInv, NEW mode \in Modes, servers' = Append(servers, mode)
    PROVE  /\ servers' \in Seq(Modes) /\ servers' # <<>>
           /\ grpcServer \in Nat /\ grpcServer' = grpcServer + 1
           /\ servers'[grpcServer'] = mode
<1>1. servers \in Seq(Modes)
  BY DEF TypeInv, TTypeOK
<1> QED
  BY <1>1 DEF grpcServer

\* There is a current server.
LEMMA CurrentServer ==
    ASSUME TypeInv
    PROVE  grpcServer \in Nat \ {0} /\ grpcServer \in 1..grpcServer
<1>1. servers \in Seq(Modes) /\ servers # <<>>
  BY DEF TypeInv, TTypeOK
<1> QED
  BY <1>1 DEF grpcServer

\* The types, but for what a step does to the notifiers.
GlobalTypes ==
    /\ bootstrapping \in BOOLEAN
    /\ servers \in Seq(Modes) /\ servers # <<>>
    /\ registered \subseteq 1..grpcServer
    /\ stopped \subseteq 1..grpcServer
    /\ listening \in 0..grpcServer
    /\ toServe \in Nat /\ raced \in BOOLEAN
    /\ home \in [Procs -> 0..grpcServer]

\* Every step keeps the types.
LEMMA StepTypeInv == IInv /\ TypeInv /\ [TNext]_allVars => TypeInv'
<1> SUFFICES ASSUME IInv, TypeInv, [TNext]_allVars PROVE TypeInv'
  OBVIOUS
<1> USE CertAssumption
<1>0. IInv' /\ TypeOK'
  BY TargetStep, StepIInv DEF IInv
<1>1. grpcServer \in Nat \ {0} /\ grpcServer \in 1..grpcServer
  BY CurrentServer
<1>2. GlobalTypes /\ notifier \in [Notifiers -> NotifierState]
      /\ \A n \in Notifiers : (reader[n] = None) <=> (notifier[n].at = "idle")
  BY DEF TypeInv, TTypeOK, GlobalTypes
<1>3. ASSUME GlobalTypes', notifier' \in [Notifiers -> NotifierState],
             \A n \in Notifiers : (reader'[n] = None) <=> (notifier'[n].at = "idle")
      PROVE  TypeInv'
  BY <1>0, <1>3 DEF GlobalTypes, TypeInv, TTypeOK, NotifierState
<1>4. CASE UNCHANGED allVars
  BY <1>2, <1>3, <1>4 DEF allVars, target, globals, serving, vars, notifying, GlobalTypes,
                          grpcServer
<1>5. CASE Serve \/ ServeReturn
  <2>1. UNCHANGED <<servers, bootstrapping, registered, stopped, home, raced, notifier, reader>>
    BY <1>5 DEF Serve, ServeReturn, globals, vars, notifying
  <2>2. listening' \in 0..grpcServer /\ toServe' \in Nat
    BY <1>1, <1>2, <1>5 DEF Serve, ServeReturn, GlobalTypes
  <2> QED
    BY <1>2, <1>3, <2>1, <2>2 DEF GlobalTypes, grpcServer
<1>6. ASSUME NEW p \in Procs, NEW id \in CertIDs, NEW op \in {"install", "rotate", "revoke"},
             TBegin(p, op, id)
      PROVE  TypeInv'
  <2>1. /\ UNCHANGED <<servers, bootstrapping, registered, stopped, listening, toServe, raced,
                       notifier, reader>>
        /\ home' = [home EXCEPT ![p] = listening]
    BY <1>6 DEF TBegin, Begin, globals, serving, notifying
  <2> QED
    BY <1>2, <1>3, <2>1 DEF GlobalTypes, grpcServer
<1>7. ASSUME NEW p \in Procs, THandle(p) PROVE TypeInv'
  <2>1. reader' = reader
    BY <1>7 DEF THandle, Handle, Abandon, updateRefused, updateBadCert, updateBadBundle, update,
         InstallAccept, InstallReply, RotateRespond, RotateSendFails, RotateAccept,
         RotateBack, Revoke, notifying
  <2>2. UNCHANGED <<servers, bootstrapping, registered, stopped, listening, toServe, home, raced,
                 notifier>>
    BY <1>7 DEF THandle, target, globals, serving
  <2> QED
    BY <1>2, <1>3, <2>1, <2>2 DEF GlobalTypes, grpcServer
<1>8. ASSUME NEW n \in Notifiers, Called(n) \/ Returns(n) PROVE TypeInv'
  <2>1. UNCHANGED <<servers, bootstrapping, registered, stopped, listening, toServe, home, raced>>
    BY <1>8 DEF Called, Returns, globals, serving
  <2>2. CASE Called(n)
    <3>1. reader' = [reader EXCEPT ![n] = CurrentCounts] /\ CurrentCounts # None
      BY <2>2, CountsType DEF Called, NotifyBegin, IInv
    <3>2. /\ notifier' \in [Notifiers -> NotifierState] /\ notifier'[n].at = "test"
          /\ \A m \in Notifiers \ {n} : notifier'[m] = notifier[m]
      <4> DEFINE r == Running("test", FALSE, 0)
      <4>1. Goes(n, r) /\ r \in NotifierState /\ r.at = "test"
        BY <2>2 DEF Called, Running, NotifierState
      <4> QED
        BY <4>1, Moves
    <3> QED
      BY <1>2, <1>3, <2>1, <3>1, <3>2 DEF GlobalTypes, grpcServer, IInv, TypeOK
  <2>3. CASE Returns(n)
    <3>1. reader' = [reader EXCEPT ![n] = None]
      BY <2>3 DEF Returns, NotifyEnd
    <3>2. /\ notifier' \in [Notifiers -> NotifierState] /\ notifier'[n].at = "idle"
          /\ \A m \in Notifiers \ {n} : notifier'[m] = notifier[m]
      <4>1. Goes(n, Waiting) /\ Waiting \in NotifierState /\ Waiting.at = "idle"
        BY <2>3 DEF Returns, Running, Waiting, NotifierState
      <4> QED
        BY <4>1, Moves
    <3> QED
      BY <1>2, <1>3, <2>1, <3>1, <3>2 DEF GlobalTypes, grpcServer, IInv, TypeOK
  <2> QED
    BY <1>8, <2>2, <2>3
<1>9. ASSUME NEW n \in Notifiers,
             Test(n) \/ Branch(n) \/ Prepare(n) \/ Register(n) \/ Toggle(n)
      PROVE  TypeInv'
  <2>1. reader' = reader
    BY <1>9 DEF Test, Branch, Prepare, Register, Toggle, vars, notifying
  <2>2. notifier[n].at # "idle"
    BY <1>9 DEF Test, Branch, Prepare, Register, Toggle
  <2>3. /\ notifier' \in [Notifiers -> NotifierState] /\ notifier'[n].at # "idle"
        /\ \A m \in Notifiers \ {n} : notifier'[m] = notifier[m]
    <3>1. CASE Test(n)
      <4> DEFINE r == Running(IF ModeWrong(n) THEN "branch" ELSE "done", FALSE, 0)
      <4>1. Goes(n, r) /\ r \in NotifierState /\ r.at # "idle"
        BY <3>1 DEF Test, Running, NotifierState
      <4> QED
        BY <4>1, Moves
    <3>2. CASE Branch(n)
      <4> DEFINE r == Running("stop", bootstrapping, grpcServer)
      <4>1. Goes(n, r)
        BY <3>2 DEF Branch
      <4>2. r \in NotifierState /\ r.at # "idle"
        BY <1>1, <1>2 DEF Running, NotifierState, GlobalTypes
      <4> QED
        BY <4>1, <4>2, Moves
    <3>3. CASE Prepare(n) \/ Register(n) \/ Toggle(n)
      <4>1. PICK at \in {"register", "toggle", "done"} : Goes(n, [notifier[n] EXCEPT !.at = at])
        BY <3>3 DEF Prepare, Register, Toggle
      <4> DEFINE r == [notifier[n] EXCEPT !.at = at]
      <4>2. notifier[n] \in NotifierState
        BY <1>2
      <4>3. r \in NotifierState /\ r.at # "idle"
        BY <4>2 DEF NotifierState
      <4> QED
        BY <4>1, <4>3, Moves
    <3> QED
      BY <1>9, <3>1, <3>2, <3>3
  <2>4. GlobalTypes'
    <3>1. CASE Prepare(n)
      <4>1. PICK mode \in Modes : servers' = Append(servers, mode)
        BY <3>1 DEF Prepare, Modes
      <4>2. /\ servers' \in Seq(Modes) /\ servers' # <<>>
            /\ grpcServer' = grpcServer + 1
        BY <4>1, NewServer
      <4>3. UNCHANGED <<bootstrapping, registered, stopped, listening, toServe, home, raced>>
        BY <3>1 DEF Prepare, serving
      <4> QED
        BY <1>1, <1>2, <4>2, <4>3 DEF GlobalTypes
    <3>2. CASE Register(n)
      BY <1>1, <1>2, <3>2 DEF Register, GlobalTypes, serving, grpcServer
    <3>3. CASE Toggle(n)
      BY <1>2, <3>3 DEF Toggle, TogglesFlag, GlobalTypes, grpcServer
    <3>4. CASE Branch(n)
      BY <1>1, <1>2, <3>4 DEF Branch, globals, GlobalTypes, grpcServer
    <3>5. CASE Test(n)
      BY <1>2, <3>5 DEF Test, globals, serving, GlobalTypes, grpcServer
    <3> QED
      BY <1>9, <3>1, <3>2, <3>3, <3>4, <3>5
  <2> QED
    BY <1>2, <1>3, <2>1, <2>2, <2>3, <2>4
<1> QED
  BY <1>4, <1>5, <1>6, <1>7, <1>8, <1>9 DEF TNext, Notify

-----------------------------------------------------------------------------
\* A step of a handler opens no RPC, and changes what the notifiers count only
\* when none of them runs and with a notification to follow, unless an update
\* fails half way.
LEMMA HandlerStep ==
    ASSUME TypeOK, NEW p \in Procs, Handle(p)
    PROVE  /\ \A q \in Procs : rpc'[q] # None => rpc[q] # None
           /\ \/ pending' = pending + 1
              \/ UNCHANGED <<certInfo, caBundle, pending>>
              \/ updateBadCert(p) \/ \E c \in Certs : updateBadBundle(p, c)
<1>1. rpc[p] # None
  BY DEF Handle, Abandon, updateRefused, updateBadCert, updateBadBundle, update, InstallAccept,
         InstallReply, RotateRespond, RotateSendFails, RotateAccept, RotateBack, Revoke,
         Calls, At
<1>2. \A q \in Procs \ {p} : rpc'[q] = rpc[q]
  BY DEF TypeOK, Handle, Abandon, updateRefused, updateBadCert, updateBadBundle, update,
         InstallAccept, InstallReply, RotateRespond, RotateSendFails, RotateAccept,
         RotateBack, Revoke, Return, Goto
<1>3. \/ pending' = pending + 1 \/ UNCHANGED <<certInfo, caBundle, pending>>
      \/ updateBadCert(p) \/ \E c \in Certs : updateBadBundle(p, c)
  BY DEF Handle, Abandon, updateRefused, update,
         InstallAccept, InstallReply, RotateRespond, RotateSendFails, RotateAccept,
         RotateBack, Revoke, GoNotify, manager, notifying
<1> QED
  BY <1>1, <1>2, <1>3

\* A race, once it has happened, stays on record.
LEMMA RacedStays == [TNext]_allVars => (raced => raced')
<1> SUFFICES ASSUME [TNext]_allVars, raced PROVE raced'
  OBVIOUS
<1>1. CASE Serve \/ ServeReturn \/ UNCHANGED allVars
  BY <1>1 DEF Serve, ServeReturn, allVars, target
<1>2. CASE \E p \in Procs, id \in CertIDs, op \in {"install", "rotate", "revoke"} :
              TBegin(p, op, id)
  BY <1>2 DEF TBegin
<1>3. CASE \E p \in Procs : THandle(p)
  BY <1>3 DEF THandle, target
<1>4. ASSUME NEW n \in Notifiers, Notify(n) PROVE raced'
  BY <1>4 DEF Notify, Called, Test, Branch, Prepare, Register, Toggle, Returns
<1> QED
  BY <1>1, <1>2, <1>3, <1>4 DEF TNext

\* Where a step of a notifier takes it, and that the others stay.
LEMMA Steps ==
    ASSUME TypeInv, NEW n \in Notifiers
    PROVE  /\ Called(n) => notifier[n].at = "idle" /\ notifier'[n].at = "test"
           /\ Test(n) => /\ notifier[n].at = "test"
                         /\ \/ notifier'[n].at = "branch" /\ ModeWrong(n)
                            \/ notifier'[n].at = "done" /\ ~ModeWrong(n)
           /\ Branch(n) => /\ notifier[n].at = "branch" /\ notifier'[n].at = "stop"
                           /\ notifier'[n].auth = bootstrapping
                           /\ notifier'[n].srv = grpcServer
           /\ Prepare(n) => notifier[n].at = "stop" /\ notifier'[n].at = "register"
           /\ Register(n) => notifier[n].at = "register" /\ notifier'[n].at = "toggle"
           /\ Toggle(n) => notifier[n].at = "toggle" /\ notifier'[n].at = "done"
           /\ Returns(n) => notifier[n].at = "done" /\ notifier'[n].at = "idle"
           /\ Notify(n) => \A m \in Notifiers \ {n} : notifier'[m] = notifier[m]
<1>0. notifier \in [Notifiers -> NotifierState] /\ notifier[n] \in NotifierState
      /\ ((reader[n] = None) <=> (notifier[n].at = "idle"))
  BY DEF TypeInv, TTypeOK
<1>1. Called(n) => notifier[n].at = "idle" /\ notifier'[n].at = "test"
  BY <1>0 DEF Called, NotifyBegin, Goes, Running
<1>2. Test(n) => /\ notifier[n].at = "test"
                 /\ \/ notifier'[n].at = "branch" /\ ModeWrong(n)
                    \/ notifier'[n].at = "done" /\ ~ModeWrong(n)
  BY <1>0 DEF Test, Goes, Running
<1>3. Branch(n) => /\ notifier[n].at = "branch" /\ notifier'[n].at = "stop"
                   /\ notifier'[n].auth = bootstrapping /\ notifier'[n].srv = grpcServer
  BY <1>0 DEF Branch, Goes, Running
<1>4. Prepare(n) => notifier[n].at = "stop" /\ notifier'[n].at = "register"
  BY <1>0 DEF Prepare, Goes, NotifierState
<1>5. Register(n) => notifier[n].at = "register" /\ notifier'[n].at = "toggle"
  BY <1>0 DEF Register, Goes, NotifierState
<1>6. Toggle(n) => notifier[n].at = "toggle" /\ notifier'[n].at = "done"
  BY <1>0 DEF Toggle, Goes, NotifierState
<1>7. Returns(n) => notifier[n].at = "done" /\ notifier'[n].at = "idle"
  BY <1>0 DEF Returns, Goes, Waiting, Running
<1>8. ASSUME Notify(n) PROVE \A m \in Notifiers \ {n} : notifier'[m] = notifier[m]
  <2>1. PICK r : Goes(n, r)
    BY <1>8 DEF Notify, Called, Test, Branch, Prepare, Register, Toggle, Returns
  <2> QED
    BY <1>0, <2>1 DEF Goes
<1> QED
  BY <1>1, <1>2, <1>3, <1>4, <1>5, <1>6, <1>7, <1>8

\* Unless it is recorded as a race, no step lets a second notifier switch.
LEMMA StepExclusive ==
    ASSUME TypeInv, ~raced => Exclusive, [TNext]_allVars, ~raced'
    PROVE  Exclusive'
<1>0. ~raced /\ Exclusive
  BY RacedStays
<1>1. CASE UNCHANGED notifier
  BY <1>0, <1>1 DEF Exclusive, Switching
<1>2. ASSUME NEW n \in Notifiers, Notify(n) PROVE Exclusive'
  <2>1. \A m \in Notifiers \ {n} : Switching(m)' <=> Switching(m)
    BY <1>2, Steps DEF Switching
  <2>2. CASE Switching(n) \/ ~Switching(n)'
    BY <1>0, <2>1, <2>2 DEF Exclusive
  <2>3. CASE ~Switching(n) /\ Switching(n)'
    <3>1. Test(n) /\ ModeWrong(n)
      BY <1>2, <2>3, Steps DEF Notify, Switching
    <3>2. \A m \in Notifiers : ~Switching(m)
      BY <3>1 DEF Test
    <3> QED
      BY <2>1, <3>2 DEF Exclusive
  <2> QED
    BY <2>2, <2>3
<1> QED
  BY <1>1, <1>2 DEF TNext, Serve, ServeReturn, TBegin, THandle, allVars, target

\* Every step leaves the RPCs on the server that is served, and unless two
\* notifiers raced on the current one, and the listener too.
LEMMA StepServerInv ==
    ASSUME IInv, ServerInv, [TNext]_allVars
    PROVE  ServerInv'
<1> USE CertAssumption
<1> DEFINE Tidy == StopsCurrent /\ OnCurrent
<1>0. TypeInv /\ Served /\ TypeOK /\ TypeInv' /\ (~raced' => ~raced /\ Exclusive /\ Tidy)
  BY StepTypeInv, RacedStays DEF ServerInv, IInv
<1>1. grpcServer \in Nat \ {0} /\ stopped \subseteq 1..grpcServer /\ registered \subseteq 1..grpcServer
      /\ listening \in 0..grpcServer /\ home \in [Procs -> 0..grpcServer]
  BY <1>0, CurrentServer DEF TypeInv, TTypeOK
<1>2. ASSUME Served', ~raced' => Tidy' PROVE ServerInv'
  BY <1>0, <1>2, StepExclusive DEF ServerInv
<1>3. ASSUME \A p \in Procs : rpc'[p] # None => rpc[p] # None,
             UNCHANGED <<home, servers, stopped, listening, notifier>>
      PROVE  ServerInv'
  <2>1. Served' /\ (Tidy => Tidy')
    BY <1>0, <1>3 DEF Served, StopsCurrent, OnCurrent, grpcServer
  <2> QED
    BY <1>0, <1>2, <2>1
<1>4. CASE UNCHANGED allVars
  BY <1>3, <1>4 DEF allVars, vars, target, serving, globals
<1>5. CASE Serve \/ ServeReturn
  <2>1. /\ UNCHANGED <<rpc, home, servers, stopped, notifier>>
        /\ listening' \in {0, grpcServer}
    BY <1>5 DEF Serve, ServeReturn, vars, globals
  <2>2. \A p \in Procs : rpc[p] = None
    <3>1. CASE Serve
      BY <1>0, <3>1 DEF Serve, Served
    <3>2. CASE ServeReturn
      BY <1>0, <3>2 DEF ServeReturn, Served, NoRpcOn
    <3> QED
      BY <1>5, <3>1, <3>2
  <2>3. Served' /\ OnCurrent' /\ (Tidy => StopsCurrent')
    BY <2>1, <2>2 DEF Served, StopsCurrent, OnCurrent, grpcServer
  <2> QED
    BY <1>0, <1>2, <2>3
<1>6. ASSUME NEW p \in Procs, NEW id \in CertIDs, NEW op \in {"install", "rotate", "revoke"},
             TBegin(p, op, id)
      PROVE  ServerInv'
  <2>1. /\ UNCHANGED <<servers, stopped, listening, notifier>>
        /\ listening \in registered \ stopped /\ home' = [home EXCEPT ![p] = listening]
        /\ \A q \in Procs \ {p} : rpc'[q] = rpc[q]
    BY <1>0, <1>6 DEF TBegin, Begin, globals, serving, TypeOK
  <2>2. Served'
    BY <1>0, <1>1, <2>1 DEF Served
  <2>3. ASSUME Tidy PROVE Tidy'
    <3>1. listening = grpcServer
      BY <1>1, <2>1, <2>3 DEF OnCurrent
    <3>2. \A q \in Procs : rpc'[q] # None => home'[q] = grpcServer'
      BY <1>1, <2>1, <2>3, <3>1 DEF OnCurrent, grpcServer
    <3> QED
      BY <2>1, <2>3, <3>2 DEF StopsCurrent, OnCurrent, grpcServer
  <2> QED
    BY <1>0, <1>2, <2>2, <2>3
<1>7. ASSUME NEW p \in Procs, THandle(p) PROVE ServerInv'
  BY <1>0, <1>3, <1>7, HandlerStep DEF THandle, target, globals, serving
<1>8. ASSUME NEW n \in Notifiers, Notify(n) PROVE ServerInv'
  <2>1. UNCHANGED <<rpc, home, listening>>
    BY <1>8 DEF Notify, Called, Test, Branch, Prepare, Register, Toggle, Returns, NotifyBegin,
                NotifyEnd, vars, globals, serving
  <2>2. Served'
    BY <1>0, <2>1 DEF Served
  <2>3. \A m \in Notifiers \ {n} : notifier'[m] = notifier[m]
    BY <1>0, <1>8, Steps
  <2>4. ASSUME ~raced' PROVE Tidy'
    <3>0. Exclusive /\ StopsCurrent /\ OnCurrent
      BY <1>0, <2>4
    <3>1. CASE Called(n) \/ Test(n) \/ Register(n) \/ Toggle(n) \/ Returns(n)
      <4>1. UNCHANGED <<servers, stopped>>
        BY <3>1 DEF Called, Test, Register, Toggle, Returns, globals, serving
      <4>2. notifier'[n].at # "stop"
        BY <1>0, <3>1, Steps
      <4> QED
        BY <2>1, <2>3, <3>0, <4>1, <4>2 DEF StopsCurrent, OnCurrent, grpcServer
    <3>2. CASE Branch(n)
      <4>1. UNCHANGED servers /\ stopped' = stopped \cup {grpcServer}
        BY <3>2 DEF Branch, globals
      <4>2. notifier'[n].srv = grpcServer
        BY <1>0, <3>2, Steps
      <4> QED
        BY <2>1, <2>3, <3>0, <4>1, <4>2 DEF StopsCurrent, OnCurrent, grpcServer
    <3>3. CASE Prepare(n)
      <4>1. notifier[n].at = "stop" /\ notifier'[n].at = "register"
        BY <1>0, <3>3, Steps
      <4>2. NoRpcOn(notifier[n].srv) /\ UNCHANGED stopped
        BY <3>3 DEF Prepare, GracefullyStopped, serving
      <4>3. notifier[n].srv = grpcServer /\ grpcServer \in stopped
        BY <3>0, <4>1 DEF StopsCurrent
      <4>4. \A p \in Procs : rpc[p] = None
        BY <3>0, <4>2, <4>3 DEF NoRpcOn, OnCurrent
      <4>5. listening \notin stopped => listening = 0
        BY <3>0, <4>3 DEF OnCurrent
      <4>6. \A m \in Notifiers : notifier'[m].at # "stop"
        BY <2>3, <3>0, <4>1 DEF Exclusive, Switching
      <4> QED
        BY <2>1, <4>2, <4>4, <4>5, <4>6 DEF StopsCurrent, OnCurrent
    <3> QED
      BY <1>8, <3>1, <3>2, <3>3 DEF Notify
  <2> QED
    BY <1>2, <2>2, <2>4
<1> QED
  BY <1>4, <1>5, <1>6, <1>7, <1>8 DEF TNext

-----------------------------------------------------------------------------
\* Every step keeps the flag, the mode of the server and what the notifiers
\* have decided in line, unless two of them raced.
LEMMA StepModeInv ==
    ASSUME IInv, ServerInv, NotifierCountsCurrent, ModeInv, [TNext]_allVars
    PROVE  ModeInv'
<1> USE CertAssumption
<1> SUFFICES ASSUME ~raced' PROVE ServerMode' /\ SettledMode' /\ \A n \in Notifiers : Decided(n)'
  BY DEF ModeInv
<1>0. /\ TypeInv /\ notifier \in [Notifiers -> NotifierState]
      /\ bootstrapping \in BOOLEAN /\ pending \in Nat
      /\ \A n \in Notifiers : (reader[n] = None) <=> (notifier[n].at = "idle")
  BY DEF ServerInv, TypeInv, TTypeOK, IInv, TypeOK
<1>1. ServerMode /\ SettledMode /\ Exclusive /\ \A n \in Notifiers : Decided(n)
  BY RacedStays DEF ModeInv, ServerInv
<1>2. NothingHalfDone' => NothingHalfDone
  <2>1. [Next]_vars
    BY TargetStep
  <2>2. LockedMeansInProgress' => LockedMeansInProgress
    BY <2>1, OrphanedLockStays
  <2> QED
    BY <2>2 DEF NothingHalfDone
<1>3. UNCHANGED <<certInfo, caBundle>> => HasCredentials' = HasCredentials
  BY DEF HasCredentials, CurrentCounts, Installed
<1>4. ASSUME UNCHANGED <<bootstrapping, servers, notifier, reader>>,
             NothingHalfDone' => pending' > 0 \/ UNCHANGED <<certInfo, caBundle, pending>>
      PROVE  ServerMode' /\ SettledMode' /\ \A n \in Notifiers : Decided(n)'
  <2>1. \A n \in Notifiers : Decided(n)'
    BY <1>1, <1>4 DEF Decided, Switching
  <2>2. ServerMode'
    BY <1>1, <1>4 DEF ServerMode, Replaced, grpcServer
  <2>3. ASSUME \A n \in Notifiers : notifier[n].at = "idle", NothingHalfDone', ~(pending' > 0)
        PROVE  bootstrapping' = ~HasCredentials'
    <3>1. UNCHANGED <<certInfo, caBundle, pending>> /\ NothingHalfDone
      BY <1>2, <1>4, <2>3
    <3>2. bootstrapping = ~HasCredentials
      BY <1>1, <2>3, <3>1 DEF SettledMode
    <3> QED
      BY <1>3, <1>4, <3>1, <3>2
  <2>4. SettledMode'
    BY <1>4, <2>3 DEF SettledMode
  <2> QED
    BY <2>1, <2>2, <2>4
<1>5. CASE Serve \/ ServeReturn \/ UNCHANGED allVars
  BY <1>4, <1>5 DEF Serve, ServeReturn, allVars, vars, manager, notifying, target, globals
<1>6. ASSUME NEW p \in Procs, NEW id \in CertIDs, NEW op \in {"install", "rotate", "revoke"},
             TBegin(p, op, id)
      PROVE  ServerMode' /\ SettledMode' /\ \A n \in Notifiers : Decided(n)'
  BY <1>4, <1>6 DEF TBegin, Begin, manager, notifying, globals
<1>7. ASSUME NEW p \in Procs, THandle(p)
      PROVE  ServerMode' /\ SettledMode' /\ \A n \in Notifiers : Decided(n)'
  <2>1. UNCHANGED <<bootstrapping, servers, notifier>> /\ Handle(p)
    BY <1>7 DEF THandle, target, globals
  <2>2. reader' = reader
    BY <2>1 DEF Handle, Abandon, updateRefused, updateBadCert, updateBadBundle, update,
         InstallAccept, InstallReply, RotateRespond, RotateSendFails, RotateAccept,
         RotateBack, Revoke, notifying
  <2>3. \/ pending' = pending + 1 \/ UNCHANGED <<certInfo, caBundle, pending>>
        \/ updateBadCert(p) \/ \E c \in Certs : updateBadBundle(p, c)
    BY <2>1, HandlerStep DEF IInv
  <2>4. ASSUME updateBadCert(p) \/ \E c \in Certs : updateBadBundle(p, c)
        PROVE  ~NothingHalfDone'
    <3>1. ~LockedMeansInProgress'
      BY <2>4, FailedUpdateOrphansLock
    <3>2. BadPEM
      BY <2>4 DEF updateBadCert, updateBadBundle
    <3> QED
      BY <3>1, <3>2 DEF NothingHalfDone
  <2>5. NothingHalfDone' => pending' > 0 \/ UNCHANGED <<certInfo, caBundle, pending>>
    BY <1>0, <2>3, <2>4
  <2> QED
    BY <1>4, <2>1, <2>2, <2>5
<1>8. ASSUME NEW n \in Notifiers, Notify(n)
      PROVE  ServerMode' /\ SettledMode' /\ \A m \in Notifiers : Decided(m)'
  <2>1. \A m \in Notifiers \ {n} : notifier'[m] = notifier[m]
    BY <1>0, <1>8, Steps
  <2>2. \A m \in Notifiers \ {n} : reader'[m] = reader[m]
    BY <1>8 DEF Notify, Called, Test, Branch, Prepare, Register, Toggle, Returns, NotifyBegin,
                NotifyEnd, vars, notifying, IInv, TypeOK
  <2>3. UNCHANGED <<certInfo, caBundle>>
    BY <1>8 DEF Notify, Called, Test, Branch, Prepare, Register, Toggle, Returns, NotifyBegin,
                NotifyEnd, vars, manager
  <2>4. ASSUME notifier'[n].at # "idle", UNCHANGED bootstrapping, Decided(n)', ServerMode'
        PROVE  ServerMode' /\ SettledMode' /\ \A m \in Notifiers : Decided(m)'
    <3>1. \A m \in Notifiers \ {n} : Decided(m)'
      BY <1>1, <2>1, <2>2, <2>4 DEF Decided, Switching
    <3> QED
      BY <2>4, <3>1 DEF SettledMode
  <2>5. hasCredentials(reader[n]) \in BOOLEAN
    BY DEF hasCredentials
  <2>6. \A m \in Notifiers \ {n} :
          notifier'[m].at \in {"register", "toggle"} <=> notifier[m].at \in {"register", "toggle"}
    BY <2>1
  <2>7. CASE Called(n)
    <3>1. notifier[n].at = "idle" /\ notifier'[n].at = "test"
      BY <1>0, <2>7, Steps
    <3>2. UNCHANGED <<bootstrapping, servers>>
      BY <2>7 DEF Called, globals
    <3>3. Replaced' <=> Replaced
      BY <2>6, <3>1 DEF Replaced
    <3>4. ServerMode' /\ Decided(n)'
      BY <1>1, <3>1, <3>2, <3>3 DEF ServerMode, Decided, Switching, grpcServer
    <3> QED
      BY <2>4, <3>1, <3>2, <3>4
  <2>8. CASE Test(n)
    <3>1. UNCHANGED <<bootstrapping, servers, reader>>
      BY <2>8 DEF Test, globals, vars, notifying
    <3>2. /\ notifier[n].at = "test"
          /\ \/ notifier'[n].at = "branch" /\ ModeWrong(n)
             \/ notifier'[n].at = "done" /\ ~ModeWrong(n)
      BY <1>0, <2>8, Steps
    <3>3. ModeWrong(n) <=> bootstrapping = hasCredentials(reader[n])
      BY <1>0, <2>5 DEF ModeWrong
    <3>4. ~ModeWrong(n) <=> bootstrapping = ~hasCredentials(reader[n])
      BY DEF ModeWrong
    <3>5. Replaced' <=> Replaced
      BY <2>6, <3>2 DEF Replaced
    <3>6. ServerMode'
      BY <1>1, <3>1, <3>5 DEF ServerMode, grpcServer
    <3>7. Decided(n)'
      BY <3>1, <3>2, <3>3, <3>4 DEF Decided, Switching
    <3> QED
      BY <2>4, <3>1, <3>2, <3>6, <3>7
  <2>9. CASE Branch(n)
    <3>1. UNCHANGED <<bootstrapping, servers, reader>>
      BY <2>9 DEF Branch, globals, vars, notifying
    <3>2. notifier[n].at = "branch" /\ notifier'[n].at = "stop" /\ notifier'[n].auth = bootstrapping
      BY <1>0, <2>9, Steps
    <3>3. Replaced' <=> Replaced
      BY <2>6, <3>2 DEF Replaced
    <3>4. ServerMode' /\ Decided(n)'
      BY <1>1, <3>1, <3>2, <3>3 DEF ServerMode, Decided, Switching, grpcServer
    <3> QED
      BY <2>4, <3>1, <3>2, <3>4
  <2>10. CASE Prepare(n)
    <3> DEFINE mode == IF notifier[n].auth THEN "authenticated" ELSE "encrypted"
    <3>1. UNCHANGED <<bootstrapping, reader>> /\ servers' = Append(servers, mode)
      BY <2>10 DEF Prepare, vars, notifying
    <3>2. notifier[n].at = "stop" /\ notifier'[n].at = "register"
      BY <1>0, <2>10, Steps
    <3>3. notifier[n].auth = bootstrapping /\ bootstrapping = hasCredentials(reader[n])
      BY <1>1, <3>2 DEF Decided, Switching
    <3>4. mode \in Modes /\ mode = ModeFor(~bootstrapping)
      BY <1>0, <3>3 DEF Modes, ModeFor
    <3>5. servers'[grpcServer'] = ModeFor(~bootstrapping)
      BY <1>0, <3>1, <3>4, NewServer
    <3>6. Replaced'
      BY <3>2 DEF Replaced
    <3>7. ServerMode' /\ Decided(n)'
      BY <3>1, <3>2, <3>3, <3>5, <3>6 DEF ServerMode, Decided, Switching
    <3> QED
      BY <2>4, <3>1, <3>2, <3>7
  <2>11. CASE Register(n)
    <3>1. UNCHANGED <<bootstrapping, servers, reader>>
      BY <2>11 DEF Register, vars, notifying
    <3>2. notifier[n].at = "register" /\ notifier'[n].at = "toggle"
      BY <1>0, <2>11, Steps
    <3>3. Replaced' /\ Replaced
      BY <3>2 DEF Replaced
    <3>4. ServerMode' /\ Decided(n)'
      BY <1>1, <3>1, <3>2, <3>3 DEF ServerMode, Decided, Switching, grpcServer
    <3> QED
      BY <2>4, <3>1, <3>2, <3>4
  <2>12. CASE Toggle(n)
    <3>1. UNCHANGED <<servers, reader>> /\ bootstrapping' = ~bootstrapping
      BY <2>12 DEF Toggle, TogglesFlag, vars, notifying
    <3>2. notifier[n].at = "toggle" /\ notifier'[n].at = "done"
      BY <1>0, <2>12, Steps
    <3>3. bootstrapping = hasCredentials(reader[n]) /\ Replaced
      BY <1>1, <3>2 DEF Decided, Switching, Replaced
    <3>4. \A m \in Notifiers \ {n} : ~Switching(m)
      BY <1>1, <3>2 DEF Exclusive, Switching
    <3>5. \A m \in Notifiers \ {n} : notifier[m].at # "done"
      <4> SUFFICES ASSUME NEW m \in Notifiers \ {n}, notifier[m].at = "done" PROVE FALSE
        OBVIOUS
      <4>1. reader[m] # None /\ reader[n] # None
        BY <1>0, <3>2
      <4>2. reader[m] = reader[n]
        BY <4>1 DEF NotifierCountsCurrent
      <4>3. bootstrapping = ~hasCredentials(reader[m])
        BY <1>1 DEF Decided
      <4> QED
        BY <2>5, <3>3, <4>2, <4>3
    <3>6. ~Replaced'
      BY <2>1, <3>2, <3>4 DEF Replaced, Switching
    <3>7. ServerMode'
      BY <1>1, <3>1, <3>3, <3>6 DEF ServerMode, grpcServer
    <3>8. Decided(n)'
      BY <3>1, <3>2, <3>3 DEF Decided, Switching
    <3>9. \A m \in Notifiers \ {n} : Decided(m)'
      BY <2>1, <3>4, <3>5 DEF Decided, Switching
    <3>10. SettledMode'
      BY <3>2 DEF SettledMode
    <3> QED
      BY <3>7, <3>8, <3>9, <3>10
  <2>13. CASE Returns(n)
    <3>1. UNCHANGED <<bootstrapping, servers>>
      BY <2>13 DEF Returns, globals
    <3>2. notifier[n].at = "done" /\ notifier'[n].at = "idle" /\ reader[n] # None
      BY <1>0, <2>13, Steps
    <3>3. bootstrapping = ~hasCredentials(reader[n])
      BY <1>1, <3>2 DEF Decided
    <3>4. bootstrapping = ~HasCredentials
      BY <3>2, <3>3 DEF NotifierCountsCurrent, HasCredentials
    <3>5. SettledMode'
      BY <1>3, <2>3, <3>1, <3>4 DEF SettledMode
    <3>6. Replaced' <=> Replaced
      BY <2>6, <3>2 DEF Replaced
    <3>7. ServerMode'
      BY <1>1, <3>1, <3>6 DEF ServerMode, grpcServer
    <3>8. Decided(n)'
      BY <3>2 DEF Decided, Switching
    <3>9. \A m \in Notifiers \ {n} : Decided(m)'
      BY <1>1, <2>1, <2>2, <3>1 DEF Decided, Switching
    <3> QED
      BY <3>5, <3>7, <3>8, <3>9
  <2> QED
    BY <1>8, <2>7, <2>8, <2>9, <2>10, <2>11, <2>12, <2>13 DEF Notify
<1> QED
  BY <1>5, <1>6, <1>7, <1>8 DEF TNext

-----------------------------------------------------------------------------
\* main and the first call of notify establish the invariants.
LEMMA InitTInv == TInit => TypeInv /\ ServerInv /\ ModeInv
<1> SUFFICES ASSUME TInit PROVE TypeInv /\ ServerInv /\ ModeInv
  OBVIOUS
<1> USE CertAssumption
<1>0. Init /\ TypeOK /\ Waiting \in NotifierState /\ Waiting.at = "idle"
  BY InitIInv DEF TInit, IInv, Waiting, Running, NotifierState
<1>1. grpcServer = 1 /\ servers \in Seq(Modes) /\ servers # <<>> /\ servers[grpcServer] = "encrypted"
  BY DEF TInit, grpcServer, Modes
<1>2. \A n \in Notifiers : notifier[n].at = "idle" /\ reader[n] = None
  BY <1>0 DEF TInit, Init
<1>3. TypeInv
  <2>1. raced \in BOOLEAN /\ bootstrapping \in BOOLEAN
    BY DEF TInit
  <2>2. /\ registered \subseteq 1..grpcServer /\ stopped \subseteq 1..grpcServer
        /\ listening \in 0..grpcServer /\ toServe \in Nat /\ home \in [Procs -> 0..grpcServer]
    BY <1>1 DEF TInit
  <2>3. notifier \in [Notifiers -> NotifierState]
    BY <1>0 DEF TInit
  <2> QED
    BY <1>0, <1>1, <1>2, <2>1, <2>2, <2>3 DEF TypeInv, TTypeOK
<1>4. ServerInv
  BY <1>0, <1>2, <1>3 DEF ServerInv, Served, Exclusive, StopsCurrent, OnCurrent, Switching,
                          TInit, Init
<1>5. HasCredentials = FALSE
  <2>1. Installed = {}
    BY <1>0 DEF Init, Installed
  <2> QED
    BY <2>1, FS_EmptySet DEF HasCredentials, hasCredentials, CurrentCounts
<1>6. ModeInv
  BY <1>1, <1>2, <1>5 DEF ModeInv, ServerMode, Replaced, SettledMode, Decided, Switching, ModeFor,
                          TInit
<1> QED
  BY <1>3, <1>4, <1>6

\* The target implements the certificate manager: replacing servers under the
\* running handlers adds no behaviour to Manager, so everything proved of it
\* holds in the target (notify of gnoi_target.go inside Manager.notify).
THEOREM TargetImplementsManager == TSpec => Spec
<1>1. TInit => Init
  BY DEF TInit
<1> QED
  BY <1>1, TargetStep, PTL DEF TSpec, Spec

\* The globals of gnoi_target.go stay within their types, with any number of
\* notifications at the same time.
THEOREM SpecTTypeOK == TSpec => []TTypeOK
<1>1. TypeInv => TTypeOK
  BY DEF TypeInv
<1> QED
  BY <1>1, InitTInv, StepTypeInv, TargetImplementsManager, SpecIInv, PTL DEF TSpec

\* With any number of notifications at the same time, RPCs run on the server
\* that is being served and on no other, and until two notifiers decide to
\* switch at the same time a switch leaves no RPC behind on a server that was
\* replaced, and nothing but the current server accepts RPCs.
THEOREM SpecNothingOnOldServers == TSpec => []NothingOnOldServers
<1>1. IInv /\ ServerInv /\ [TNext]_allVars => ServerInv'
  BY StepServerInv
<1>2. ServerInv => NothingOnOldServers
  BY DEF ServerInv, Served, OnCurrent, NothingOnOldServers
<1> QED
  BY <1>1, <1>2, InitTInv, TargetImplementsManager, SpecIInv, PTL DEF TSpec

\* With any number of notifications at the same time, the server is in the mode
\* of the flag once every notification has been handled, and in the mode the
\* installed certificates call for unless an update failed half way, until two
\* notifiers decide to switch at the same time.
THEOREM SpecModeMatchesCredentials == TSpec => []ModeMatchesCredentials
<1>1. IInv /\ ServerInv /\ [TNext]_allVars => ServerInv'
  BY StepServerInv
<1>2. IInv /\ ServerInv /\ NotifierCountsCurrent /\ ModeInv /\ [TNext]_allVars => ModeInv'
  BY StepModeInv
<1>3. ServerInv /\ ModeInv => ModeMatchesCredentials
  <2> SUFFICES ASSUME ServerInv, ModeInv, Quiet, ~raced
               PROVE  /\ servers[grpcServer] = IF bootstrapping THEN "encrypted"
                                                                ELSE "authenticated"
                      /\ NothingHalfDone => bootstrapping = ~HasCredentials
    BY DEF ModeMatchesCredentials
  <2>1. \A n \in Notifiers : notifier[n].at = "idle"
    BY DEF Quiet, CanLock, ServerInv, TypeInv, TTypeOK
  <2>2. ~Replaced
    BY <2>1 DEF Replaced
  <2>3. NothingHalfDone => bootstrapping = ~HasCredentials
    BY <2>1 DEF ModeInv, SettledMode, Quiet
  <2> QED
    BY <2>2, <2>3 DEF ModeInv, ServerMode, ModeFor
<1> QED
  BY <1>1, <1>2, <1>3, InitTInv, TargetImplementsManager, SpecIInv, SpecNotifierCountsCurrent,
     PTL DEF TSpec

\* The target implements the abstract store of certificates: whatever servers
\* are replaced meanwhile, an operation changes the certificate in force of its
\* own ID, at once and when it is accepted.
COROLLARY TargetImplementsStore == TSpec => ImplementsStore
BY TargetImplementsManager, SpecImplementsStore

\* The CA bundle the authenticated server verifies its clients with is the one
\* last accepted, while loads of bundles do not overlap.
COROLLARY TargetBundleSettled == TSpec => []BundleSettled
BY TargetImplementsManager, SpecBundleSettled
=============================================================================
