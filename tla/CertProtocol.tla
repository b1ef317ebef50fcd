---------------------------- MODULE CertProtocol ----------------------------
(***************************************************************************)
(* Certificate clients (gnoi/cert/client.go, gnoi_cert/gnoi_cert.go) and   *)
(* the handlers of CertManager, joined by gRPC streams.                    *)
(*                                                                         *)
(* A stream keeps the order of its messages.  It is cut when the client    *)
(* ends, which closes the connection or exits the process, when the        *)
(* client's context times out, or when the network fails.  After the cut   *)
(* either end may still receive what was under way, or see the error; what *)
(* it sends is lost, and its Send may or may not report that.              *)
(***************************************************************************)
EXTENDS CertManager, Sequences

CONSTANT MaxDrops       \* bound: connections lost by the network

ASSUME DropsAssumption == MaxDrops \in Nat

VARIABLES
    client,     \* the client of each stream: its call, its step and its result
    toServer,   \* requests under way, a load with the signed certificate
    toClient,   \* responses under way
    cut,        \* streams that are broken
    csrSent,    \* the handler has answered the GenerateCSRRequest
    drops,      \* connections lost by the network
    outcome,    \* history: how the handler ended
    stranded    \* history: IDs left locked with no operation to end: the PEM of
                \* a load did not decode, or the response could not be sent

streams == <<toServer, toClient, cut, csrSent>>
results == <<outcome, stranded>>
pvars == <<client, streams, drops, results>>
allvars == <<vars, pvars>>

Idle == [op |-> "install", id |-> None, at |-> "ended", cert |-> None, result |-> "none"]

PInit ==
    /\ Init
    /\ client = [p \in Procs |-> Idle]
    /\ toServer = [p \in Procs |-> <<>>]
    /\ toClient = [p \in Procs |-> <<>>]
    /\ cut = [p \in Procs |-> FALSE]
    /\ csrSent = [p \in Procs |-> FALSE]
    /\ drops = 0
    /\ outcome = [p \in Procs |-> "none"]
    /\ stranded = {}

Request(type, c) == [type |-> type, cert |-> c]

Receives(queue, type) == queue # <<>> /\ Head(queue) = type

ServerReceives(p, type) == toServer[p] # <<>> /\ Head(toServer[p]).type = type

\* The queue of p after a Send of m: lost once the stream is cut.
Sent(queue, p, m) == IF cut[p] THEN queue[p] ELSE Append(queue[p], m)

Concludes(p, how) == outcome' = [outcome EXCEPT ![p] = how]

-----------------------------------------------------------------------------
(* The client *)

\* The call opens the stream and sends GenerateCSRRequest; a Revoke is unary.
ClientOpen(p, op, id) ==
    /\ client[p].at = "ended"
    /\ Begin(p, op, id)
    /\ client' = [client EXCEPT ![p] =
                    [op |-> op, id |-> id, cert |-> None, result |-> "none",
                     at |-> IF op = "revoke" THEN "loaded" ELSE "csr"]]
    /\ toServer' = [toServer EXCEPT ![p] =
                      <<Request(IF op = "revoke" THEN "revoke" ELSE "generate", None)>>]
    /\ toClient' = [toClient EXCEPT ![p] = <<>>]
    /\ cut' = [cut EXCEPT ![p] = FALSE]
    /\ csrSent' = [csrSent EXCEPT ![p] = FALSE]
    /\ Concludes(p, "none")
    /\ UNCHANGED <<drops, stranded>>

\* The CSR arrives; the client signs it and sends LoadCertificateRequest.
ClientSign(p, c) ==
    /\ client[p].at = "csr" /\ Receives(toClient[p], "csr")
    /\ client' = [client EXCEPT ![p].at = "loaded", ![p].cert = c]
    /\ toClient' = [toClient EXCEPT ![p] = Tail(@)]
    /\ toServer' = [toServer EXCEPT ![p] = Sent(toServer, p, Request("load", c))]
    /\ UNCHANGED <<vars, cut, csrSent, drops, results>>

\* The call returns: "defer conn.Close()", or log.Exit ends the process.
ClientReturns(p, result) ==
    /\ client' = [client EXCEPT ![p].at = "ended", ![p].result = result]
    /\ cut' = [cut EXCEPT ![p] = TRUE]

\* LoadCertificateResponse, or the answer of a Revoke, arrives.
ClientLoaded(p) ==
    /\ client[p].at = "loaded" /\ Receives(toClient[p], "loaded")
    /\ toClient' = [toClient EXCEPT ![p] = Tail(@)]
    /\ IF client[p].op = "rotate"
       THEN client' = [client EXCEPT ![p].at = "validate"] /\ UNCHANGED cut
       ELSE ClientReturns(p, "ok")
    /\ UNCHANGED <<vars, toServer, csrSent, drops, results>>

\* validate() succeeds; the client sends FinalizeRequest and returns nil.
ClientFinalize(p) ==
    /\ client[p].at = "validate"
    /\ toServer' = [toServer EXCEPT ![p] = Sent(toServer, p, Request("finalize", None))]
    /\ ClientReturns(p, "ok")
    /\ UNCHANGED <<vars, toClient, csrSent, drops, results>>

\* Any error return: the context times out, which may be at every step; a Send
\* or Recv fails; sign or validate fails; the target ended the stream.
ClientFails(p) ==
    /\ client[p].at # "ended"
    /\ ClientReturns(p, "error")
    /\ UNCHANGED <<vars, toServer, toClient, csrSent, drops, results>>

ClientStep(p) ==
    \/ \E c \in Certs : ClientSign(p, c)
    \/ ClientLoaded(p)
    \/ ClientFinalize(p)
    \/ ClientFails(p)

-----------------------------------------------------------------------------
(* The handlers of CertManager, with what they receive and send *)

TakeRequest(p) == toServer' = [toServer EXCEPT ![p] = Tail(@)]

\* The handler generates the CSR and sends it.
ServerCSR(p) ==
    /\ At(p, "load") /\ ServerReceives(p, "generate")
    /\ TakeRequest(p)
    /\ csrSent' = [csrSent EXCEPT ![p] = TRUE]
    /\ toClient' = [toClient EXCEPT ![p] = Sent(toClient, p, "csr")]
    /\ UNCHANGED <<vars, client, cut, drops, results>>

\* Defect: the handler tries to receive again.
ReceivesAgain(p) ==
    /\ cut[p] \/ ~csrSent[p]
    /\ At(p, "load") /\ rpc[p].op # "revoke"
    /\ UNCHANGED allvars

\* GenCSR fails, or a Recv or Send of the first half does.
ServerAbandons(p) ==
    /\ cut[p] \/ ~csrSent[p]
    /\ Abandon(p)
    /\ Concludes(p, "refused")
    /\ UNCHANGED <<client, streams, drops, stranded>>

\* The loaded certificate is accepted by update.
ServerLoads(p, b) ==
    /\ ServerReceives(p, "load")
    /\ update(p, Head(toServer[p]).cert, b)
    /\ TakeRequest(p)
    /\ UNCHANGED <<client, toClient, cut, csrSent, drops, results>>

\* Defect: a load that update refused is answered all the same.
RefusesPolitely(p) ==
    /\ ServerReceives(p, "load")
    /\ updateRefused(p)
    /\ TakeRequest(p)
    /\ toClient' = [toClient EXCEPT ![p] = Sent(toClient, p, "loaded")]
    /\ Concludes(p, "refused")
    /\ UNCHANGED <<client, cut, csrSent, drops, stranded>>

ServerRefuses(p) ==
    /\ ServerReceives(p, "load")
    /\ updateRefused(p)
    /\ TakeRequest(p)
    /\ Concludes(p, "refused")
    /\ UNCHANGED <<client, toClient, cut, csrSent, drops, stranded>>

\* The certificate or the CA bundle does not decode: the ID stays locked.
ServerLoadsBad(p) ==
    /\ ServerReceives(p, "load")
    /\ updateBadCert(p) \/ updateBadBundle(p, Head(toServer[p]).cert)
    /\ TakeRequest(p)
    /\ Concludes(p, "stranded")
    /\ stranded' = stranded \cup {rpc[p].id}
    /\ UNCHANGED <<client, toClient, cut, csrSent, drops>>

ServerInstalls(p) ==
    /\ InstallAccept(p)
    /\ Concludes(p, "accepted")
    /\ UNCHANGED <<client, streams, drops, stranded>>

\* The handler sends LoadCertificateResponse.
ServerReplies(p) ==
    /\ InstallReply(p) \/ RotateRespond(p)
    /\ toClient' = [toClient EXCEPT ![p] = Sent(toClient, p, "loaded")]
    /\ UNCHANGED <<client, toServer, cut, csrSent, drops, results>>

\* The Send of Rotate fails: its operation on the ID never ends.
ServerReplyFails(p) ==
    /\ cut[p]
    /\ RotateSendFails(p)
    /\ Concludes(p, "stranded")
    /\ stranded' = stranded \cup {rpc[p].id}
    /\ UNCHANGED <<client, streams, drops>>

ServerFinalizes(p) ==
    /\ ServerReceives(p, "finalize")
    /\ RotateAccept(p)
    /\ TakeRequest(p)
    /\ Concludes(p, "accepted")
    /\ UNCHANGED <<client, toClient, cut, csrSent, drops, stranded>>

\* Defect: a broken stream counts as the end of the rotation.
BrokenStreamAccepts(p) ==
    /\ cut[p]
    /\ RotateAccept(p)
    /\ Concludes(p, "accepted")
    /\ UNCHANGED <<client, streams, drops, stranded>>

\* The Recv after the response fails.
ServerRollsBack(p) ==
    /\ cut[p]
    /\ RotateBack(p)
    /\ Concludes(p, "rolledback")
    /\ UNCHANGED <<client, streams, drops, stranded>>

ServerRevokes(p) ==
    /\ ServerReceives(p, "revoke")
    /\ Revoke(p, {rpc[p].id})
    /\ TakeRequest(p)
    /\ toClient' = [toClient EXCEPT ![p] = Sent(toClient, p, "loaded")]
    /\ Concludes(p, "accepted")
    /\ UNCHANGED <<client, cut, csrSent, drops, stranded>>

ServerStep(p) ==
    \/ ServerCSR(p)
    \/ ServerAbandons(p)
    \/ \E b \in Bundle : ServerLoads(p, b)
    \/ ServerRefuses(p)
    \/ ServerLoadsBad(p)
    \/ ServerInstalls(p)
    \/ ServerReplies(p)
    \/ ServerReplyFails(p)
    \/ ServerFinalizes(p)
    \/ ServerRollsBack(p)
    \/ ServerRevokes(p)

-----------------------------------------------------------------------------
\* The network loses the connection of a call.
Drop(p) ==
    /\ drops < MaxDrops
    /\ client[p].at # "ended" /\ ~cut[p]
    /\ drops' = drops + 1
    /\ cut' = [cut EXCEPT ![p] = TRUE]
    /\ UNCHANGED <<vars, client, toServer, toClient, csrSent, results>>

PFinished ==
    /\ Finished
    /\ \A p \in Procs : client[p].at = "ended"
    /\ UNCHANGED pvars

Notify(n) == (NotifyBegin(n) \/ NotifyEnd(n)) /\ UNCHANGED pvars

PNext ==
    \/ \E p \in Procs, id \in CertIDs, op \in {"install", "rotate", "revoke"} :
          ClientOpen(p, op, id)
    \/ \E p \in Procs : ClientStep(p) \/ ServerStep(p) \/ Drop(p)
    \/ \E n \in Notifiers : Notify(n)
    \/ PFinished

\* A client's context has a deadline, so it always takes a step; handlers and
\* notify are goroutines that the scheduler runs.  The notifiers that notify
\* calls need not return: the one of gnoi_target waits for RPCs.
PSpec ==
    /\ PInit /\ [][PNext]_allvars
    /\ \A p \in Procs : WF_allvars(ClientStep(p)) /\ WF_allvars(ServerStep(p))
    /\ \A n \in Notifiers : WF_allvars(NotifyBegin(n) /\ UNCHANGED pvars)

-----------------------------------------------------------------------------
(* Properties *)

\* An Install that returned nil to its client was accepted by the target,
\* whatever was lost or refused on the way (Client.Install, Server.Install).
InstallOkIsAccepted ==
    \A p \in Procs :
        client[p].op = "install" /\ client[p].result = "ok" => outcome[p] = "accepted"

\* A Rotate that returned an error to its client is never committed, however
\* late the target notices: "the target must rollback" (Client.Rotate,
\* Server.Rotate).
FailedRotateNotAccepted ==
    \A p \in Procs :
        client[p].op = "rotate" /\ client[p].result = "error" => outcome[p] # "accepted"

\* While the client of an unbroken stream validates, the target has the very
\* certificate this client signed, and nobody else's operation on the ID is in
\* progress (Client.Rotate, validate; Manager.locks).
ValidatesOwnCert ==
    \A p \in Procs :
        (client[p].at = "validate" /\ ~cut[p]) =>
            /\ certInfo[client[p].id] = client[p].cert
            /\ \A q \in Procs : Holds(q, client[p].id) => q = p

\* The functions given to RegisterNotifier return.
NotifiersReturn == \A n \in Notifiers : []<>(reader[n] = None)

\* Every handler returns, also when the client of its stream gave up, died or
\* was cut off at any step (the Recv calls of Install and Rotate), unless a
\* notifier keeps the read lock it waits for.
HandlersEnd == NotifiersReturn => \A p \in Procs : rpc[p] # None ~> rpc[p] = None

\* An ID that is locked is unlocked again (accept and rollback, "delete(cm.locks,
\* certID)"), unless the PEM it was given did not decode, a response could not be
\* sent, or a notifier keeps the read lock.
LocksEnd ==
    NotifiersReturn =>
        \A id \in CertIDs : id \in locks ~> (id \notin locks \/ id \in stranded)

\* A Rotate that returned nil was committed: "Step 6: Final commit" of
\* cert.proto.  Does NOT hold: nothing answers FinalizeRequest, and the client
\* closes the connection as soon as it is sent (MCCertFinalizeLost.cfg).
RotateOkIsAccepted ==
    \A p \in Procs :
        (client[p].op = "rotate" /\ client[p].result = "ok") =>
            outcome[p] \notin {"rolledback", "stranded", "refused"}

=============================================================================
