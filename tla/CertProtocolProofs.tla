------------------------- MODULE CertProtocolProofs -------------------------
(***************************************************************************)
(* Proofs about CertProtocol for any number of clients, handlers and IDs   *)
(* and any number of lost connections: the handlers with their streams     *)
(* implement CertManager, and what a client is told is what the target did.*)
(***************************************************************************)
EXTENDS CertProtocol, CertStoreProofs

Ops == {"install", "rotate", "revoke"}

\* The call of a client, and a request under way.
ClientCall == [op : Ops, id : CertIDs \cup {None}, at : {"csr", "loaded", "validate", "ended"},
               cert : Certs \cup {None}, result : {"none", "ok", "error"}]
RequestMsg == [type : {"generate", "load", "finalize", "revoke"}, cert : Certs \cup {None}]

\* What is under way in a queue.
Elems(queue) == {queue[i] : i \in 1..Len(queue)}

PTypeOK ==
    /\ client \in [Procs -> ClientCall]
    /\ toServer \in [Procs -> Seq(RequestMsg)]
    /\ toClient \in [Procs -> Seq({"csr", "loaded"})]
    /\ cut \in [Procs -> BOOLEAN]
    /\ outcome \in [Procs -> {"none", "refused", "accepted", "rolledback", "stranded"}]

\* The handler of p serves the call of its client; once it has loaded a
\* certificate it is that of the client.
Serves(p) ==
    rpc[p] # None =>
        /\ rpc[p].op = client[p].op /\ rpc[p].id = client[p].id
        /\ rpc[p].at \in {"accept", "reply"} => rpc[p].op = "install"
        /\ rpc[p].at \in {"respond", "finalize"} => rpc[p].op = "rotate"
        /\ rpc[p].at = "reply" => outcome[p] = "accepted"
        /\ rpc[p].at # "load" => client[p].at # "csr"
        /\ rpc[p].at \in {"accept", "respond", "finalize"} =>
              certInfo[rpc[p].id] = client[p].cert

\* A load under way has the certificate the client signed; a finalize is sent
\* by a client that returns nil.
Requested(p) ==
    \A m \in Elems(toServer[p]) :
        /\ m.type = "load" => /\ client[p].at # "csr"
                              /\ m.cert = client[p].cert /\ m.cert \in Certs
        /\ m.type = "finalize" => client[p].result = "ok"

\* What the client knows from the response, received or under way.
Answered(p) ==
    /\ client[p].result # "none" => client[p].at = "ended"
    /\ client[p].at = "validate" => client[p].op = "rotate"
    /\ (client[p].op = "install" /\ (client[p].result = "ok" \/ "loaded" \in Elems(toClient[p])))
         => rpc[p] = None /\ outcome[p] = "accepted"
    /\ (client[p].op = "rotate" /\ outcome[p] = "accepted") => client[p].result = "ok"
    /\ (/\ client[p].op = "rotate" /\ client[p].at # "ended" /\ ~cut[p]
        /\ client[p].at = "validate" \/ "loaded" \in Elems(toClient[p]))
         => At(p, "finalize")

\* The inductive invariant of one stream, and of all.
StreamInv(p) == Serves(p) /\ Requested(p) /\ Answered(p)

PInv ==
    /\ IInv
    /\ PTypeOK
    /\ \A p \in Procs : StreamInv(p)

-----------------------------------------------------------------------------
(* Queues *)

\* Receiving a message leaves the others under way.
LEMMA TailElems ==
    ASSUME NEW S, NEW q \in Seq(S), q # <<>>
    PROVE  /\ Tail(q) \in Seq(S) /\ Elems(Tail(q)) \subseteq Elems(q)
           /\ Head(q) \in S /\ Head(q) \in Elems(q)
<1>1. Len(q) \in Nat /\ Len(q) > 0
  OBVIOUS
<1>2. /\ Tail(q) \in Seq(S) /\ Len(Tail(q)) = Len(q) - 1
      /\ \A i \in 1..Len(Tail(q)) : Tail(q)[i] = q[i + 1]
  OBVIOUS
<1>3. Elems(Tail(q)) \subseteq Elems(q)
  BY <1>1, <1>2 DEF Elems
<1>4. Head(q) = q[1] /\ q[1] \in S
  BY <1>1
<1> QED
  BY <1>1, <1>2, <1>3, <1>4 DEF Elems

\* Sending puts the message under way, or loses it.
LEMMA SentElems ==
    ASSUME NEW S, NEW queue, NEW p \in Procs, NEW m \in S, queue[p] \in Seq(S)
    PROVE  /\ Sent(queue, p, m) \in Seq(S)
           /\ Elems(Sent(queue, p, m)) \subseteq Elems(queue[p]) \cup {m}
<1>1. CASE cut[p]
  BY <1>1 DEF Sent
<1>2. CASE ~cut[p]
  <2> DEFINE q == queue[p]
  <2>1. /\ Append(q, m) \in Seq(S) /\ Len(q) \in Nat /\ Len(Append(q, m)) = Len(q) + 1
        /\ \A i \in 1..(Len(q) + 1) : Append(q, m)[i] = IF i = Len(q) + 1 THEN m ELSE q[i]
    OBVIOUS
  <2>2. Elems(Append(q, m)) \subseteq Elems(q) \cup {m}
    BY <2>1 DEF Elems
  <2> QED
    BY <1>2, <2>1, <2>2 DEF Sent
<1> QED
  BY <1>1, <1>2

\* A queue with one message, and one with none.
LEMMA ShortElems ==
    ASSUME NEW S, NEW m \in S
    PROVE  <<m>> \in Seq(S) /\ Elems(<<m>>) = {m} /\ Elems(<<>>) = {}
  BY DEF Elems

-----------------------------------------------------------------------------
\* The steps of the protocol are steps of the handlers of CertManager, or none.
LEMMA ProtocolStep == PInv /\ [PNext]_allvars => [Next]_vars
<1> SUFFICES ASSUME PInv, [PNext]_allvars PROVE [Next]_vars
  OBVIOUS
<1>1. ASSUME NEW p \in Procs, ServerStep(p)
      PROVE  Handle(p) \/ UNCHANGED vars
  <2>1. ASSUME NEW b \in Bundle, ServerLoads(p, b) PROVE Handle(p)
    <3>1. toServer[p] # <<>> /\ Head(toServer[p]).type = "load"
      BY <2>1 DEF ServerLoads, ServerReceives
    <3>2. Head(toServer[p]) \in Elems(toServer[p])
      BY <3>1, TailElems DEF PInv, PTypeOK
    <3>3. Head(toServer[p]).cert \in Certs
      BY <3>1, <3>2 DEF PInv, StreamInv, Requested
    <3> QED
      BY <2>1, <3>3 DEF ServerLoads, Handle
  <2>2. ASSUME ServerLoadsBad(p) PROVE Handle(p)
    <3>1. toServer[p] # <<>> /\ Head(toServer[p]).type = "load"
      BY <2>2 DEF ServerLoadsBad, ServerReceives
    <3>2. Head(toServer[p]) \in Elems(toServer[p])
      BY <3>1, TailElems DEF PInv, PTypeOK
    <3>3. Head(toServer[p]).cert \in Certs
      BY <3>1, <3>2 DEF PInv, StreamInv, Requested
    <3> QED
      BY <2>2, <3>3 DEF ServerLoadsBad, Handle
  <2>3. ASSUME ServerRevokes(p) PROVE Handle(p)
    <3>1. {rpc[p].id} \in SUBSET CertIDs
      BY <2>3, RpcType DEF ServerRevokes, Revoke, At, PInv, IInv, Rpc
    <3> QED
      BY <2>3, <3>1 DEF ServerRevokes, Handle
  <2> QED
    BY <1>1, <2>1, <2>2, <2>3
       DEF ServerStep, ServerCSR, ServerAbandons, ServerRefuses, ServerInstalls, ServerReplies,
           ServerReplyFails, ServerFinalizes, ServerRollsBack, Handle
<1>2. ASSUME NEW p \in Procs, ClientStep(p) \/ Drop(p) PROVE UNCHANGED vars
  BY <1>2 DEF ClientStep, ClientSign, ClientLoaded, ClientFinalize, ClientFails, Drop
<1>3. ASSUME NEW p \in Procs, NEW id \in CertIDs, NEW op \in Ops, ClientOpen(p, op, id)
      PROVE  Next
  BY <1>3 DEF ClientOpen, Next, Ops
<1>4. ASSUME NEW n \in Notifiers, Notify(n) PROVE Next
  BY <1>4 DEF Notify, Next
<1>5. CASE PFinished \/ UNCHANGED allvars
  BY <1>5 DEF PFinished, Next, allvars
<1> QED
  BY <1>1, <1>2, <1>3, <1>4, <1>5 DEF PNext, Next, Ops

\* A stream that a step does not touch keeps its invariant: what other handlers
\* do to the certificates does not reach the ID it holds.
LEMMA OtherStream ==
    ASSUME PInv, [Next]_vars, NEW q \in Procs,
           rpc'[q] = rpc[q], client'[q] = client[q], toServer'[q] = toServer[q],
           toClient'[q] = toClient[q], cut'[q] = cut[q], outcome'[q] = outcome[q]
    PROVE  StreamInv(q)'
<1>1. StreamInv(q) /\ IInv
  BY DEF PInv
<1>2. Requested(q)' /\ Answered(q)'
  BY <1>1 DEF StreamInv, Requested, Answered, At
<1>3. ASSUME rpc[q] # None, rpc[q].at \in {"accept", "respond", "finalize"}
      PROVE  certInfo'[rpc[q].id] = certInfo[rpc[q].id]
  <2>1. rpc[q].id \in CertIDs /\ Holds(q, rpc[q].id)
    BY <1>1, <1>3, RpcType DEF IInv, Rpc, Holds
  <2>2. CASE Next
    BY <1>1, <1>3, <2>1, <2>2, StepHeldCert
  <2>3. CASE UNCHANGED vars
    BY <2>3 DEF vars, manager
  <2> QED
    BY <2>2, <2>3
<1>4. Serves(q)'
  BY <1>1, <1>3 DEF StreamInv, Serves
<1> QED
  BY <1>2, <1>4 DEF StreamInv

\* A step of one stream keeps the invariant if it keeps that of its stream.
LEMMA OneStream ==
    ASSUME PInv, [PNext]_allvars, NEW p \in Procs, PTypeOK', StreamInv(p)',
           \A q \in Procs \ {p} :
               /\ rpc'[q] = rpc[q] /\ client'[q] = client[q] /\ toServer'[q] = toServer[q]
               /\ toClient'[q] = toClient[q] /\ cut'[q] = cut[q] /\ outcome'[q] = outcome[q]
    PROVE  PInv'
<1>1. [Next]_vars
  BY ProtocolStep
<1>2. IInv'
  BY <1>1, StepIInv DEF PInv
<1>3. \A q \in Procs \ {p} : StreamInv(q)'
  BY <1>1, OtherStream
<1> QED
  BY <1>2, <1>3 DEF PInv

\* A step of a handler is about its own RPC.
LEMMA HandlerOnly ==
    ASSUME TypeOK, NEW p \in Procs,
           Handle(p) \/ \E op \in Ops, id \in CertIDs : Begin(p, op, id)
    PROVE  \A q \in Procs \ {p} : rpc'[q] = rpc[q]
  BY DEF TypeOK, Handle, Begin, Abandon, updateRefused, updateBadCert, updateBadBundle, update,
         InstallAccept, InstallReply, RotateRespond, RotateSendFails, RotateAccept,
         RotateBack, Revoke, Return, Goto

-----------------------------------------------------------------------------
(* The client *)

\* A new call finds its handler gone and its queues replaced.
LEMMA StepOpen ==
    ASSUME PInv, NEW p \in Procs, NEW id \in CertIDs, NEW op \in Ops, ClientOpen(p, op, id)
    PROVE  PInv'
<1> USE CertAssumption
<1> DEFINE m == Request(IF op = "revoke" THEN "revoke" ELSE "generate", None)
           c == [op |-> op, id |-> id, cert |-> None, result |-> "none",
                 at |-> IF op = "revoke" THEN "loaded" ELSE "csr"]
           r == [op |-> op, at |-> "load", id |-> id,
                 oldCert |-> None, oldBundle |-> {}, bundle |-> {}]
<1>1. /\ client' = [client EXCEPT ![p] = c] /\ toServer' = [toServer EXCEPT ![p] = <<m>>]
      /\ toClient' = [toClient EXCEPT ![p] = <<>>] /\ cut' = [cut EXCEPT ![p] = FALSE]
      /\ outcome' = [outcome EXCEPT ![p] = "none"] /\ rpc' = [rpc EXCEPT ![p] = r]
  BY DEF ClientOpen, Begin, Concludes
<1>2. m \in RequestMsg /\ m.type \in {"revoke", "generate"} /\ c \in ClientCall
  BY DEF Request, RequestMsg, ClientCall, Ops
<1>3. <<m>> \in Seq(RequestMsg) /\ Elems(<<m>>) = {m} /\ Elems(<<>>) = {}
  BY <1>2, ShortElems
<1>4. TypeOK /\ PTypeOK
  BY DEF PInv, IInv
<1>5. /\ client'[p] = c /\ toServer'[p] = <<m>> /\ toClient'[p] = <<>>
      /\ outcome'[p] = "none" /\ rpc'[p] = r
  BY <1>1, <1>4 DEF TypeOK, PTypeOK
<1>6. PTypeOK'
  BY <1>1, <1>2, <1>3, <1>4 DEF PTypeOK
<1>7. Serves(p)'
  BY <1>5 DEF Serves
<1>8. Requested(p)'
  BY <1>2, <1>3, <1>5 DEF Requested
<1>9. Answered(p)'
  BY <1>3, <1>5 DEF Answered
<1>10. \A q \in Procs \ {p} :
          /\ rpc'[q] = rpc[q] /\ client'[q] = client[q] /\ toServer'[q] = toServer[q]
          /\ toClient'[q] = toClient[q] /\ cut'[q] = cut[q] /\ outcome'[q] = outcome[q]
  BY <1>1, <1>4 DEF TypeOK, PTypeOK
<1>11. PNext
  BY DEF PNext, Ops
<1> QED
  BY <1>6, <1>7, <1>8, <1>9, <1>10, <1>11, OneStream DEF StreamInv

\* The CSR is signed: the load under way has the certificate of the client.
LEMMA StepSign ==
    ASSUME PInv, NEW p \in Procs, NEW c \in Certs, ClientSign(p, c)
    PROVE  PInv'
<1> USE CertAssumption
<1> DEFINE m == Request("load", c)
<1>0. TypeOK /\ PTypeOK /\ StreamInv(p)
  BY DEF PInv, IInv
<1>1. /\ client[p].at = "csr" /\ toClient[p] # <<>>
      /\ client' = [client EXCEPT ![p].at = "loaded", ![p].cert = c]
      /\ toClient' = [toClient EXCEPT ![p] = Tail(toClient[p])]
      /\ toServer' = [toServer EXCEPT ![p] = Sent(toServer, p, m)]
      /\ UNCHANGED <<rpc, certInfo, cut, outcome>>
  BY DEF ClientSign, Receives, vars, manager, results
<1>2. /\ client'[p] \in ClientCall /\ client'[p].at = "loaded" /\ client'[p].cert = c
      /\ client'[p].op = client[p].op /\ client'[p].id = client[p].id
      /\ client'[p].result = client[p].result
      /\ \A q \in Procs \ {p} : client'[q] = client[q]
  BY <1>0, <1>1 DEF PTypeOK, ClientCall
<1>3. m \in RequestMsg /\ m.type = "load" /\ m.cert = c
  BY DEF Request, RequestMsg
<1>4. /\ Sent(toServer, p, m) \in Seq(RequestMsg)
      /\ Elems(Sent(toServer, p, m)) \subseteq Elems(toServer[p]) \cup {m}
  BY <1>0, <1>3, SentElems DEF PTypeOK
<1>5. /\ Tail(toClient[p]) \in Seq({"csr", "loaded"})
      /\ Elems(Tail(toClient[p])) \subseteq Elems(toClient[p])
  BY <1>0, <1>1, TailElems DEF PTypeOK
<1>6. toServer'[p] = Sent(toServer, p, m) /\ toClient'[p] = Tail(toClient[p])
  BY <1>0, <1>1 DEF PTypeOK
<1>7. client' \in [Procs -> ClientCall]
  BY <1>0, <1>1, <1>2 DEF PTypeOK, ClientCall
<1>8. PTypeOK'
  BY <1>0, <1>1, <1>4, <1>5, <1>7 DEF PTypeOK
<1>9. Serves(p)'
  BY <1>0, <1>1, <1>2, RpcType DEF StreamInv, Serves, Rpc
<1>10. Requested(p)'
  <2>1. \A n \in Elems(toServer[p]) : n.type # "load"
    BY <1>0, <1>1 DEF StreamInv, Requested
  <2> QED
    BY <1>0, <1>2, <1>3, <1>4, <1>6, <2>1 DEF StreamInv, Requested
<1>11. Answered(p)'
  BY <1>0, <1>1, <1>2, <1>5, <1>6 DEF StreamInv, Answered, At
<1>12. \A q \in Procs \ {p} :
          toServer'[q] = toServer[q] /\ toClient'[q] = toClient[q]
  BY <1>0, <1>1 DEF PTypeOK
<1>13. PNext
  BY DEF PNext, ClientStep
<1> QED
  BY <1>1, <1>2, <1>8, <1>9, <1>10, <1>11, <1>12, <1>13, OneStream DEF StreamInv

\* What the end of a call does to its client.
LEMMA ReturnsTo ==
    ASSUME PTypeOK, NEW p \in Procs, NEW res \in {"ok", "error"}, ClientReturns(p, res)
    PROVE  /\ client' \in [Procs -> ClientCall] /\ cut' \in [Procs -> BOOLEAN]
           /\ client'[p].at = "ended" /\ client'[p].result = res
           /\ client'[p].op = client[p].op /\ client'[p].id = client[p].id
           /\ client'[p].cert = client[p].cert /\ cut'[p]
           /\ \A q \in Procs \ {p} : client'[q] = client[q] /\ cut'[q] = cut[q]
<1>1. /\ client' = [client EXCEPT ![p].at = "ended", ![p].result = res]
      /\ cut' = [cut EXCEPT ![p] = TRUE]
  BY DEF ClientReturns
<1>2. client[p] \in ClientCall
  BY DEF PTypeOK
<1>3. client'[p] = [client[p] EXCEPT !.at = "ended", !.result = res]
  BY <1>1 DEF PTypeOK
<1>4. /\ client'[p].at = "ended" /\ client'[p].result = res
      /\ client'[p].op = client[p].op /\ client'[p].id = client[p].id
      /\ client'[p].cert = client[p].cert /\ client'[p] \in ClientCall
  BY <1>2, <1>3 DEF ClientCall
<1>5. \A q \in Procs \ {p} : client'[q] = client[q] /\ cut'[q] = cut[q]
  BY <1>1 DEF PTypeOK
<1>6. client' \in [Procs -> ClientCall]
  BY <1>1, <1>4, <1>5 DEF PTypeOK
<1>7. cut' \in [Procs -> BOOLEAN] /\ cut'[p]
  BY <1>1 DEF PTypeOK
<1> QED
  BY <1>4, <1>5, <1>6, <1>7

\* A response arrives: an Install or Revoke returns, a Rotate validates.
LEMMA StepLoaded ==
    ASSUME PInv, NEW p \in Procs, ClientLoaded(p)
    PROVE  PInv'
<1> USE CertAssumption
<1>0. TypeOK /\ PTypeOK /\ StreamInv(p)
  BY DEF PInv, IInv
<1>1. /\ client[p].at = "loaded" /\ toClient[p] # <<>> /\ Head(toClient[p]) = "loaded"
      /\ toClient' = [toClient EXCEPT ![p] = Tail(toClient[p])]
      /\ UNCHANGED <<rpc, certInfo, toServer, outcome>>
  BY DEF ClientLoaded, Receives, vars, manager, results
<1>2. /\ Tail(toClient[p]) \in Seq({"csr", "loaded"})
      /\ Elems(Tail(toClient[p])) \subseteq Elems(toClient[p])
      /\ "loaded" \in Elems(toClient[p])
  BY <1>0, <1>1, TailElems DEF PTypeOK
<1>3. toClient'[p] = Tail(toClient[p]) /\ \A q \in Procs \ {p} : toClient'[q] = toClient[q]
  BY <1>0, <1>1 DEF PTypeOK
<1>4. PNext
  BY DEF PNext, ClientStep
<1>5. CASE client[p].op = "rotate"
  <2>1. client' = [client EXCEPT ![p].at = "validate"] /\ cut' = cut
    BY <1>5 DEF ClientLoaded
  <2>2. /\ client' \in [Procs -> ClientCall] /\ client'[p].at = "validate"
        /\ client'[p].op = client[p].op /\ client'[p].id = client[p].id
        /\ client'[p].cert = client[p].cert /\ client'[p].result = client[p].result
        /\ \A q \in Procs \ {p} : client'[q] = client[q]
    BY <1>0, <2>1 DEF PTypeOK, ClientCall
  <2>3. PTypeOK'
    BY <1>0, <1>1, <1>2, <2>1, <2>2 DEF PTypeOK
  <2>4. Serves(p)'
    BY <1>0, <1>1, <2>2 DEF StreamInv, Serves
  <2>5. Requested(p)'
    BY <1>0, <1>1, <2>2 DEF StreamInv, Requested
  <2>6. client[p].result = "none"
    BY <1>0, <1>1 DEF StreamInv, Answered
  <2>7. Answered(p)'
    BY <1>0, <1>1, <1>2, <1>3, <1>5, <2>1, <2>2, <2>6 DEF StreamInv, Answered, At
  <2> QED
    BY <1>1, <1>3, <1>4, <2>1, <2>2, <2>3, <2>4, <2>5, <2>7, OneStream DEF StreamInv
<1>6. CASE client[p].op # "rotate"
  <2>1. ClientReturns(p, "ok")
    BY <1>6 DEF ClientLoaded
  <2>2. /\ client' \in [Procs -> ClientCall] /\ cut' \in [Procs -> BOOLEAN]
        /\ client'[p].at = "ended" /\ client'[p].result = "ok"
        /\ client'[p].op = client[p].op /\ client'[p].id = client[p].id
        /\ client'[p].cert = client[p].cert
        /\ \A q \in Procs \ {p} : client'[q] = client[q] /\ cut'[q] = cut[q]
    BY <1>0, <2>1, ReturnsTo
  <2>3. PTypeOK'
    BY <1>0, <1>1, <1>2, <2>2 DEF PTypeOK
  <2>4. Serves(p)'
    BY <1>0, <1>1, <2>2 DEF StreamInv, Serves
  <2>5. Requested(p)'
    BY <1>0, <1>1, <2>2 DEF StreamInv, Requested
  <2>6. Answered(p)'
    BY <1>0, <1>1, <1>2, <1>3, <1>6, <2>2 DEF StreamInv, Answered, At
  <2> QED
    BY <1>1, <1>3, <1>4, <2>2, <2>3, <2>4, <2>5, <2>6, OneStream DEF StreamInv
<1> QED
  BY <1>5, <1>6

\* A Rotate finalizes and returns nil, or a call fails and returns an error.
LEMMA StepReturn ==
    ASSUME PInv, NEW p \in Procs, ClientFinalize(p) \/ ClientFails(p)
    PROVE  PInv'
<1> USE CertAssumption
<1> DEFINE m == Request("finalize", None)
           res == IF ClientFinalize(p) THEN "ok" ELSE "error"
<1>0. TypeOK /\ PTypeOK /\ StreamInv(p)
  BY DEF PInv, IInv
<1>1. /\ ClientReturns(p, res) /\ client[p].at # "ended"
      /\ UNCHANGED <<rpc, certInfo, toClient, outcome>>
  BY DEF ClientFinalize, ClientFails, vars, manager, results
<1>2. /\ client' \in [Procs -> ClientCall] /\ cut' \in [Procs -> BOOLEAN]
      /\ client'[p].at = "ended" /\ client'[p].result = res
      /\ client'[p].op = client[p].op /\ client'[p].id = client[p].id
      /\ client'[p].cert = client[p].cert
      /\ \A q \in Procs \ {p} : client'[q] = client[q] /\ cut'[q] = cut[q]
  BY <1>0, <1>1, ReturnsTo
<1>3. m \in RequestMsg /\ m.type = "finalize"
  BY DEF Request, RequestMsg
<1>4. /\ Sent(toServer, p, m) \in Seq(RequestMsg)
      /\ Elems(Sent(toServer, p, m)) \subseteq Elems(toServer[p]) \cup {m}
  BY <1>0, <1>3, SentElems DEF PTypeOK
<1>5. /\ toServer' \in [Procs -> Seq(RequestMsg)]
      /\ Elems(toServer'[p]) \subseteq Elems(toServer[p]) \cup {m}
      /\ res = "error" => Elems(toServer'[p]) \subseteq Elems(toServer[p])
      /\ \A q \in Procs \ {p} : toServer'[q] = toServer[q]
  <2>1. CASE ClientFinalize(p)
    <3>1. toServer' = [toServer EXCEPT ![p] = Sent(toServer, p, m)]
      BY <2>1 DEF ClientFinalize
    <3> QED
      BY <1>0, <1>4, <2>1, <3>1 DEF PTypeOK
  <2>2. CASE ~ClientFinalize(p)
    <3>1. toServer' = toServer
      BY <2>2 DEF ClientFails
    <3>2. Elems(toServer'[p]) = Elems(toServer[p])
      BY <3>1
    <3> QED
      BY <1>0, <3>1, <3>2 DEF PTypeOK
  <2> QED
    BY <2>1, <2>2
<1>6. client[p].result = "none"
  BY <1>0, <1>1 DEF StreamInv, Answered, PTypeOK, ClientCall
<1>7. PTypeOK'
  BY <1>0, <1>1, <1>2, <1>5 DEF PTypeOK
<1>8. Serves(p)'
  BY <1>0, <1>1, <1>2 DEF StreamInv, Serves
<1>9. Requested(p)'
  BY <1>0, <1>2, <1>3, <1>5, <1>6 DEF StreamInv, Requested
<1>10. Answered(p)'
  <2>1. client[p].op = "install" => res = "error"
    BY <1>0 DEF StreamInv, Answered, ClientFinalize
  <2>2. client[p].op = "rotate" => outcome[p] # "accepted"
    BY <1>0, <1>6 DEF StreamInv, Answered
  <2> QED
    BY <1>0, <1>1, <1>2, <2>1, <2>2 DEF StreamInv, Answered, At
<1>11. PNext
  BY DEF PNext, ClientStep
<1> QED
  BY <1>1, <1>2, <1>5, <1>7, <1>8, <1>9, <1>10, <1>11, OneStream DEF StreamInv

\* The network loses the connection.
LEMMA StepDrop ==
    ASSUME PInv, NEW p \in Procs, Drop(p)
    PROVE  PInv'
<1>0. TypeOK /\ PTypeOK /\ StreamInv(p)
  BY DEF PInv, IInv
<1>1. /\ cut' = [cut EXCEPT ![p] = TRUE]
      /\ UNCHANGED <<rpc, certInfo, client, toServer, toClient, outcome>>
  BY DEF Drop, vars, manager, results
<1>2. PTypeOK' /\ cut'[p] /\ \A q \in Procs \ {p} : cut'[q] = cut[q]
  BY <1>0, <1>1 DEF PTypeOK
<1>3. StreamInv(p)'
  BY <1>0, <1>1, <1>2 DEF StreamInv, Serves, Requested, Answered, At
<1>4. PNext
  BY DEF PNext
<1> QED
  BY <1>1, <1>2, <1>3, <1>4, OneStream

-----------------------------------------------------------------------------
(* The handlers *)

\* Receiving a request.
LEMMA Takes ==
    ASSUME PTypeOK, NEW p \in Procs, toServer[p] # <<>>, TakeRequest(p)
    PROVE  /\ toServer' \in [Procs -> Seq(RequestMsg)]
           /\ Elems(toServer'[p]) \subseteq Elems(toServer[p])
           /\ \A q \in Procs \ {p} : toServer'[q] = toServer[q]
           /\ Head(toServer[p]) \in Elems(toServer[p])
<1>1. /\ Tail(toServer[p]) \in Seq(RequestMsg)
      /\ Elems(Tail(toServer[p])) \subseteq Elems(toServer[p])
      /\ Head(toServer[p]) \in Elems(toServer[p])
  BY TailElems DEF PTypeOK
<1> QED
  BY <1>1 DEF PTypeOK, TakeRequest

\* Sending a response.
LEMMA Responds ==
    ASSUME PTypeOK, NEW p \in Procs, NEW m \in {"csr", "loaded"},
           toClient' = [toClient EXCEPT ![p] = Sent(toClient, p, m)]
    PROVE  /\ toClient' \in [Procs -> Seq({"csr", "loaded"})]
           /\ Elems(toClient'[p]) \subseteq Elems(toClient[p]) \cup {m}
           /\ \A q \in Procs \ {p} : toClient'[q] = toClient[q]
<1>1. /\ Sent(toClient, p, m) \in Seq({"csr", "loaded"})
      /\ Elems(Sent(toClient, p, m)) \subseteq Elems(toClient[p]) \cup {m}
  BY SentElems DEF PTypeOK
<1> QED
  BY <1>1 DEF PTypeOK

\* A handler that returns without accepting: no response it has sent promises
\* anything, and a Rotate whose client validates is not among them unless the
\* stream is cut.
LEMMA EndsUnaccepted ==
    ASSUME PInv, [PNext]_allvars, NEW p \in Procs, rpc[p] # None, Return(p),
           NEW how \in {"refused", "rolledback", "stranded"}, Concludes(p, how),
           UNCHANGED <<client, toClient, cut>>,
           toServer' = toServer \/ (toServer[p] # <<>> /\ TakeRequest(p)),
           cut[p] \/ ~At(p, "finalize")
    PROVE  PInv'
<1> USE CertAssumption
<1>0. TypeOK /\ PTypeOK /\ StreamInv(p)
  BY DEF PInv, IInv
<1>1. /\ toServer' \in [Procs -> Seq(RequestMsg)]
      /\ Elems(toServer'[p]) \subseteq Elems(toServer[p])
      /\ \A q \in Procs \ {p} : toServer'[q] = toServer[q]
  BY <1>0, Takes DEF PTypeOK
<1>2. /\ rpc'[p] = None /\ outcome'[p] = how
      /\ \A q \in Procs \ {p} : rpc'[q] = rpc[q] /\ outcome'[q] = outcome[q]
  BY <1>0 DEF TypeOK, PTypeOK, Return, Concludes
<1>3. PTypeOK'
  BY <1>0, <1>1 DEF PTypeOK, Concludes
<1>4. Serves(p)'
  BY <1>2 DEF Serves
<1>5. Requested(p)'
  BY <1>0, <1>1 DEF StreamInv, Requested
<1>6. Answered(p)'
  BY <1>0, <1>2 DEF StreamInv, Answered
<1> QED
  BY <1>1, <1>2, <1>3, <1>4, <1>5, <1>6, OneStream DEF StreamInv

\* The handler answers with a CSR.
LEMMA StepCSR ==
    ASSUME PInv, NEW p \in Procs, ServerCSR(p)
    PROVE  PInv'
<1>0. TypeOK /\ PTypeOK /\ StreamInv(p)
  BY DEF PInv, IInv
<1>1. /\ toServer[p] # <<>> /\ TakeRequest(p)
      /\ toClient' = [toClient EXCEPT ![p] = Sent(toClient, p, "csr")]
      /\ UNCHANGED <<rpc, certInfo, client, cut, outcome>>
  BY DEF ServerCSR, ServerReceives, vars, manager, results
<1>2. /\ toServer' \in [Procs -> Seq(RequestMsg)]
      /\ Elems(toServer'[p]) \subseteq Elems(toServer[p])
      /\ \A q \in Procs \ {p} : toServer'[q] = toServer[q]
  BY <1>0, <1>1, Takes
<1>3. /\ toClient' \in [Procs -> Seq({"csr", "loaded"})]
      /\ Elems(toClient'[p]) \subseteq Elems(toClient[p]) \cup {"csr"}
      /\ \A q \in Procs \ {p} : toClient'[q] = toClient[q]
  BY <1>0, <1>1, Responds
<1>4. PTypeOK'
  BY <1>0, <1>1, <1>2, <1>3 DEF PTypeOK
<1>5. Serves(p)' /\ Requested(p)'
  BY <1>0, <1>1, <1>2 DEF StreamInv, Serves, Requested
<1>6. Answered(p)'
  BY <1>0, <1>1, <1>3 DEF StreamInv, Answered, At
<1>7. PNext
  BY DEF PNext, ServerStep
<1> QED
  BY <1>1, <1>2, <1>3, <1>4, <1>5, <1>6, <1>7, OneStream DEF StreamInv

\* The handler gives up: before the load, at the load, or on a broken stream.
LEMMA StepGivesUp ==
    ASSUME PInv, NEW p \in Procs,
           \/ ServerAbandons(p) \/ ServerRefuses(p) \/ ServerLoadsBad(p)
           \/ ServerReplyFails(p) \/ ServerRollsBack(p)
    PROVE  PInv'
<1>0. PNext
  BY DEF PNext, ServerStep
<1>1. CASE ServerAbandons(p)
  <2>1. /\ At(p, "load") /\ Return(p) /\ Concludes(p, "refused")
        /\ UNCHANGED <<client, toServer, toClient, cut>>
    BY <1>1 DEF ServerAbandons, Abandon, streams
  <2> QED
    BY <1>0, <2>1, EndsUnaccepted DEF At
<1>2. CASE ServerRefuses(p)
  <2>1. /\ At(p, "load") /\ Return(p) /\ Concludes(p, "refused") /\ TakeRequest(p)
        /\ toServer[p] # <<>> /\ UNCHANGED <<client, toClient, cut>>
    BY <1>2 DEF ServerRefuses, ServerReceives, updateRefused, Calls
  <2> QED
    BY <1>0, <2>1, EndsUnaccepted DEF At
<1>3. CASE ServerReplyFails(p)
  <2>1. /\ At(p, "respond") /\ Return(p) /\ Concludes(p, "stranded")
        /\ UNCHANGED <<client, toServer, toClient, cut>>
    BY <1>3 DEF ServerReplyFails, RotateSendFails, streams
  <2> QED
    BY <1>0, <2>1, EndsUnaccepted DEF At
<1>4. CASE ServerRollsBack(p)
  <2>1. /\ At(p, "finalize") /\ cut[p] /\ Return(p) /\ Concludes(p, "rolledback")
        /\ UNCHANGED <<client, toServer, toClient, cut>>
    BY <1>4 DEF ServerRollsBack, RotateBack, streams
  <2> QED
    BY <1>0, <2>1, EndsUnaccepted DEF At
<1>5. CASE ServerLoadsBad(p)
  <2>1. /\ At(p, "load") /\ Return(p) /\ Concludes(p, "stranded") /\ TakeRequest(p)
        /\ toServer[p] # <<>> /\ UNCHANGED <<client, toClient, cut>>
    BY <1>5 DEF ServerLoadsBad, ServerReceives, updateBadCert, updateBadBundle, Calls
  <2> QED
    BY <1>0, <2>1, EndsUnaccepted DEF At
<1> QED
  BY <1>1, <1>2, <1>3, <1>4, <1>5

\* A certificate is loaded: it is the one the client signed.
LEMMA StepLoads ==
    ASSUME PInv, NEW p \in Procs, NEW b \in Bundle, ServerLoads(p, b)
    PROVE  PInv'
<1> USE CertAssumption
<1> DEFINE c == Head(toServer[p]).cert
<1>0. TypeOK /\ PTypeOK /\ StreamInv(p)
  BY DEF PInv, IInv
<1>1. /\ toServer[p] # <<>> /\ Head(toServer[p]).type = "load" /\ TakeRequest(p)
      /\ update(p, c, b) /\ UNCHANGED <<client, toClient, cut, outcome>>
  BY DEF ServerLoads, ServerReceives, results
<1>2. /\ toServer' \in [Procs -> Seq(RequestMsg)]
      /\ Elems(toServer'[p]) \subseteq Elems(toServer[p])
      /\ \A q \in Procs \ {p} : toServer'[q] = toServer[q]
      /\ Head(toServer[p]) \in Elems(toServer[p])
  BY <1>0, <1>1, Takes
<1>3. c = client[p].cert /\ c \in Certs /\ client[p].at # "csr"
  BY <1>0, <1>1, <1>2 DEF StreamInv, Requested
<1>4. rpc[p] # None /\ rpc[p] \in Rpc /\ rpc[p].at = "load"
  BY <1>0, <1>1, RpcType DEF update, Calls, At
<1>5. Handle(p)
  BY <1>1, <1>3 DEF Handle
<1>6. \A q \in Procs \ {p} : rpc'[q] = rpc[q]
  BY <1>0, <1>5, HandlerOnly
<1>7. /\ rpc'[p].op = rpc[p].op /\ rpc'[p].id = rpc[p].id
      /\ rpc'[p].at = IF rpc[p].op = "install" THEN "accept" ELSE "respond"
      /\ certInfo'[rpc[p].id] = c
  BY <1>0, <1>1, <1>4 DEF TypeOK, Rpc, update
<1>8. rpc[p].op \in {"install", "rotate"}
  BY <1>1, <1>4 DEF update, Calls, Rpc
<1>9. PTypeOK'
  BY <1>0, <1>1, <1>2 DEF PTypeOK
<1>10. Serves(p)'
  BY <1>0, <1>1, <1>3, <1>4, <1>7, <1>8 DEF StreamInv, Serves
<1>11. Requested(p)'
  BY <1>0, <1>1, <1>2 DEF StreamInv, Requested
<1>12. Answered(p)'
  BY <1>0, <1>1, <1>4 DEF StreamInv, Answered, At
<1>13. PNext
  BY DEF PNext, ServerStep
<1> QED
  BY <1>1, <1>2, <1>6, <1>9, <1>10, <1>11, <1>12, <1>13, OneStream DEF StreamInv

\* An Install is accepted.
LEMMA StepInstalls ==
    ASSUME PInv, NEW p \in Procs, ServerInstalls(p)
    PROVE  PInv'
<1> USE CertAssumption
<1>0. TypeOK /\ PTypeOK /\ StreamInv(p)
  BY DEF PInv, IInv
<1>1. /\ InstallAccept(p) /\ Concludes(p, "accepted")
      /\ UNCHANGED <<client, toServer, toClient, cut, certInfo>>
  BY DEF ServerInstalls, InstallAccept, streams
<1>2. rpc[p] # None /\ rpc[p] \in Rpc /\ rpc[p].at = "accept"
  BY <1>0, <1>1, RpcType DEF InstallAccept, At
<1>3. /\ rpc'[p].op = rpc[p].op /\ rpc'[p].id = rpc[p].id /\ rpc'[p].at = "reply"
      /\ \A q \in Procs \ {p} : rpc'[q] = rpc[q]
  BY <1>0, <1>1, <1>2 DEF TypeOK, Rpc, InstallAccept, Goto
<1>4. /\ outcome'[p] = "accepted" /\ PTypeOK'
      /\ \A q \in Procs \ {p} : outcome'[q] = outcome[q]
  BY <1>0, <1>1 DEF PTypeOK, Concludes
<1>5. client[p].op = "install"
  BY <1>0, <1>2 DEF StreamInv, Serves
<1>6. Serves(p)'
  BY <1>0, <1>1, <1>2, <1>3, <1>4 DEF StreamInv, Serves
<1>7. Requested(p)'
  BY <1>0, <1>1 DEF StreamInv, Requested
<1>8. Answered(p)'
  BY <1>0, <1>1, <1>2, <1>5 DEF StreamInv, Answered
<1>9. PNext
  BY DEF PNext, ServerStep
<1> QED
  BY <1>1, <1>3, <1>4, <1>6, <1>7, <1>8, <1>9, OneStream DEF StreamInv

\* The response to a load is sent: an Install has been accepted by then, a
\* Rotate waits for its client.
LEMMA StepReplies ==
    ASSUME PInv, NEW p \in Procs, ServerReplies(p)
    PROVE  PInv'
<1> USE CertAssumption
<1>0. TypeOK /\ PTypeOK /\ StreamInv(p)
  BY DEF PInv, IInv
<1>1. /\ toClient' = [toClient EXCEPT ![p] = Sent(toClient, p, "loaded")]
      /\ UNCHANGED <<client, toServer, cut, outcome, certInfo>>
  BY DEF ServerReplies, results, InstallReply, RotateRespond, manager
<1>2. /\ toClient' \in [Procs -> Seq({"csr", "loaded"})]
      /\ \A q \in Procs \ {p} : toClient'[q] = toClient[q]
  BY <1>0, <1>1, Responds
<1>3. PTypeOK' /\ Requested(p)'
  BY <1>0, <1>1, <1>2 DEF PTypeOK, StreamInv, Requested
<1>4. PNext
  BY DEF PNext, ServerStep
<1>5. CASE InstallReply(p)
  <2>1. /\ rpc[p] # None /\ rpc[p].at = "reply" /\ rpc'[p] = None
        /\ \A q \in Procs \ {p} : rpc'[q] = rpc[q]
    BY <1>0, <1>5 DEF InstallReply, At, Return, TypeOK
  <2>2. client[p].op = "install" /\ outcome[p] = "accepted"
    BY <1>0, <2>1 DEF StreamInv, Serves
  <2>3. Serves(p)' /\ Answered(p)'
    BY <1>0, <1>1, <2>1, <2>2 DEF StreamInv, Serves, Answered
  <2> QED
    BY <1>1, <1>2, <1>3, <1>4, <2>1, <2>3, OneStream DEF StreamInv
<1>6. CASE RotateRespond(p)
  <2>1. rpc[p] # None /\ rpc[p] \in Rpc /\ rpc[p].at = "respond"
    BY <1>0, <1>6, RpcType DEF RotateRespond, At
  <2>2. /\ rpc'[p] # None
        /\ rpc'[p].op = rpc[p].op /\ rpc'[p].id = rpc[p].id /\ rpc'[p].at = "finalize"
        /\ \A q \in Procs \ {p} : rpc'[q] = rpc[q]
    <3>1. rpc' = [rpc EXCEPT ![p].at = "finalize"]
      BY <1>6 DEF RotateRespond, Goto
    <3>2. rpc'[p] \in Rpc
      BY <1>0, <2>1, <3>1 DEF TypeOK, Rpc
    <3> QED
      BY <1>0, <2>1, <3>1, <3>2 DEF TypeOK, Rpc
  <2>3. client[p].op = "rotate"
    BY <1>0, <2>1 DEF StreamInv, Serves
  <2>4. Serves(p)'
    BY <1>0, <1>1, <2>1, <2>2 DEF StreamInv, Serves
  <2>5. Answered(p)'
    BY <1>0, <1>1, <2>2, <2>3 DEF StreamInv, Answered, At
  <2> QED
    BY <1>1, <1>2, <1>3, <1>4, <2>2, <2>4, <2>5, OneStream DEF StreamInv
<1> QED
  BY <1>5, <1>6 DEF ServerReplies

\* A Rotate is finalized: its client has returned nil.
LEMMA StepFinalizes ==
    ASSUME PInv, NEW p \in Procs, ServerFinalizes(p)
    PROVE  PInv'
<1> USE CertAssumption
<1>0. TypeOK /\ PTypeOK /\ StreamInv(p)
  BY DEF PInv, IInv
<1>1. /\ toServer[p] # <<>> /\ Head(toServer[p]).type = "finalize" /\ TakeRequest(p)
      /\ RotateAccept(p) /\ Concludes(p, "accepted") /\ UNCHANGED <<client, toClient, cut>>
  BY DEF ServerFinalizes, ServerReceives
<1>2. /\ toServer' \in [Procs -> Seq(RequestMsg)]
      /\ Elems(toServer'[p]) \subseteq Elems(toServer[p])
      /\ \A q \in Procs \ {p} : toServer'[q] = toServer[q]
      /\ Head(toServer[p]) \in Elems(toServer[p])
  BY <1>0, <1>1, Takes
<1>3. client[p].result = "ok" /\ client[p].at = "ended"
  BY <1>0, <1>1, <1>2 DEF StreamInv, Requested, Answered
<1>4. /\ rpc[p] # None /\ rpc[p].at = "finalize" /\ rpc'[p] = None
      /\ \A q \in Procs \ {p} : rpc'[q] = rpc[q]
  BY <1>0, <1>1 DEF RotateAccept, At, Return, TypeOK
<1>5. client[p].op = "rotate"
  BY <1>0, <1>4 DEF StreamInv, Serves
<1>6. /\ outcome'[p] = "accepted" /\ PTypeOK'
      /\ \A q \in Procs \ {p} : outcome'[q] = outcome[q]
  BY <1>0, <1>1, <1>2 DEF PTypeOK, Concludes
<1>7. Serves(p)'
  BY <1>4 DEF Serves
<1>8. Requested(p)'
  BY <1>0, <1>1, <1>2 DEF StreamInv, Requested
<1>9. Answered(p)'
  BY <1>0, <1>1, <1>3, <1>4, <1>5, <1>6 DEF StreamInv, Answered
<1>10. PNext
  BY DEF PNext, ServerStep
<1> QED
  BY <1>1, <1>2, <1>4, <1>6, <1>7, <1>8, <1>9, <1>10, OneStream DEF StreamInv

\* A Revoke is carried out and answered.
LEMMA StepRevokes ==
    ASSUME PInv, NEW p \in Procs, ServerRevokes(p)
    PROVE  PInv'
<1> USE CertAssumption
<1>0. TypeOK /\ PTypeOK /\ StreamInv(p)
  BY DEF PInv, IInv
<1>1. /\ toServer[p] # <<>> /\ TakeRequest(p) /\ Revoke(p, {rpc[p].id})
      /\ toClient' = [toClient EXCEPT ![p] = Sent(toClient, p, "loaded")]
      /\ Concludes(p, "accepted") /\ UNCHANGED <<client, cut>>
  BY DEF ServerRevokes, ServerReceives
<1>2. /\ toServer' \in [Procs -> Seq(RequestMsg)]
      /\ Elems(toServer'[p]) \subseteq Elems(toServer[p])
      /\ \A q \in Procs \ {p} : toServer'[q] = toServer[q]
  BY <1>0, <1>1, Takes
<1>3. /\ toClient' \in [Procs -> Seq({"csr", "loaded"})]
      /\ \A q \in Procs \ {p} : toClient'[q] = toClient[q]
  BY <1>0, <1>1, Responds
<1>4. /\ rpc[p] # None /\ rpc[p].op = "revoke" /\ rpc'[p] = None
      /\ \A q \in Procs \ {p} : rpc'[q] = rpc[q]
  BY <1>0, <1>1 DEF Revoke, At, Return, TypeOK
<1>5. client[p].op = "revoke"
  BY <1>0, <1>4 DEF StreamInv, Serves
<1>6. PTypeOK' /\ \A q \in Procs \ {p} : outcome'[q] = outcome[q]
  BY <1>0, <1>1, <1>2, <1>3 DEF PTypeOK, Concludes
<1>7. Serves(p)'
  BY <1>4 DEF Serves
<1>8. Requested(p)'
  BY <1>0, <1>1, <1>2 DEF StreamInv, Requested
<1>9. Answered(p)'
  BY <1>0, <1>1, <1>5 DEF StreamInv, Answered
<1>10. PNext
  BY DEF PNext, ServerStep
<1> QED
  BY <1>1, <1>2, <1>3, <1>4, <1>6, <1>7, <1>8, <1>9, <1>10, OneStream DEF StreamInv

-----------------------------------------------------------------------------
\* No call has been made yet.
LEMMA InitPInv == PInit => PInv
<1> SUFFICES ASSUME PInit PROVE PInv
  OBVIOUS
<1> USE CertAssumption
<1>1. IInv
  BY InitIInv DEF PInit
<1>2. Idle \in ClientCall /\ Elems(<<>>) = {}
  BY DEF Idle, ClientCall, Ops, Elems
<1>3. PTypeOK
  BY <1>2 DEF PInit, PTypeOK
<1>4. ASSUME NEW p \in Procs PROVE StreamInv(p)
  <2>1. /\ rpc[p] = None /\ client[p] = Idle /\ toServer[p] = <<>> /\ toClient[p] = <<>>
        /\ outcome[p] = "none"
    BY DEF PInit, Init
  <2> QED
    BY <1>2, <2>1 DEF StreamInv, Serves, Requested, Answered, Idle
<1> QED
  BY <1>1, <1>3, <1>4 DEF PInv

\* Every step of clients, handlers, notifiers and the network keeps the
\* invariant.
LEMMA StepPInv == PInv /\ [PNext]_allvars => PInv'
<1> SUFFICES ASSUME PInv, [PNext]_allvars PROVE PInv'
  OBVIOUS
<1>1. ASSUME NEW p \in Procs, ClientStep(p) PROVE PInv'
  BY <1>1, StepSign, StepLoaded, StepReturn DEF ClientStep
<1>2. ASSUME NEW p \in Procs, ServerStep(p) PROVE PInv'
  BY <1>2, StepCSR, StepGivesUp, StepLoads, StepInstalls, StepReplies, StepFinalizes,
     StepRevokes DEF ServerStep
<1>3. CASE UNCHANGED <<rpc, pvars>>
  <2>1. [Next]_vars /\ IInv'
    BY ProtocolStep, StepIInv DEF PInv
  <2>2. UNCHANGED <<rpc, client, toServer, toClient, cut, outcome>>
    BY <1>3 DEF pvars, streams, results
  <2>3. PTypeOK'
    BY <2>2 DEF PTypeOK, PInv
  <2>4. ASSUME NEW q \in Procs PROVE StreamInv(q)'
    BY <2>1, <2>2, OtherStream
  <2> QED
    BY <2>1, <2>3, <2>4 DEF PInv
<1>4. ASSUME \/ \E n \in Notifiers : Notify(n)
             \/ PFinished
             \/ UNCHANGED allvars
      PROVE  UNCHANGED <<rpc, pvars>>
  BY <1>4 DEF Notify, NotifyBegin, NotifyEnd, PFinished, Finished, vars, allvars
<1> QED
  BY <1>1, <1>2, <1>3, <1>4, StepOpen, StepDrop DEF PNext, Ops

\* The inductive invariant holds in every behaviour of the protocol.
THEOREM SpecPInv == PSpec => []PInv
  BY InitPInv, StepPInv, PTL DEF PSpec

\* The handlers, driven by clients over streams that break, behave as
\* CertManager says: what is proved of it holds of the whole protocol.
THEOREM ProtocolImplementsManager == PSpec => Spec
<1>1. PInit => Init
  BY DEF PInit
<1> QED
  BY <1>1, ProtocolStep, SpecPInv, PTL DEF PSpec, Spec

\* An Install that returned nil was accepted by the target.
THEOREM SpecInstallOkIsAccepted == PSpec => []InstallOkIsAccepted
<1>1. PInv => InstallOkIsAccepted
  BY DEF PInv, StreamInv, Answered, InstallOkIsAccepted
<1> QED
  BY <1>1, SpecPInv, PTL

\* A Rotate that returned an error is never committed.
THEOREM SpecFailedRotateNotAccepted == PSpec => []FailedRotateNotAccepted
<1>1. PInv => FailedRotateNotAccepted
  BY DEF PInv, StreamInv, Answered, FailedRotateNotAccepted
<1> QED
  BY <1>1, SpecPInv, PTL

\* While a client validates, the target has the certificate it signed, and no
\* other operation on its ID is in progress.
THEOREM SpecValidatesOwnCert == PSpec => []ValidatesOwnCert
<1>1. PInv => ValidatesOwnCert
  <2> SUFFICES ASSUME PInv, NEW p \in Procs, client[p].at = "validate", ~cut[p]
               PROVE  /\ certInfo[client[p].id] = client[p].cert
                      /\ \A q \in Procs : Holds(q, client[p].id) => q = p
    BY DEF ValidatesOwnCert
  <2>1. At(p, "finalize")
    BY DEF PInv, StreamInv, Answered
  <2>2. rpc[p].id = client[p].id /\ certInfo[rpc[p].id] = client[p].cert
    BY <2>1 DEF PInv, StreamInv, Serves, At
  <2>3. rpc[p].id \in CertIDs /\ Holds(p, rpc[p].id)
    BY <2>1, RpcType DEF PInv, IInv, At, Rpc, Holds
  <2> QED
    BY <2>2, <2>3 DEF PInv, IInv, OneOperationPerCert
<1> QED
  BY <1>1, SpecPInv, PTL

\* The handlers with their clients implement the abstract store of
\* certificates, whatever streams break and whichever message is lost.
COROLLARY ProtocolImplementsStore == PSpec => ImplementsStore
BY ProtocolImplementsManager, SpecImplementsStore
=============================================================================
