--------------------------- MODULE NamedPipeProofs ---------------------------
(* Proofs about NamedPipe for any clients, allow-list, queue size and bound. *)
EXTENDS NamedPipe, TLAPS

USE ClientsAssumption, SizeAssumption DEF ClientsAssumption, SizeAssumption

-----------------------------------------------------------------------------
(* Type correctness.                                                       *)

\* The operations a call starts are operations.
LEMMA OpTypes ==
    ASSUME NEW k \in {"none", "connect", "read", "write"},
           NEW s \in {"none", "pending", "cancelling", "done", "eof", "aborted"},
           NEW m \in 0..MaxMessages
    PROVE  Op(k, s, m) \in OpType /\ NoOp \in OpType
BY DEF Op, NoOp, OpType

\* Taking the head off a queue leaves a queue.
LEMMA TailTypes ==
    ASSUME NEW q \in Seq(Msg), Len(q) <= QueueSize, q # <<>>
    PROVE  Head(q) \in Msg /\ Tail(q) \in Seq(Msg) /\ Len(Tail(q)) < QueueSize
<1>1. Len(q) \in Nat /\ Len(Tail(q)) = Len(q) - 1 OBVIOUS
<1>2. Head(q) \in Msg /\ Tail(q) \in Seq(Msg) OBVIOUS
<1> QED BY <1>1, <1>2

\* And appending to a queue that is not full.
LEMMA AppendTypes ==
    ASSUME NEW q \in Seq(Msg), Len(q) < QueueSize, NEW m \in Msg
    PROVE  Append(q, m) \in Seq(Msg) /\ Len(Append(q, m)) <= QueueSize
<1>1. Len(q) \in Nat /\ Len(Append(q, m)) = Len(q) + 1 OBVIOUS
<1>2. Append(q, m) \in Seq(Msg) OBVIOUS
<1> QED BY <1>1, <1>2

\* The error kinds connect() of a client returns.
LEMMA ErrorKinds ==
    ASSUME NEW code PROVE MapPipeError(code) \in {"timeout", "busy", "connected", "io", "connect"}
BY DEF MapPipeError

\* A completed read, and a write, carry a message.
OpMsg == op.kind = "write" \/ (op.kind = "read" /\ op.status = "done") => op.msg \in Msg

\* The status and the kind of an operation may change within the types.
LEMMA OpFields ==
    ASSUME op \in OpType,
           NEW s \in {"none", "pending", "cancelling", "done", "eof", "aborted"}
    PROVE  /\ [op EXCEPT !.status = s] \in OpType
           /\ [op EXCEPT !.status = s].kind = op.kind
           /\ [op EXCEPT !.status = s].status = s
           /\ [op EXCEPT !.status = s].msg = op.msg
BY DEF OpType

TypeInv == TypeOK /\ OpMsg

\* A step of the server keeps every type.
LEMMA ServerTypes == ASSUME TypeInv, ServerStep PROVE TypeOK'
<1> USE DEF TypeInv, TypeOK, GiveUpReasons, Validating, kernelVars, serverVars, clientVars, histVars
<1>0. /\ NoOp \in OpType
      /\ \A k \in {"none", "connect", "read", "write"},
            s \in {"none", "pending", "cancelling", "done", "eof", "aborted"},
            m \in 0..MaxMessages : Op(k, s, m) \in OpType
  BY OpTypes
<1>1. ASSUME NEW h \in {"null", "overlapped"}, Connect(h) PROVE TypeOK'
  <2>1. Op("connect", "pending", 0) \in OpType BY <1>0
  <2>2. op' \in OpType BY <1>0, <1>1, <2>1 DEF Connect, ConnectBy
  <2> QED BY <1>1, <2>2 DEF Connect, ConnectBy, ToValidate
<1>2. CASE ConnectNullReturn BY <1>2 DEF ConnectNullReturn
<1>3. CASE ConnectDone BY <1>0, <1>3 DEF ConnectDone
<1>4. ASSUME NEW r \in GiveUpReasons, ConnectGiveUp(r) PROVE TypeOK'
  BY <1>4 DEF ConnectGiveUp
<1>5. CASE ConnectCancel BY <1>0, <1>5 DEF ConnectCancel
<1>6. ASSUME CutOff
      PROVE  /\ inst' = "disconnected" /\ peer' = NoClient /\ served' = FALSE
             /\ inq' = <<>> /\ outq' = <<>> /\ op' \in OpType
             /\ discarded' \in SUBSET Msg
  <2>1. {inq[i] : i \in DOMAIN inq} \subseteq Msg OBVIOUS
  <2>2. op' \in OpType BY <1>6, OpFields DEF CutOff
  <2> QED BY <1>6, <2>1, <2>2 DEF CutOff
<1>e. <<>> \in Seq(Msg) /\ Len(<<>>) <= QueueSize OBVIOUS
<1>7. CASE Disconnect BY <1>6, <1>7, <1>e DEF Disconnect
<1>8. CASE Validate \/ OpenClient \/ CheckPath
  <2>0. UNCHANGED <<orphan, how, identity, clientVars, received, swallowed, wrote, ghost, wait>>
    BY <1>8 DEF Validate, OpenClient, CheckPath
  <2>1. CASE Refuse BY <1>6, <1>e, <2>0, <2>1 DEF Refuse
  <2>2. CASE Accept BY <2>0, <2>2 DEF Accept
  <2>3. CASE ~Refuse /\ ~Accept
    <3>1. /\ UNCHANGED <<inst, peer, inq, outq, op, result, served, discarded>>
          /\ pc' \in Validating
      BY <1>8, <2>3 DEF Validate, OpenClient, CheckPath
    <3>2. vetted' \in {peer, vetted, Another}
      BY <1>8, <2>3 DEF Validate, OpenClient, CheckPath
    <3>3. vetted' \in Clients \cup {NoClient, Another} BY <3>2
    <3> QED BY <2>0, <3>1, <3>3
  <2> QED BY <2>1, <2>2, <2>3
<1>9. CASE Read
  <2>1. CASE inq # <<>>
    <3>1. Head(inq) \in Msg /\ Tail(inq) \in Seq(Msg) /\ Len(Tail(inq)) < QueueSize
      BY <2>1, TailTypes
    <3>2. Len(Tail(inq)) <= QueueSize BY <3>1
    <3>3. Head(inq) \in 0..MaxMessages BY <3>1 DEF Msg
    <3>4. Op("read", "done", Head(inq)) \in OpType BY <1>0, <3>3
    <3>5. op' \in OpType /\ pc' = "io" /\ result' = result BY <1>9, <2>1, <3>4 DEF Read
    <3>6. inq' \in Seq(Msg) /\ Len(inq') <= QueueSize BY <1>9, <2>1, <3>1, <3>2 DEF Read
    <3> QED BY <1>9, <3>5, <3>6 DEF Read
  <2>2. CASE inq = <<>>
    <3>1. Op("read", "pending", 0) \in OpType BY <1>0
    <3>2. op' \in OpType /\ inq' = inq BY <1>9, <2>2, <3>1 DEF Read
    <3> QED BY <1>9, <2>2, <3>2 DEF Read
  <2> QED BY <2>1, <2>2
<1>10. CASE Write
  <2>1. wrote + 1 \in Msg /\ wrote + 1 \in 0..MaxMessages BY <1>10 DEF Write, Msg
  <2>2. Op("write", "done", wrote + 1) \in OpType /\ Op("write", "pending", wrote + 1) \in OpType
    BY <1>0, <2>1
  <2>3. op' \in OpType BY <1>10, <2>2 DEF Write
  <2>4. outq' \in Seq(Msg) /\ Len(outq') <= QueueSize
    <3>1. CASE inst = "connected" /\ Len(outq) < QueueSize
      <4>1. outq' = Append(outq, wrote + 1) BY <1>10, <3>1 DEF Write
      <4>2. Append(outq, wrote + 1) \in Seq(Msg) /\ Len(Append(outq, wrote + 1)) <= QueueSize
        BY <2>1, <3>1, AppendTypes
      <4> QED BY <4>1, <4>2
    <3>2. CASE ~(inst = "connected" /\ Len(outq) < QueueSize)
      BY <1>10, <3>2 DEF Write
    <3> QED BY <3>1, <3>2
  <2> QED BY <1>10, <2>1, <2>3, <2>4 DEF Write
<1>11. CASE IoDone
  <2>1. received' \in Seq(Msg) BY <1>11 DEF IoDone, OpMsg
  <2> QED BY <1>0, <1>11, <2>1 DEF IoDone
<1>12. CASE IoTimeout BY <1>12 DEF IoTimeout
<1>13. CASE IoCancel BY <1>13, OpFields DEF IoCancel
<1>14. CASE IoReap
  <2>1. swallowed' \in SUBSET Msg /\ ghost' \in SUBSET Msg BY <1>14 DEF IoReap, OpMsg
  <2> QED BY <1>0, <1>14, <2>1 DEF IoReap
<1>15. CASE Flush \/ FlushReturn BY <1>15 DEF Flush, FlushReturn
<1>16. CASE Impersonate BY <1>16 DEF Impersonate
<1>17. ASSUME NEW r \in {"ok", "failed"}, Revert(r) PROVE TypeOK' BY <1>17 DEF Revert
<1> QED
  BY <1>1, <1>2, <1>3, <1>4, <1>5, <1>7, <1>8, <1>9, <1>10, <1>11, <1>12, <1>13, <1>14,
     <1>15, <1>16, <1>17 DEF ServerStep

\* So do the steps of the clients and of the kernel.
LEMMA OtherTypes ==
    ASSUME TypeInv, KernelAbort \/ OrphanDone \/ SetWait \/ \E c \in Clients : ClientStep(c)
    PROVE  TypeOK'
<1> USE DEF TypeInv, TypeOK, GiveUpReasons, Validating, kernelVars, serverVars, clientVars, histVars
<1>1. CASE KernelAbort BY <1>1, OpFields DEF KernelAbort
<1>2. CASE OrphanDone
  <2>1. /\ orphan' = FALSE
        /\ UNCHANGED <<inst, peer, op, inq, outq, serverVars, clientVars, histVars, wait>>
    BY <1>2 DEF OrphanDone
  <2>2. orphan' \in BOOLEAN BY <2>1, Zenon
  <2>3. op' \in OpType /\ inq' \in Seq(Msg) /\ outq' \in Seq(Msg) BY <2>1
  <2>4. inst' = inst /\ peer' = peer /\ pc' = pc /\ how' = how BY <2>1
  <2> QED BY <2>1, <2>2, <2>3, <2>4
<1>8. CASE SetWait BY <1>8 DEF SetWait
<1>3. ASSUME NEW c \in Clients, ClientWait(c) PROVE TypeOK'
  <2>1. err' \in [Clients -> {"none", "timeout", "busy", "connected", "io", "connect"}]
    BY <1>3, ErrorKinds DEF ClientWait
  <2> QED BY <1>3, <2>1 DEF ClientWait
<1>4. ASSUME NEW c \in Clients, ClientOpen(c) PROVE TypeOK'
  <2>1. err' \in [Clients -> {"none", "timeout", "busy", "connected", "io", "connect"}]
    BY <1>4, ErrorKinds DEF ClientOpen
  <2>2. op' \in OpType BY <1>4, OpFields DEF ClientOpen
  <2>3. /\ inst' \in {inst, "connected"} /\ peer' \in {peer, c}
        /\ UNCHANGED <<orphan, inq, outq, serverVars, sent, histVars, wait>>
    BY <1>4 DEF ClientOpen
  <2>4. cl' \in [Clients -> {"idle", "ready", "open", "busy", "closed"}]
    BY <1>4 DEF ClientOpen
  <2> QED BY <2>1, <2>2, <2>3, <2>4
<1>5. ASSUME NEW c \in Clients, ClientWrite(c) PROVE TypeOK'
  <2>1. sent + 1 \in Msg /\ sent + 1 \in 0..MaxMessages BY <1>5 DEF ClientWrite, Msg
  <2>2. Op("read", "done", sent + 1) \in OpType BY <2>1, OpTypes
  <2>3. op' \in OpType BY <1>5, <2>2 DEF ClientWrite
  <2>4. inq' \in Seq(Msg) /\ Len(inq') <= QueueSize
    <3>1. CASE inq' = inq BY <3>1
    <3>2. CASE Len(inq) < QueueSize /\ inq' = Append(inq, sent + 1)
      BY <2>1, <3>2, AppendTypes
    <3> QED BY <1>5, <3>1, <3>2 DEF ClientWrite
  <2>5. sent' \in 0..MaxMessages BY <1>5, <2>1 DEF ClientWrite
  <2> QED BY <1>5, <2>3, <2>4, <2>5 DEF ClientWrite
<1>6. ASSUME NEW c \in Clients, ClientRead(c) PROVE TypeOK'
  <2>1. Tail(outq) \in Seq(Msg) /\ Len(Tail(outq)) < QueueSize
    BY <1>6, TailTypes DEF ClientRead
  <2>2. op' \in OpType BY <1>6, OpFields DEF ClientRead
  <2>3. outq' \in Seq(Msg) /\ Len(outq') <= QueueSize
    <3>1. CASE outq' = Tail(outq)
      <4>1. Len(Tail(outq)) \in Nat BY <2>1
      <4> QED BY <2>1, <3>1, <4>1
    <3>2. CASE op.kind = "write" /\ outq' = Append(Tail(outq), op.msg)
      <4>1. op.msg \in Msg BY <3>2 DEF OpMsg
      <4> QED BY <2>1, <3>2, <4>1, AppendTypes
    <3> QED BY <1>6, <3>1, <3>2 DEF ClientRead
  <2> QED BY <1>6, <2>2, <2>3 DEF ClientRead
<1>7. ASSUME NEW c \in Clients, ClientClose(c) PROVE TypeOK'
  <2>1. op' \in OpType BY <1>7, OpFields DEF ClientClose
  <2>2. <<>> \in Seq(Msg) /\ Len(<<>>) <= QueueSize OBVIOUS
  <2>3. outq' = <<>> \/ outq' = outq BY <1>7 DEF ClientClose
  <2>4. outq' \in Seq(Msg) /\ Len(outq') <= QueueSize BY <2>2, <2>3
  <2> QED BY <1>7, <2>1, <2>4 DEF ClientClose
<1> QED BY <1>1, <1>2, <1>3, <1>4, <1>5, <1>6, <1>7, <1>8 DEF ClientStep

\* What carries a message keeps carrying one.
LEMMA OpMsgStep == ASSUME TypeInv, Next PROVE OpMsg'
<1> USE DEF TypeInv, TypeOK, OpMsg, kernelVars, NoOp, Op
<1>1. CASE UNCHANGED op BY <1>1
<1>2. CASE op' = NoOp BY <1>2
<1>3. ASSUME NEW s \in {"cancelling", "done", "eof", "aborted"},
             op' = [op EXCEPT !.status = s], op.kind = "read" => s # "done"
      PROVE  OpMsg'
  BY <1>3, OpFields
<1>4. ASSUME NEW h \in {"null", "overlapped"}, Connect(h) PROVE OpMsg'
  BY <1>4 DEF Connect, ConnectBy
<1>5. CASE Read
  <2>1. inq # <<>> => Head(inq) \in Msg BY TailTypes
  <2> QED BY <1>1, <1>5, <2>1 DEF Read
<1>6. CASE Write
  <2>1. wrote + 1 \in Msg BY <1>6 DEF Write, Msg
  <2> QED BY <1>1, <1>6, <2>1 DEF Write
<1>7. ASSUME NEW c \in Clients, ClientWrite(c) PROVE OpMsg'
  <2>1. sent + 1 \in Msg BY <1>7 DEF ClientWrite, Msg
  <2> QED BY <1>1, <1>7, <2>1 DEF ClientWrite
<1>8. CASE Disconnect \/ Validate \/ OpenClient \/ CheckPath
  BY <1>1, <1>3, <1>8 DEF Disconnect, Validate, OpenClient, CheckPath, Accept, Refuse, CutOff
<1>9. CASE IoCancel \/ KernelAbort BY <1>1, <1>3, <1>9 DEF IoCancel, KernelAbort
<1>10. ASSUME NEW c \in Clients, ClientOpen(c) \/ ClientRead(c) \/ ClientClose(c) PROVE OpMsg'
  BY <1>1, <1>3, <1>10 DEF ClientOpen, ClientRead, ClientClose
<1>11. ASSUME NEW c \in Clients, ClientWait(c) PROVE OpMsg' BY <1>1, <1>11 DEF ClientWait
<1>12. CASE \/ ConnectNullReturn \/ IoTimeout \/ Flush \/ FlushReturn \/ Impersonate
            \/ \E r \in GiveUpReasons : ConnectGiveUp(r)
            \/ \E r \in {"ok", "failed"} : Revert(r)
            \/ OrphanDone \/ SetWait \/ (pc = "aborted" /\ UNCHANGED vars)
  BY <1>1, <1>12 DEF ConnectNullReturn, IoTimeout, Flush, FlushReturn, Impersonate,
     ConnectGiveUp, Revert, OrphanDone, SetWait, vars
<1>13. CASE ConnectDone \/ ConnectCancel \/ IoDone \/ IoReap
  BY <1>2, <1>13 DEF ConnectDone, ConnectCancel, IoDone, IoReap
<1> QED
  BY <1>4, <1>5, <1>6, <1>7, <1>8, <1>9, <1>10, <1>11, <1>12, <1>13 DEF Next, ServerStep, ClientStep

\* The types, and what an operation carries, hold in every reachable state.
LEMMA TypesKept == Spec => []TypeInv
<1>1. Init => TypeInv
  <2> SUFFICES ASSUME Init PROVE TypeInv OBVIOUS
  <2>1. op = NoOp /\ NoOp \in OpType BY OpTypes DEF Init
  <2>2. OpMsg BY <2>1 DEF OpMsg, NoOp
  <2>3. <<>> \in Seq(Msg) /\ Len(<<>>) <= QueueSize /\ 0 \in 0..MaxMessages OBVIOUS
  <2> QED BY <2>1, <2>2, <2>3 DEF Init, TypeInv, TypeOK
<1>2. TypeInv /\ [Next]_vars => TypeInv'
  <2> SUFFICES ASSUME TypeInv, [Next]_vars PROVE TypeInv' OBVIOUS
  <2>1. CASE UNCHANGED vars
    BY <2>1 DEF vars, kernelVars, serverVars, clientVars, histVars, TypeInv, TypeOK, OpMsg
  <2>2. CASE Next
    BY <2>1, <2>2, ServerTypes, OtherTypes, OpMsgStep DEF Next, TypeInv
  <2> QED BY <2>1, <2>2
<1> QED BY <1>1, <1>2, PTL DEF Spec

\* Every variable of the server, the clients and the kernel keeps its type.
THEOREM TypeCorrect == Spec => []TypeOK
<1>1. TypeInv => TypeOK BY DEF TypeInv
<1> QED BY <1>1, TypesKept, PTL

-----------------------------------------------------------------------------
(* Safety of connect, read, write and impersonation.                       *)

\* The inductive invariant.  PeerInv: an instance nobody has opened has no
\* peer, and the peer of a connected one holds it open.  OpInv: a connect that completed found a client, and the operation in
\* the kernel belongs to the call that started it.  ValidInv: connect reaches
\* validate_connected_client, and Ok, only with a client behind it.  VettedInv:
\* once the check has taken a client's id, that client is the peer or nobody is,
\* and the process it has opened is another one only if the client is gone.
PeerInv ==
    /\ inst \in {"listening", "disconnected"} => peer = NoClient
    /\ inst = "connected" => peer \in Clients /\ cl[peer] = "open"
VettedInv ==
    /\ pc \in {"openClient", "readPath"} => Allowed # {} /\ inst # "listening"
    /\ pc = "openClient" => vetted \in Clients /\ peer \in {vetted, NoClient}
    /\ pc = "readPath" =>
           \/ vetted \in Clients /\ peer \in {vetted, NoClient}
           \/ vetted = Another /\ (peer = NoClient \/ inst = "closing")
    /\ served /\ inst = "listening" => Allowed = {}
    /\ pc \in {"connecting", "validate", "openClient", "readPath"} => served = FALSE
OpInv ==
    /\ op.kind = "none" => op.status = "none"
    /\ op.kind = "connect" /\ op.status = "done" => inst # "listening"
ValidInv == pc = "validate" /\ how = "overlapped" => inst # "listening"

Safe ==
    /\ PeerInv /\ OpInv /\ ValidInv /\ VettedInv
    /\ AllowListHolds /\ AcceptedClientExists /\ IoBufferOutlivesIo /\ IdentityRestored

\* A fresh instance satisfies it.
LEMMA SafeInit == Init => Safe
BY DEF Init, Safe, PeerInv, OpInv, ValidInv, VettedInv, AllowListHolds, AcceptedClientExists,
   IoBufferOutlivesIo, IdentityRestored, NoOp

\* A step of the server preserves the invariant.
LEMMA SafeServer == ASSUME TypeOK, Safe, ServerStep PROVE Safe'
<1> USE DEF TypeOK, Safe, PeerInv, OpInv, ValidInv, VettedInv, AllowListHolds, AcceptedClientExists,
        IoBufferOutlivesIo, IdentityRestored, NoOp, Op, InFlight,
        kernelVars, serverVars, clientVars, histVars
<1>0. op.status # "none" => op.kind # "none" OBVIOUS
<1>1. ASSUME NEW h \in {"null", "overlapped"}, Connect(h) PROVE Safe'
  BY <1>1 DEF Connect, ConnectBy, ToValidate
<1>2. CASE ConnectNullReturn BY <1>2 DEF ConnectNullReturn
<1>3. CASE ConnectDone
  <2>1. op.kind \in {"none", "connect", "read", "write"} BY DEF OpType
  <2>2. op.kind = "connect" BY <1>3, <2>1 DEF ConnectDone
  <2>3. inst' = inst /\ peer' = peer /\ op' = NoOp /\ pc' \in {"validate", "idle"}
    BY <1>3 DEF ConnectDone
  <2>4. pc' = "validate" => inst # "listening" BY <1>3, <2>2 DEF ConnectDone
  <2> QED BY <1>3, <2>3, <2>4 DEF ConnectDone
<1>4. ASSUME NEW r \in GiveUpReasons, ConnectGiveUp(r) PROVE Safe'
  BY <1>4 DEF ConnectGiveUp
<1>5. CASE ConnectCancel BY <1>5 DEF ConnectCancel
<1>6. ASSUME CutOff
      PROVE  /\ inst' = "disconnected" /\ peer' = NoClient /\ served' = FALSE
             /\ op'.kind = op.kind /\ OpInv'
  BY <1>6, OpFields DEF CutOff
<1>7. CASE Disconnect BY <1>6, <1>7 DEF Disconnect
<1>8. ASSUME Refuse, pc \in Validating, UNCHANGED <<cl, how, identity>> PROVE Safe'
  <2>1. pc' = "idle" /\ CutOff BY <1>8 DEF Refuse
  <2>2. op.kind \notin {"read", "write"} /\ identity = "self" BY <1>8 DEF Validating
  <2>3. /\ inst' = "disconnected" /\ peer' = NoClient /\ served' = FALSE
        /\ op'.kind = op.kind /\ OpInv'
    BY <1>6, <2>1
  <2>4. PeerInv' /\ ValidInv' /\ VettedInv' BY <2>1, <2>3
  <2>5. AllowListHolds' /\ AcceptedClientExists' /\ IoBufferOutlivesIo' BY <2>2, <2>3
  <2>6. IdentityRestored' BY <1>8, <2>2
  <2> QED BY <2>3, <2>4, <2>5, <2>6
<1>19. CASE Validate
  <2>1. CASE Refuse BY <1>8, <1>19, <2>1 DEF Validate, Validating
  <2>2. CASE Accept /\ Allowed = {} BY <1>19, <2>2 DEF Validate, Accept
  <2>3. CASE ~Refuse /\ Allowed # {}
    <3>1. /\ vetted' = peer /\ peer # NoClient /\ pc' = "openClient" /\ pc = "validate"
          /\ UNCHANGED <<inst, peer, op, served, how, identity, cl>>
      BY <1>19, <2>3 DEF Validate
    <3>2. VettedInv' BY <2>3, <3>1
    <3> QED BY <3>1, <3>2
  <2> QED BY <1>19, <2>1, <2>2, <2>3 DEF Validate
<1>20. CASE OpenClient
  <2>1. CASE Refuse BY <1>8, <1>20, <2>1 DEF OpenClient, Validating
  <2>2. CASE ~Refuse
    <3>1. /\ vetted' \in {vetted} \cup IF cl[vetted] = "closed" THEN {Another} ELSE {}
          /\ pc = "openClient" /\ pc' = "readPath"
          /\ UNCHANGED <<inst, peer, op, served, how, identity, cl>>
      BY <1>20, <2>2 DEF OpenClient
    <3>2. vetted' = vetted \/ (vetted' = Another /\ cl[vetted] = "closed") BY <3>1
    <3>3. VettedInv' BY <3>1, <3>2
    <3> QED BY <3>1, <3>3
  <2> QED BY <2>1, <2>2
<1>21. CASE CheckPath
  <2>1. CASE Refuse BY <1>8, <1>21, <2>1 DEF CheckPath, Validating
  <2>2. CASE ~Refuse BY <1>21, <2>2 DEF CheckPath, Accept, Validating
  <2> QED BY <2>1, <2>2
<1>9. CASE Read BY <1>9 DEF Read
<1>10. CASE Write BY <1>10 DEF Write
<1>11. CASE IoDone BY <1>11 DEF IoDone
<1>12. CASE IoTimeout BY <1>12 DEF IoTimeout
<1>13. CASE IoCancel BY <1>13, OpFields DEF IoCancel
<1>14. CASE IoReap BY <1>14 DEF IoReap
<1>15. CASE Flush BY <1>15 DEF Flush
<1>16. CASE FlushReturn BY <1>16 DEF FlushReturn
<1>17. CASE Impersonate BY <1>17 DEF Impersonate
<1>18. ASSUME NEW r \in {"ok", "failed"}, Revert(r) PROVE Safe' BY <1>18 DEF Revert
<1> QED
  BY <1>1, <1>2, <1>3, <1>4, <1>5, <1>7, <1>19, <1>20, <1>21, <1>9, <1>10, <1>11, <1>12,
     <1>13, <1>14, <1>15, <1>16, <1>17, <1>18 DEF ServerStep

\* So does a step of a client or of the kernel.
LEMMA SafeOther ==
    ASSUME TypeOK, Safe,
           KernelAbort \/ OrphanDone \/ SetWait \/ \E c \in Clients : ClientStep(c)
    PROVE  Safe'
<1> USE DEF TypeOK, Safe, PeerInv, OpInv, ValidInv, VettedInv, AllowListHolds, AcceptedClientExists,
        IoBufferOutlivesIo, IdentityRestored, NoOp, Op, InFlight,
        kernelVars, serverVars, clientVars, histVars
<1>1. CASE KernelAbort BY <1>1, OpFields DEF KernelAbort
<1>2. CASE OrphanDone BY <1>2 DEF OrphanDone
<1>3. CASE SetWait BY <1>3 DEF SetWait
<1>4. ASSUME NEW c \in Clients, ClientWait(c) PROVE Safe' BY <1>4 DEF ClientWait
<1>5. ASSUME NEW c \in Clients, ClientOpen(c) PROVE Safe'
  <2>1. CASE inst = "listening"
    <3>1. /\ peer = NoClient /\ (served => Allowed = {})
          /\ pc \notin {"openClient", "readPath"}
      BY <2>1
    <3>2. inst' = "connected" /\ peer' = c /\ served' = served /\ pc' = pc /\ identity' = identity
      BY <1>5, <2>1 DEF ClientOpen
    <3>3. op'.kind = op.kind /\ (op.kind = "none" => op'.status = "none")
      BY <1>5, <2>1, OpFields DEF ClientOpen
    <3>4. cl'[c] = "open" BY <1>5, <2>1 DEF ClientOpen
    <3>5. PeerInv' /\ OpInv' /\ ValidInv' /\ VettedInv' BY <3>1, <3>2, <3>3, <3>4
    <3>6. AllowListHolds' /\ AcceptedClientExists' BY <3>1, <3>2
    <3>7. IoBufferOutlivesIo' /\ IdentityRestored' BY <3>2, <3>3
    <3> QED BY <3>5, <3>6, <3>7
  <2>2. CASE inst # "listening" BY <1>5, <2>2 DEF ClientOpen
  <2> QED BY <2>1, <2>2
<1>6. ASSUME NEW c \in Clients, ClientWrite(c) PROVE Safe' BY <1>6 DEF ClientWrite
<1>7. ASSUME NEW c \in Clients, ClientRead(c) PROVE Safe'
  <2>1. op'.kind = op.kind /\ (op.kind = "connect" \/ op.kind = "none" => op' = op)
    BY <1>7, OpFields DEF ClientRead
  <2>2. inst' = inst /\ peer' = peer /\ cl' = cl BY <1>7 DEF ClientRead
  <2>3. PeerInv' /\ OpInv' BY <2>1, <2>2
  <2> QED BY <1>7, <2>1, <2>2, <2>3 DEF ClientRead
<1>8. ASSUME NEW c \in Clients, ClientClose(c) PROVE Safe' BY <1>8, OpFields DEF ClientClose
<1> QED BY <1>1, <1>2, <1>3, <1>4, <1>5, <1>6, <1>7, <1>8 DEF ClientStep

\* The invariant holds in every reachable state.
THEOREM Safety == Spec => []Safe
<1>1. Init => Safe BY SafeInit
<1>2. TypeOK /\ Safe /\ [Next]_vars => Safe'
  <2> SUFFICES ASSUME TypeOK, Safe, [Next]_vars PROVE Safe' OBVIOUS
  <2>1. CASE UNCHANGED vars
    BY <2>1 DEF vars, kernelVars, serverVars, clientVars, histVars, Safe, PeerInv, OpInv, ValidInv, VettedInv,
       AllowListHolds, AcceptedClientExists, IoBufferOutlivesIo, IdentityRestored
  <2>2. CASE Next BY <2>1, <2>2, SafeServer, SafeOther DEF Next
  <2> QED BY <2>1, <2>2
<1> QED BY <1>1, <1>2, TypeCorrect, PTL DEF Spec

\* A client that is connected after connect accepted is on the allow-list, for
\* every list and whatever connects, timeouts, cancels, disconnects and exits of
\* clients came before or between the steps of the check; one that is not on it
\* had left before its process was opened.
THEOREM AllowListIsEnforced == Spec => []AllowListHolds
<1>1. Safe => AllowListHolds BY DEF Safe
<1> QED BY <1>1, Safety, PTL

\* connect_with_timeout and connect_with_wait return Ok only with a client.
THEOREM AcceptMeansClient == Spec => []AcceptedClientExists
<1>1. Safe => AcceptedClientExists BY DEF Safe
<1> QED BY <1>1, Safety, PTL

\* No read or write outlives the OVERLAPPED and the buffer of its call.
THEOREM IoIsOwned == Spec => []IoBufferOutlivesIo
<1>1. Safe => IoBufferOutlivesIo BY DEF Safe
<1> QED BY <1>1, Safety, PTL

\* No call of the server returns with the identity of a client.
THEOREM IdentityIsRestored == Spec => []IdentityRestored
<1>1. Safe => IdentityRestored BY DEF Safe
<1> QED BY <1>1, Safety, PTL
-----------------------------------------------------------------------------
(* Where the messages of the clients are.                                  *)

Elements(q) == {q[i] : i \in DOMAIN q}
Distinct(q) == \A i, j \in DOMAIN q : q[i] = q[j] => i = j

\* Appending adds one element.
LEMMA ElementsAppend ==
    ASSUME NEW q \in Seq(Msg), NEW m \in Msg
    PROVE  /\ Elements(Append(q, m)) = Elements(q) \cup {m}
           /\ Distinct(q) /\ m \notin Elements(q) => Distinct(Append(q, m))
<1>1. /\ Len(q) \in Nat /\ DOMAIN q = 1..Len(q)
      /\ DOMAIN Append(q, m) = 1..(Len(q) + 1)
      /\ \A i \in 1..Len(q) : Append(q, m)[i] = q[i]
      /\ Append(q, m)[Len(q) + 1] = m
  OBVIOUS
<1>2. 1..(Len(q) + 1) = 1..Len(q) \cup {Len(q) + 1}
  BY <1>1
<1> QED BY <1>1, <1>2 DEF Elements, Distinct

\* Taking the head of a queue without repetitions removes exactly that element.
LEMMA ElementsTail ==
    ASSUME NEW q \in Seq(Msg), q # <<>>, Distinct(q)
    PROVE  /\ Elements(q) = Elements(Tail(q)) \cup {Head(q)}
           /\ Head(q) \notin Elements(Tail(q))
           /\ Distinct(Tail(q))
<1>1. /\ Len(q) \in Nat /\ Len(q) > 0 /\ DOMAIN q = 1..Len(q)
      /\ DOMAIN Tail(q) = 1..(Len(q) - 1)
      /\ \A i \in 1..(Len(q) - 1) : Tail(q)[i] = q[i + 1]
      /\ Head(q) = q[1]
  OBVIOUS
<1>2. \A i \in 1..Len(q) : i = 1 \/ (i - 1 \in 1..(Len(q) - 1) /\ q[i] = Tail(q)[i - 1])
  <2> SUFFICES ASSUME NEW i \in 1..Len(q), i # 1
               PROVE  i - 1 \in 1..(Len(q) - 1) /\ q[i] = Tail(q)[i - 1]
    OBVIOUS
  <2>1. i - 1 \in 1..(Len(q) - 1) BY <1>1
  <2>2. Tail(q)[i - 1] = q[(i - 1) + 1] BY <1>1, <2>1
  <2> QED BY <2>1, <2>2
<1>3. \A i \in 1..(Len(q) - 1) : i + 1 \in 1..Len(q) /\ i + 1 # 1
  BY <1>1
<1>4. Elements(q) \subseteq Elements(Tail(q)) \cup {Head(q)}
  <2> SUFFICES ASSUME NEW i \in 1..Len(q), i # 1 PROVE q[i] \in Elements(Tail(q))
    BY <1>1 DEF Elements
  <2> QED BY <1>1, <1>2 DEF Elements
<1>5. Elements(Tail(q)) \subseteq Elements(q) /\ Head(q) \in Elements(q)
  BY <1>1, <1>3 DEF Elements
<1>6. Head(q) \notin Elements(Tail(q))
  BY <1>1, <1>3 DEF Elements, Distinct
<1>7. Distinct(Tail(q))
  BY <1>1, <1>3 DEF Distinct
<1> QED BY <1>4, <1>5, <1>6, <1>7

\* The message of a completed read that has not returned.
Held == IF op.kind = "read" /\ op.status = "done" THEN {op.msg} ELSE {}

\* The five places hold the messages sent so far and share none; the pipe holds
\* no message twice.
Accounted ==
    /\ Elements(inq) \cup Held \cup Elements(received) \cup discarded \cup swallowed = 1..sent
    /\ Elements(inq) \cap Held = {} /\ Elements(inq) \cap Elements(received) = {}
    /\ Elements(inq) \cap discarded = {} /\ Elements(inq) \cap swallowed = {}
    /\ Held \cap Elements(received) = {} /\ Held \cap discarded = {} /\ Held \cap swallowed = {}
    /\ Elements(received) \cap discarded = {} /\ Elements(received) \cap swallowed = {}
    /\ discarded \cap swallowed = {}
    /\ Distinct(inq)

\* It says what ReadAccounted says.
LEMMA AccountedMeans == Accounted => ReadAccounted
<1> SUFFICES ASSUME Accounted PROVE ReadAccounted
  OBVIOUS
<1>1. /\ Places[1] = Elements(inq) /\ Places[2] = Held /\ Places[3] = Elements(received)
      /\ Places[4] = discarded /\ Places[5] = swallowed
  BY DEF Places, Elements, Held
<1>2. 1..5 = {1, 2, 3, 4, 5}
  OBVIOUS
<1>3. UNION {Places[i] : i \in 1..5}
        = Places[1] \cup Places[2] \cup Places[3] \cup Places[4] \cup Places[5]
  BY <1>2, Zenon
<1>4. UNION {Places[i] : i \in 1..5} = 1..sent
  BY <1>1, <1>3 DEF Accounted
<1>5. \A i, j \in {1, 2, 3, 4, 5} : i # j => Places[i] \cap Places[j] = {}
  BY <1>1 DEF Accounted
<1> QED BY <1>2, <1>4, <1>5 DEF ReadAccounted

\* The steps that leave every message where it is.
Unmoved == UNCHANGED <<inq, Held, received, discarded, swallowed, sent>>

\* They preserve the accounting.
LEMMA UnmovedAccounted == ASSUME Accounted, Unmoved PROVE Accounted'
BY DEF Accounted, Unmoved

\* A step of the server moves a message only in Read, IoDone, IoReap and where
\* DisconnectNamedPipe empties the pipe.
LEMMA AccountedServer ==
    ASSUME TypeInv, TypeInv', Safe, Accounted, ServerStep PROVE Accounted'
<1> USE DEF kernelVars, serverVars, clientVars, histVars
<1>0. /\ inq \in Seq(Msg) /\ received \in Seq(Msg) /\ op \in OpType
      /\ op.kind \in {"read", "write"} => pc \in {"io", "ioCancel", "ioReap"}
  BY DEF TypeInv, TypeOK, Safe, IoBufferOutlivesIo
<1>1. pc \notin {"io", "ioCancel", "ioReap"} => Held = {}
  BY <1>0 DEF Held
<1>2. ASSUME NEW h \in {"null", "overlapped"}, Connect(h) PROVE Accounted'
  <2>1. Held' = {}
    BY <1>0, <1>2 DEF Connect, ConnectBy, Held, Op, NoOp
  <2> QED BY <1>1, <1>2, <2>1, UnmovedAccounted DEF Connect, ConnectBy, Unmoved
<1>3. CASE ConnectNullReturn \/ (\E r \in GiveUpReasons : ConnectGiveUp(r)) \/ IoTimeout
  <2>1. UNCHANGED <<inq, op, received, discarded, swallowed, sent>>
    BY <1>3 DEF ConnectNullReturn, ConnectGiveUp, IoTimeout
  <2> QED BY <2>1, UnmovedAccounted DEF Unmoved, Held
<1>4. CASE Flush \/ FlushReturn \/ Impersonate \/ \E r \in {"ok", "failed"} : Revert(r)
  <2>1. UNCHANGED <<inq, op, received, discarded, swallowed, sent>>
    BY <1>4 DEF Flush, FlushReturn, Impersonate, Revert
  <2> QED BY <2>1, UnmovedAccounted DEF Unmoved, Held
<1>5. CASE ConnectDone \/ ConnectCancel
  <2>1. Held' = {}
    BY <1>5 DEF ConnectDone, ConnectCancel, Held, NoOp
  <2> QED BY <1>1, <1>5, <2>1, UnmovedAccounted DEF ConnectDone, ConnectCancel, Unmoved
<1>6. CASE IoCancel
  <2>1. Held' = Held
    BY <1>0, <1>6, OpFields DEF IoCancel, Held
  <2> QED BY <1>6, <2>1, UnmovedAccounted DEF IoCancel, Unmoved
<1>7. CASE Write
  <2>1. Held' = {}
    BY <1>0, <1>7 DEF Write, Held, Op
  <2> QED BY <1>1, <1>7, <2>1, UnmovedAccounted DEF Write, Unmoved
<1>8. ASSUME CutOff, UNCHANGED <<received, swallowed, sent>> PROVE Accounted'
  <2>1. Held' = Held
    BY <1>0, <1>8, OpFields DEF CutOff, Held
  <2>2. Elements(inq') = {} /\ Distinct(inq')
    BY <1>8 DEF CutOff, Elements, Distinct
  <2>3. discarded' = discarded \cup Elements(inq)
    BY <1>8 DEF CutOff, Elements
  <2> QED BY <1>8, <2>1, <2>2, <2>3 DEF Accounted
<1>9. CASE Disconnect
  BY <1>8, <1>9 DEF Disconnect
<1>10. CASE Validate \/ OpenClient \/ CheckPath
  <2>1. CASE CutOff
    BY <1>8, <1>10, <2>1 DEF Validate, OpenClient, CheckPath
  <2>2. CASE ~CutOff
    <3>1. UNCHANGED <<inq, op, received, discarded, swallowed, sent>>
      BY <1>10, <2>2 DEF Validate, OpenClient, CheckPath, Accept, Refuse
    <3> QED BY <3>1, UnmovedAccounted DEF Unmoved, Held
  <2> QED BY <2>1, <2>2
<1>11. CASE Read
  <2>1. CASE inq # <<>>
    <3>1. Held = {} /\ op' = [kind |-> "read", status |-> "done", msg |-> Head(inq)]
      BY <1>1, <1>11, <2>1 DEF Read, Op
    <3>4. Held' = {Head(inq)}
      BY <3>1 DEF Held
    <3>2. inq' = Tail(inq) /\ UNCHANGED <<received, discarded, swallowed, sent>>
      BY <1>11, <2>1 DEF Read
    <3>3. /\ Elements(inq) = Elements(inq') \cup {Head(inq)}
          /\ Head(inq) \notin Elements(inq') /\ Distinct(inq')
      BY <1>0, <2>1, <3>2, ElementsTail DEF Accounted
    <3> QED BY <3>1, <3>2, <3>3, <3>4 DEF Accounted
  <2>2. CASE inq = <<>>
    <3>1. Held = {} /\ Held' = {}
      BY <1>0, <1>1, <1>11, <2>2 DEF Read, Held, Op
    <3> QED BY <1>11, <2>2, <3>1, UnmovedAccounted DEF Read, Unmoved
  <2> QED BY <2>1, <2>2
<1>12. CASE IoDone
  <2>1. Held' = {} /\ UNCHANGED <<inq, discarded, swallowed, sent>>
    BY <1>12 DEF IoDone, Held, NoOp
  <2>2. Elements(received') = Elements(received) \cup Held
    <3>1. CASE op.kind = "read" /\ op.status = "done"
      <4>1. op.msg \in Msg /\ received' = Append(received, op.msg) /\ Held = {op.msg}
        BY <1>12, <3>1 DEF IoDone, Held, TypeInv, OpMsg
      <4> QED BY <1>0, <4>1, ElementsAppend
    <3>2. CASE ~(op.kind = "read" /\ op.status = "done")
      BY <1>12, <3>2 DEF IoDone, Held
    <3> QED BY <3>1, <3>2
  <2> QED BY <2>1, <2>2 DEF Accounted
<1>13. CASE IoReap
  <2>1. /\ Held' = {} /\ UNCHANGED <<inq, received, discarded, sent>>
        /\ swallowed' = swallowed \cup Held
    BY <1>13 DEF IoReap, Held, NoOp
  <2> QED BY <2>1 DEF Accounted
<1> QED
  BY <1>2, <1>3, <1>4, <1>5, <1>6, <1>7, <1>9, <1>10, <1>11, <1>12, <1>13 DEF ServerStep

\* A client adds a message, to the pipe or to the read in flight; its other
\* steps, and the kernel's, move none.
LEMMA AccountedOther ==
    ASSUME TypeInv, Accounted,
           KernelAbort \/ OrphanDone \/ SetWait \/ \E c \in Clients : ClientStep(c)
    PROVE  Accounted'
<1> USE DEF kernelVars, serverVars, clientVars, histVars
<1>0. inq \in Seq(Msg) /\ received \in Seq(Msg) /\ op \in OpType /\ sent \in 0..MaxMessages
  BY DEF TypeInv, TypeOK
<1>1. CASE OrphanDone \/ SetWait \/ \E c \in Clients : ClientWait(c)
  <2>1. UNCHANGED <<inq, op, received, discarded, swallowed, sent>>
    BY <1>1 DEF OrphanDone, SetWait, ClientWait
  <2> QED BY <2>1, UnmovedAccounted DEF Unmoved, Held
<1>2. CASE KernelAbort
  <2>1. Held' = Held
    BY <1>0, <1>2, OpFields DEF KernelAbort, Held
  <2> QED BY <1>2, <2>1, UnmovedAccounted DEF KernelAbort, Unmoved
<1>3. ASSUME NEW c \in Clients, ClientOpen(c) \/ ClientRead(c) \/ ClientClose(c) PROVE Accounted'
  <2>1. \/ op' = op
        \/ op.kind # "read" /\ op' = [op EXCEPT !.status = "done"]
        \/ InFlight /\ op' = [op EXCEPT !.status = "eof"]
    BY <1>3 DEF ClientOpen, ClientRead, ClientClose
  <2>2. Held' = Held
    BY <1>0, <2>1, OpFields DEF Held, InFlight
  <2> QED BY <1>3, <2>2, UnmovedAccounted DEF ClientOpen, ClientRead, ClientClose, Unmoved
<1>4. ASSUME NEW c \in Clients, ClientWrite(c) PROVE Accounted'
  <2>1. /\ sent' = sent + 1 /\ sent + 1 \in Msg
        /\ 1..sent' = 1..sent \cup {sent + 1} /\ sent + 1 \notin 1..sent
        /\ UNCHANGED <<received, discarded, swallowed>>
    BY <1>0, <1>4 DEF ClientWrite, Msg
  <2>2. CASE op.kind = "read" /\ InFlight
    <3>1. Held = {} /\ Held' = {sent + 1} /\ inq' = inq
      BY <1>4, <2>2 DEF ClientWrite, Held, InFlight, Op
    <3> QED BY <2>1, <3>1 DEF Accounted
  <2>3. CASE ~(op.kind = "read" /\ InFlight)
    <3>1. inq' = Append(inq, sent + 1) /\ Held' = Held
      BY <1>4, <2>3 DEF ClientWrite, Held
    <3>2. sent + 1 \notin Elements(inq)
      BY <2>1 DEF Accounted
    <3>3. Elements(inq') = Elements(inq) \cup {sent + 1} /\ Distinct(inq')
      BY <1>0, <2>1, <3>1, <3>2, ElementsAppend DEF Accounted
    <3> QED BY <2>1, <3>1, <3>3 DEF Accounted
  <2> QED BY <2>2, <2>3
<1> QED BY <1>1, <1>2, <1>3, <1>4 DEF ClientStep

\* No message of a client is lost or returned twice: each is in the pipe, in a
\* read that has not returned, returned, discarded by a disconnect or taken by
\* a read that reported TimedOut, and in one of these only.
THEOREM MessagesAccounted == Spec => []ReadAccounted
<1>1. Init => Accounted
  <2> SUFFICES ASSUME Init PROVE Accounted
    OBVIOUS
  <2>1. Elements(inq) = {} /\ Elements(received) = {} /\ Distinct(inq)
    BY DEF Init, Elements, Distinct
  <2>2. Held = {} /\ discarded = {} /\ swallowed = {} /\ 1..sent = {}
    BY DEF Init, Held, NoOp
  <2> QED BY <2>1, <2>2 DEF Accounted
<1>2. TypeInv /\ TypeInv' /\ Safe /\ Accounted /\ [Next]_vars => Accounted'
  <2> SUFFICES ASSUME TypeInv, TypeInv', Safe, Accounted, [Next]_vars PROVE Accounted'
    OBVIOUS
  <2>1. CASE UNCHANGED vars
    <3>1. UNCHANGED <<inq, op, received, discarded, swallowed, sent>>
      BY <2>1 DEF vars, kernelVars, clientVars, histVars
    <3> QED BY <3>1, UnmovedAccounted DEF Unmoved, Held
  <2>2. CASE Next
    BY <2>1, <2>2, AccountedServer, AccountedOther DEF Next
  <2> QED BY <2>1, <2>2
<1> QED BY <1>1, <1>2, AccountedMeans, TypesKept, Safety, PTL DEF Spec
=============================================================================
