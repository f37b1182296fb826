------------------------------ MODULE NamedPipe ------------------------------
(***************************************************************************)
(* One named-pipe instance with its server (src/pipes/server.rs) and the   *)
(* clients that open it (src/pipes/client.rs).                             *)
(*                                                                         *)
(* The server handle is opened for overlapped I/O: connect_with_wait_      *)
(* timeout, read and write start an operation in the kernel, wait for it   *)
(* or for a timeout, and on a timeout cancel it.  The kernel completes an  *)
(* operation when a client acts, which may be in any of these steps.       *)
(* read and write take &mut self, so they exclude every other call;        *)
(* connect and disconnect take &self, so another thread may disconnect     *)
(* while one connects.  A message stands for what one read returns.        *)
(***************************************************************************)
EXTENDS Integers, Sequences

CONSTANTS
    Clients,     \* client processes
    NoClient,    \* no client has the instance open
    Another,     \* a process that was given the id of a client that has exited
    Allowed,     \* clients whose executable is on the allow-list; {}: no list
    QueueSize,   \* messages the in and out buffers hold
    MaxMessages  \* bound: messages written in each direction

ASSUME ClientsAssumption ==
    /\ NoClient \notin Clients /\ Another \notin Clients /\ Another # NoClient
    /\ Allowed \subseteq Clients
ASSUME SizeAssumption == QueueSize \in Nat \ {0} /\ MaxMessages \in Nat

VARIABLES
    inst,      \* state of the pipe instance in the kernel
    peer,      \* the client that opened it
    op,        \* the overlapped operation of the call in progress
    orphan,    \* a cancelled connect whose OVERLAPPED went out of scope first
    inq, outq, \* bytes in the pipe, client to server and server to client
    pc,        \* where the server is inside a call
    how,       \* the last connect: "null" for connect(), else "overlapped"
    result,    \* outcome of the last server call
    served,    \* connect returned Ok and the server did not disconnect since
    vetted,    \* the process whose path the allow-list check looks at
    wait,      \* the external Wait of connect_with_wait
    identity,  \* the identity the server thread runs with
    cl,        \* state of each client
    err,       \* error kind client connect() returned
    sent,      \* history: messages written by clients
    received,  \* history: messages returned by read
    discarded, \* history: messages thrown away by disconnect
    swallowed, \* history: messages taken by a read that reported TimedOut
    wrote,     \* history: messages the server tried to write
    ghost      \* history: messages put in the pipe by a write that reported TimedOut

kernelVars == <<inst, peer, op, orphan, inq, outq>>
serverVars == <<pc, how, result, served, vetted, identity>>
clientVars == <<cl, err, sent>>
histVars == <<received, discarded, swallowed, wrote, ghost>>
vars == <<kernelVars, serverVars, clientVars, histVars, wait>>

NoOp == [kind |-> "none", status |-> "none", msg |-> 0]
Op(k, s, m) == [kind |-> k, status |-> s, msg |-> m]
Validating == {"validate", "openClient", "readPath"}
InFlight == op.status \in {"pending", "cancelling"}

-----------------------------------------------------------------------------
(* NamedPipeServer: connect and disconnect.                                *)

\* ConnectNamedPipe starts, given what a connected instance and a pending
\* request lead to.
ConnectBy(h, Connected, afterPending) ==
    /\ pc = "idle"
    /\ how' = h /\ vetted' = NoClient
    /\ \/ /\ inst \in {"listening", "disconnected"}
          /\ inst' = "listening"
          /\ op' = IF h = "overlapped" THEN Op("connect", "pending", 0) ELSE NoOp
          /\ pc' = afterPending /\ served' = FALSE
          /\ UNCHANGED result
       \/ /\ inst = "connected"
          /\ Connected
          /\ UNCHANGED <<inst, op>>
       \/ /\ inst = "closing"
          /\ result' = "failed" /\ served' = FALSE
          /\ UNCHANGED <<pc, inst, op>>
    /\ UNCHANGED <<peer, orphan, inq, outq, identity, clientVars, histVars, wait>>

ToValidate == pc' = "validate" /\ served' = FALSE /\ UNCHANGED result

\* A mutant: ERROR_PIPE_CONNECTED is reported as a failure.
Connect_RefuseConnected(h) ==
    ConnectBy(h, result' = "failed" /\ served' = FALSE /\ UNCHANGED pc, "connecting")

\* A mutant: ERROR_PIPE_CONNECTED returns Ok without the allow-list check.
Connect_NoCheck(h) ==
    ConnectBy(h, result' = "ok" /\ served' = TRUE /\ UNCHANGED pc, "connecting")

\* ConnectNamedPipe.  A client that came first is ERROR_PIPE_CONNECTED, one
\* that came and went ERROR_NO_DATA, which fails the call; otherwise the
\* request is pending.
Connect(h) == ConnectBy(h, ToValidate, "connecting")

\* connect() gives ConnectNamedPipe no OVERLAPPED on an overlapped handle:
\* the call may report completion before a client has connected.
ConnectNullReturn ==
    /\ pc = "connecting"
    /\ how = "null"
    /\ \/ pc' = "validate" /\ UNCHANGED result
       \/ inst = "disconnected" /\ pc' = "idle" /\ result' = "failed"
    /\ UNCHANGED <<kernelVars, how, vetted, served, identity, clientVars, histVars, wait>>

\* WAIT_OBJECT_0: the connect event is signaled.
ConnectDone ==
    /\ pc = "connecting"
    /\ op.status \in {"done", "eof"}
    /\ op' = NoOp
    /\ \/ op.status = "done" /\ pc' = "validate" /\ UNCHANGED result
       \/ op.status = "eof" /\ pc' = "idle" /\ result' = "failed"
    /\ UNCHANGED <<inst, peer, orphan, inq, outq, how, vetted, served, identity,
                   clientVars, histVars, wait>>

\* The wait ends with the external handle, the timeout or WAIT_FAILED, in this
\* order of preference after the connect event itself.
ConnectGiveUp(r) ==
    /\ pc = "connecting"
    /\ op = Op("connect", "pending", 0)
    /\ r = "interrupted" <=> wait
    /\ result' = r
    /\ pc' = "connCancel"
    /\ UNCHANGED <<kernelVars, how, vetted, served, identity, clientVars, histVars, wait>>

\* CancelIoEx, then return: nothing waits for the cancelled request, so the
\* kernel may still own the OVERLAPPED on the stack of the call.
ConnectCancel ==
    /\ pc = "connCancel"
    /\ op' = NoOp
    /\ orphan' \in IF op.status = "pending" THEN BOOLEAN ELSE {orphan}
    /\ pc' = "idle"
    /\ UNCHANGED <<inst, peer, inq, outq, how, vetted, result, served, identity,
                   clientVars, histVars, wait>>

OrphanDone ==
    /\ orphan
    /\ orphan' = FALSE
    /\ UNCHANGED <<inst, peer, op, inq, outq, serverVars, clientVars, histVars, wait>>

\* DisconnectNamedPipe: the client is cut off and unread data is discarded; a
\* pending connect of another thread fails.
CutOff ==
    /\ inst' = "disconnected"
    /\ peer' = NoClient
    /\ inq' = <<>> /\ outq' = <<>>
    /\ op' = IF op.kind = "connect" /\ op.status = "pending"
             THEN [op EXCEPT !.status = "eof"] ELSE op
    /\ discarded' = discarded \cup {inq[i] : i \in DOMAIN inq}
    /\ served' = FALSE

Disconnect ==
    /\ pc \in {"idle", "connecting", "connCancel"} \cup Validating
    /\ CutOff
    /\ UNCHANGED <<orphan, pc, how, vetted, result, identity, clientVars,
                   received, swallowed, wrote, ghost, wait>>

\* validate_connected_client ends with Ok, or check_client_executable refuses,
\* which disconnects whoever is connected by now.
Accept ==
    /\ result' = "ok" /\ served' = TRUE
    /\ pc' = "idle"
    /\ UNCHANGED <<inst, peer, inq, outq, op, vetted, discarded>>

Refuse ==
    /\ result' = "denied"
    /\ CutOff
    /\ vetted' = NoClient
    /\ pc' = "idle"

\* Without a list any client is accepted.  With one, GetNamedPipeClientProcessId
\* gives the id of the client that opened the instance, if one has and has not
\* been cut off since, or fails.
Validate ==
    /\ pc = "validate"
    /\ \/ Allowed = {} /\ Accept
       \/ /\ Allowed # {} /\ peer # NoClient
          /\ vetted' = peer
          /\ pc' = "openClient"
          /\ UNCHANGED <<inst, peer, inq, outq, op, result, served, discarded>>
       \/ Allowed # {} /\ Refuse
    /\ UNCHANGED <<orphan, how, identity, clientVars, received, swallowed, wrote, ghost, wait>>

\* Process::open looks the id up: the client's process, or, when the client has
\* closed its end and exited, no process or the one that has the id now.
OpenClient ==
    /\ pc = "openClient"
    /\ \/ /\ vetted' \in {vetted} \cup IF cl[vetted] = "closed" THEN {Another} ELSE {}
          /\ pc' = "readPath"
          /\ UNCHANGED <<inst, peer, inq, outq, op, result, served, discarded>>
       \/ Refuse
    /\ UNCHANGED <<orphan, how, identity, clientVars, received, swallowed, wrote, ghost, wait>>

\* The path of the process that was opened is compared with the list; it may
\* not be had, and Another's may be on the list or not.
CheckPath ==
    /\ pc = "readPath"
    /\ \/ vetted \in Allowed \cup {Another} /\ Accept
       \/ Refuse
    /\ UNCHANGED <<orphan, how, identity, clientVars, received, swallowed, wrote, ghost, wait>>

-----------------------------------------------------------------------------
(* overlapped_io: read and write.                                          *)

\* ReadFile: data in the pipe completes it, an empty pipe leaves it pending
\* and a closed one is end of stream.
Read ==
    /\ pc = "idle"
    /\ \/ /\ inq # <<>>
          /\ op' = Op("read", "done", Head(inq)) /\ inq' = Tail(inq)
          /\ pc' = "io"
          /\ UNCHANGED result
       \/ /\ inq = <<>> /\ inst = "connected"
          /\ op' = Op("read", "pending", 0)
          /\ pc' = "io"
          /\ UNCHANGED <<inq, result>>
       \/ /\ inq = <<>> /\ inst # "connected"
          /\ result' = IF inst = "listening" THEN "failed" ELSE "eof"
          /\ UNCHANGED <<op, inq, pc>>
    /\ UNCHANGED <<inst, peer, orphan, outq, how, vetted, served, identity, clientVars,
                   histVars, wait>>

\* WriteFile: room in the pipe completes it, a full one leaves it pending.
Write ==
    /\ pc = "idle"
    /\ wrote < MaxMessages
    /\ wrote' = wrote + 1
    /\ \/ /\ inst = "connected" /\ Len(outq) < QueueSize
          /\ op' = Op("write", "done", wrote + 1) /\ outq' = Append(outq, wrote + 1)
          /\ pc' = "io"
          /\ UNCHANGED result
       \/ /\ inst = "connected" /\ Len(outq) = QueueSize
          /\ op' = Op("write", "pending", wrote + 1)
          /\ pc' = "io"
          /\ UNCHANGED <<outq, result>>
       \/ /\ inst # "connected"
          /\ result' = IF inst = "disconnected" THEN "brokenpipe" ELSE "failed"
          /\ UNCHANGED <<op, outq, pc>>
    /\ UNCHANGED <<inst, peer, orphan, inq, how, vetted, served, identity, clientVars,
                   received, discarded, swallowed, ghost, wait>>

\* A mutant: ERROR_MORE_DATA of a partial message is reported as a failure.
IoDone_MoreDataFails ==
    /\ pc = "io"
    /\ op.status \in {"done", "eof"}
    /\ pc' = "idle"
    /\ op' = NoOp
    /\ result' = "failed"
    /\ UNCHANGED <<inst, peer, orphan, inq, outq, how, vetted, served, identity, clientVars,
                   histVars, wait>>

\* io_event is signaled and GetOverlappedResult has the outcome.
IoDone ==
    /\ pc = "io"
    /\ op.status \in {"done", "eof"}
    /\ pc' = "idle"
    /\ op' = NoOp
    /\ received' = IF op.kind = "read" /\ op.status = "done"
                   THEN Append(received, op.msg) ELSE received
    /\ result' = IF op.status = "done" THEN "ok"
                 ELSE IF op.kind = "read" THEN "eof" ELSE "brokenpipe"
    /\ UNCHANGED <<inst, peer, orphan, inq, outq, how, vetted, served, identity, clientVars,
                   discarded, swallowed, wrote, ghost, wait>>

IoTimeout ==
    /\ pc = "io"
    /\ op.status = "pending"
    /\ pc' = "ioCancel"
    /\ UNCHANGED <<kernelVars, how, vetted, result, served, identity, clientVars, histVars, wait>>

\* CancelIoEx: an operation that has completed meanwhile is not affected.
IoCancel ==
    /\ pc = "ioCancel"
    /\ pc' = "ioReap"
    /\ op' = IF op.status = "pending" THEN [op EXCEPT !.status = "cancelling"] ELSE op
    /\ UNCHANGED <<inst, peer, orphan, inq, outq, how, vetted, result, served, identity,
                   clientVars, histVars, wait>>

KernelAbort ==
    /\ op.status = "cancelling"
    /\ op' = [op EXCEPT !.status = "aborted"]
    /\ UNCHANGED <<inst, peer, orphan, inq, outq, serverVars, clientVars, histVars, wait>>

\* A mutant: the cancelled operation is not waited for.
IoReap_NoWait ==
    /\ pc = "ioReap"
    /\ pc' = "idle"
    /\ result' = "timedout"
    /\ UNCHANGED <<kernelVars, how, vetted, served, identity, clientVars, histVars, wait>>

\* GetOverlappedResult(wait = true), its outcome ignored: TimedOut.
IoReap ==
    /\ pc = "ioReap"
    /\ ~InFlight
    /\ pc' = "idle"
    /\ result' = "timedout"
    /\ op' = NoOp
    /\ swallowed' = IF op.kind = "read" /\ op.status = "done"
                    THEN swallowed \cup {op.msg} ELSE swallowed
    /\ ghost' = IF op.kind = "write" /\ op.status = "done"
                THEN ghost \cup {op.msg} ELSE ghost
    /\ UNCHANGED <<inst, peer, orphan, inq, outq, how, vetted, served, identity, clientVars,
                   received, discarded, wrote, wait>>

\* flush: FlushFileBuffers returns when the client has read everything, or
\* fails when the client is gone.
Flush ==
    /\ pc = "idle"
    /\ pc' = "flush"
    /\ UNCHANGED <<kernelVars, how, vetted, result, served, identity, clientVars, histVars, wait>>

FlushReturn ==
    /\ pc = "flush"
    /\ outq = <<>> \/ inst # "connected"
    /\ pc' = "idle"
    /\ result' = IF inst = "connected" THEN "ok" ELSE "failed"
    /\ UNCHANGED <<kernelVars, how, vetted, served, identity, clientVars, histVars, wait>>

-----------------------------------------------------------------------------
(* client_is_elevated_admin.                                               *)

\* ImpersonateNamedPipeClient, which needs data read from a client.
Impersonate ==
    /\ pc = "idle"
    /\ \/ /\ peer # NoClient /\ received # <<>>
          /\ identity' = "client" /\ pc' = "token"
          /\ UNCHANGED result
       \/ /\ result' = "failed"
          /\ UNCHANGED <<identity, pc>>
    /\ UNCHANGED <<kernelVars, how, vetted, served, clientVars, histVars, wait>>

\* A mutant: a failed RevertToSelf is ignored.
Revert_Ignore(r) ==
    /\ pc = "token"
    /\ result' = r
    /\ identity' \in {"self", identity}
    /\ pc' = "idle"
    /\ UNCHANGED <<kernelVars, how, vetted, served, clientVars, histVars, wait>>

\* The token calls succeed or fail; RevertOnDrop ends the impersonation on
\* every path and aborts the process when it cannot.
Revert(r) ==
    /\ pc = "token"
    /\ result' = r
    /\ \/ identity' = "self" /\ pc' = "idle"
       \/ pc' = "aborted" /\ UNCHANGED identity
    /\ UNCHANGED <<kernelVars, how, vetted, served, clientVars, histVars, wait>>

-----------------------------------------------------------------------------
(* NamedPipeClientConfig::connect and NamedPipeClient.                     *)

\* The i32 an HRESULT_FROM_WIN32 wraps a Win32 code in.
HResult(code) == code - 2147024896

\* map_pipe_windows_error for the operation "connect".
MapPipeError(code) ==
    CASE code = 121 -> "timeout"
      [] code = 231 -> "busy"
      [] code = 535 -> "connected"
      [] code = 109 -> "io"
      [] OTHER -> "connect"

\* WaitNamedPipeW: an instance is listening, or the timeout elapses.
ClientWait(c) ==
    /\ cl[c] = "idle"
    /\ \/ /\ inst = "listening"
          /\ cl' = [cl EXCEPT ![c] = "ready"]
          /\ UNCHANGED err
       \/ /\ cl' = [cl EXCEPT ![c] = "closed"]
          /\ err' = [err EXCEPT ![c] = MapPipeError(121)]
    /\ UNCHANGED <<kernelVars, serverVars, sent, histVars, wait>>

\* CreateFileW: it opens the instance, unless another client was faster.
ClientOpen(c) ==
    /\ cl[c] = "ready"
    /\ \/ /\ inst = "listening"
          /\ inst' = "connected" /\ peer' = c
          /\ op' = IF op.kind = "connect" /\ op.status = "pending"
                   THEN [op EXCEPT !.status = "done"] ELSE op
          /\ cl' = [cl EXCEPT ![c] = "open"]
          /\ UNCHANGED err
       \/ /\ inst # "listening"
          /\ cl' = [cl EXCEPT ![c] = "busy"]
          /\ err' = [err EXCEPT ![c] = MapPipeError(HResult(231))]
          /\ UNCHANGED <<inst, peer, op>>
    /\ UNCHANGED <<orphan, inq, outq, serverVars, sent, histVars, wait>>

\* A read the server has in flight takes the message, else the pipe holds it.
ClientWrite(c) ==
    /\ cl[c] = "open" /\ peer = c
    /\ sent < MaxMessages
    /\ sent' = sent + 1
    /\ \/ /\ op.kind = "read" /\ InFlight
          /\ op' = Op("read", "done", sent + 1)
          /\ UNCHANGED inq
       \/ /\ ~(op.kind = "read" /\ InFlight)
          /\ Len(inq) < QueueSize
          /\ inq' = Append(inq, sent + 1)
          /\ UNCHANGED op
    /\ UNCHANGED <<inst, peer, orphan, outq, serverVars, cl, err, histVars, wait>>

\* The room the client makes completes a write the server has in flight.
ClientRead(c) ==
    /\ cl[c] = "open" /\ peer = c
    /\ outq # <<>>
    /\ \/ /\ op.kind = "write" /\ InFlight
          /\ op' = [op EXCEPT !.status = "done"]
          /\ outq' = Append(Tail(outq), op.msg)
       \/ /\ ~(op.kind = "write" /\ InFlight)
          /\ outq' = Tail(outq)
          /\ UNCHANGED op
    /\ UNCHANGED <<inst, peer, orphan, inq, serverVars, clientVars, histVars, wait>>

\* The client drops its handle: what it wrote stays readable, the server's
\* operation in flight ends with ERROR_BROKEN_PIPE.
ClientClose(c) ==
    /\ cl[c] = "open"
    /\ cl' = [cl EXCEPT ![c] = "closed"]
    /\ \/ /\ peer = c
          /\ inst' = "closing" /\ outq' = <<>>
          /\ op' = IF op.kind \in {"read", "write"} /\ InFlight
                   THEN [op EXCEPT !.status = "eof"] ELSE op
       \/ peer # c /\ UNCHANGED <<inst, outq, op>>
    /\ UNCHANGED <<peer, orphan, inq, serverVars, err, sent, histVars, wait>>

\* console::signal_on_ctrl or another thread sets the Wait.
SetWait ==
    /\ ~wait
    /\ wait' = TRUE
    /\ UNCHANGED <<kernelVars, serverVars, clientVars, histVars>>

-----------------------------------------------------------------------------
\* NamedPipeServerConfig::create: clients may open the instance at once.
Init ==
    /\ inst = "listening" /\ peer = NoClient
    /\ op = NoOp /\ orphan = FALSE
    /\ inq = <<>> /\ outq = <<>>
    /\ pc = "idle" /\ how = "overlapped" /\ result = "none" /\ served = FALSE
    /\ vetted = NoClient
    /\ wait = FALSE
    /\ identity = "self"
    /\ cl = [c \in Clients |-> "idle"] /\ err = [c \in Clients |-> "none"]
    /\ sent = 0 /\ wrote = 0
    /\ received = <<>>
    /\ discarded = {} /\ swallowed = {} /\ ghost = {}

GiveUpReasons == {"interrupted", "timeout", "failed"}

ServerStep ==
    \/ \E h \in {"null", "overlapped"} : Connect(h)
    \/ ConnectNullReturn \/ ConnectDone
    \/ \E r \in GiveUpReasons : ConnectGiveUp(r)
    \/ ConnectCancel \/ Disconnect
    \/ Validate \/ OpenClient \/ CheckPath
    \/ Read \/ Write \/ IoDone \/ IoTimeout \/ IoCancel \/ IoReap
    \/ Flush \/ FlushReturn
    \/ Impersonate \/ \E r \in {"ok", "failed"} : Revert(r)

ClientStep(c) ==
    \/ ClientWait(c) \/ ClientOpen(c) \/ ClientWrite(c) \/ ClientRead(c) \/ ClientClose(c)

Next ==
    \/ ServerStep
    \/ KernelAbort \/ OrphanDone
    \/ \E c \in Clients : ClientStep(c)
    \/ SetWait
    \/ pc = "aborted" /\ UNCHANGED vars

Spec == Init /\ [][Next]_vars

\* The server finishes the call it is in (its timeouts elapse) and the kernel
\* completes what was cancelled.  AcceptLoop: a server that calls
\* connect_with_timeout again and again.
CallReturns ==
    /\ WF_vars(ConnectDone \/ \E r \in GiveUpReasons : ConnectGiveUp(r))
    /\ WF_vars(ConnectCancel)
    /\ WF_vars(ConnectNullReturn)
    /\ WF_vars(Validate \/ OpenClient \/ CheckPath)
    /\ WF_vars(IoDone \/ IoTimeout)
    /\ WF_vars(IoCancel)
    /\ WF_vars(IoReap)
    /\ WF_vars(KernelAbort)
    /\ WF_vars(\E r \in {"ok", "failed"} : Revert(r))
AcceptLoop == SF_vars(Connect("overlapped"))

FairSpec == Spec /\ CallReturns /\ AcceptLoop

-----------------------------------------------------------------------------
(* Properties.                                                             *)

Msg == 1..MaxMessages
OpType ==
    [kind : {"none", "connect", "read", "write"},
     status : {"none", "pending", "cancelling", "done", "eof", "aborted"},
     msg : 0..MaxMessages]

\* Every variable keeps its type.
TypeOK ==
    /\ inst \in {"listening", "connected", "closing", "disconnected"}
    /\ peer \in Clients \cup {NoClient}
    /\ op \in OpType
    /\ orphan \in BOOLEAN
    /\ inq \in Seq(Msg) /\ Len(inq) <= QueueSize
    /\ outq \in Seq(Msg) /\ Len(outq) <= QueueSize
    /\ pc \in {"idle", "connecting", "connCancel", "io", "ioCancel",
               "ioReap", "flush", "token", "aborted"} \cup Validating
    /\ vetted \in Clients \cup {NoClient, Another}
    /\ how \in {"null", "overlapped"}
    /\ result \in {"none", "ok", "failed", "denied", "eof", "brokenpipe", "timedout"}
                    \cup GiveUpReasons
    /\ served \in BOOLEAN /\ wait \in BOOLEAN
    /\ identity \in {"self", "client"}
    /\ cl \in [Clients -> {"idle", "ready", "open", "busy", "closed"}]
    /\ err \in [Clients -> {"none", "timeout", "busy", "connected", "io", "connect"}]
    /\ sent \in 0..MaxMessages /\ wrote \in 0..MaxMessages
    /\ received \in Seq(Msg)
    /\ discarded \in SUBSET Msg
    /\ swallowed \in SUBSET Msg
    /\ ghost \in SUBSET Msg

\* With an allow-list, a client that is connected when or after connect has
\* accepted is on the list, however connects, timeouts and disconnects were
\* interleaved with the steps of the check.  Another client's connection is
\* accepted only when that client has closed it and exited before its process was
\* opened (check_client_executable); what it wrote before is then readable.
AllowListHolds ==
    served /\ Allowed # {} =>
        peer \in Allowed \cup {NoClient} \/ (inst = "closing" /\ vetted = Another)

\* connect_with_timeout and connect_with_wait return Ok only once a client has
\* opened the instance, not while it still listens.
AcceptedClientExists == served /\ how = "overlapped" => inst # "listening"

\* overlapped_io keeps its promise to the kernel: a read or write is in flight
\* only while the call that owns its OVERLAPPED and buffer is on the stack.
IoBufferOutlivesIo ==
    op.kind \in {"read", "write"} => pc \in {"io", "ioCancel", "ioReap"}

\* Where a message a client wrote may be.
Places ==
    << {inq[i] : i \in DOMAIN inq},
       IF op.kind = "read" /\ op.status = "done" THEN {op.msg} ELSE {},
       {received[i] : i \in DOMAIN received}, discarded, swallowed >>

\* Every message a client wrote is in exactly one place: in the pipe, in a
\* completed read that has not returned, returned, discarded by a disconnect
\* or taken by a read that was reported as timed out.
ReadAccounted ==
    /\ UNION {Places[i] : i \in 1..5} = 1..sent
    /\ \A i, j \in 1..5 : i # j => Places[i] \cap Places[j] = {}

\* client_is_elevated_admin leaves no thread with the client's identity.
IdentityRestored == pc \notin {"token", "aborted"} => identity = "self"

\* A client that slipped in while a connect timed out is not lost: the accept
\* loop's next connect accepts it, unless it is refused or leaves, or the
\* server is blocked in a flush or has aborted.
RacedClientServed ==
    \A c \in Clients :
        (inst = "connected" /\ peer = c)
            ~> (served \/ peer # c \/ inst # "connected" \/ pc \in {"flush", "aborted"})

\* A read or write with an I/O timeout returns.
IoReturns == (pc \in {"io", "ioCancel", "ioReap"}) ~> pc = "idle"

\* A server gets on: an accept loop serves a client that raced a timed-out
\* connect, and a read or write with a timeout returns (connect_with_timeout,
\* overlapped_io).
ServerProgress == RacedClientServed /\ IoReturns

\* "Block until a client connects to this instance": connect() returns Ok only
\* when a client has connected.
ConnectBlocks == served => inst # "listening"

\* "Retrieve the connecting client's executable path and verify it is on the
\* allow-list": an accepted connection is an allowed client's.  The path is that
\* of whoever has the client's process id by then.
AcceptedIsAllowed == served /\ Allowed # {} => peer \in Allowed \cup {NoClient}

\* "wait for the cancellation to complete before `overlapped` is dropped": no
\* cancelled request outlives the OVERLAPPED of its call.
CancelledConnectReaped == ~orphan

\* "A timed-out operation is cancelled and reported as TimedOut": such an
\* operation moved no data.
TimedOutMeansCancelled == swallowed = {} /\ ghost = {}

\* A client that finds the instance taken is told "pipe is busy".
BusyReported == \A c \in Clients : cl[c] = "busy" => err[c] = "busy"
=============================================================================
