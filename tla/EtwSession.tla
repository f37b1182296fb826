----------------------------- MODULE EtwSession -----------------------------
(***************************************************************************)
(* The life of ETW sessions across several `EventTrace`s                   *)
(* (src/etw/session.rs): EventTraceBuilder::start, request_rundown, stop   *)
(* and Drop, against the machine-wide table of running sessions, which     *)
(* outlives the processes and is addressed by session name.                *)
(*                                                                         *)
(* A trace starts at most one session (start consumes the builder), so the *)
(* session is identified with the trace that started it.  Traces may       *)
(* belong to one process or to several; other tools start and stop         *)
(* sessions too, and a process may die at any point, which leaves its      *)
(* session running.                                                        *)
(***************************************************************************)
EXTENDS Integers

CONSTANTS
    Traces,      \* EventTraceBuilders, each started at most once
    Builder,     \* the configuration of each builder
    KernelLogger,\* the name "NT Kernel Logger"
    MaxNameLen,  \* MAX_SESSION_NAME_LEN
    Tool,        \* a session some other software started
    NoSession    \* no session of that name

BuilderType(names) ==
    [name : names, nameLen : Nat, system : Nat, user : Nat, private : BOOLEAN,
     minBuffers : Nat, maxBuffers : Nat]

ASSUME BuilderAssumption ==
    /\ DOMAIN Builder = Traces
    /\ \A t \in Traces : Builder[t] \in BuilderType({Builder[u].name : u \in Traces})
ASSUME DistinctAssumption == Tool # NoSession /\ Tool \notin Traces /\ NoSession \notin Traces

IsKernel(t) == Builder[t].system # 0

\* kernel_session_config: kernel providers use the reserved name unless the
\* session is a private system logger; a user-mode session keeps its name.
SessionName(t) ==
    IF IsKernel(t) /\ ~Builder[t].private THEN KernelLogger ELSE Builder[t].name

Names == {SessionName(t) : t \in Traces} \cup {KernelLogger}

VARIABLES
    table,      \* the running session of each name, kept by the kernel
    pc,         \* where the trace is in start, request_rundown or stop
    enabled,    \* user providers enabled so far by the loop of start
    attached,   \* the session OpenTraceW attached the consumer to
    traceOpen,  \* the trace handle is open
    thread,     \* the ProcessTrace thread
    ctx,        \* memory of the callback context
    replaced,   \* replaced_existing_session
    providersOn,\* the system enable flags of the session are set
    rundown     \* result of the last request_rundown

vars == <<table, pc, enabled, attached, traceOpen, thread, ctx, replaced,
          providersOn, rundown>>

StartPc == {"stale", "retry", "started", "open", "spawn", "signal"}
Pc == StartPc \cup {"idle", "cleanup", "failed", "leaked", "running", "rundown",
                    "closing", "joining", "stopped", "dropped", "crashed"}

Goto(t, l) == pc' = [pc EXCEPT ![t] = l]
Live(t) == table[SessionName(t)] = t

-----------------------------------------------------------------------------
(* EventTraceBuilder::start                                                *)

\* The checks before any system call.
Valid(b) ==
    /\ b.nameLen # 0
    /\ b.nameLen <= MaxNameLen
    /\ b.system > 0 \/ b.user > 0
    /\ ~(b.system > 0 /\ b.user > 0)
    /\ b.minBuffers <= b.maxBuffers

StartInvalid(t) ==
    /\ pc[t] = "idle"
    /\ ~Valid(Builder[t])
    /\ Goto(t, "failed")
    /\ UNCHANGED <<table, enabled, attached, traceOpen, thread, ctx, replaced,
                   providersOn, rundown>>

\* A session of this name comes into being.
CreateSession(t) ==
    /\ table[SessionName(t)] = NoSession
    /\ table' = [table EXCEPT ![SessionName(t)] = t]
    /\ providersOn' = [providersOn EXCEPT ![t] = IsKernel(t)]

\* The first StartTraceW.  ERROR_ALREADY_EXISTS sends a kernel session to the
\* stale-session path and fails a user-mode one; any other error fails.
StartTrace(t) ==
    /\ pc[t] = "idle"
    /\ Valid(Builder[t])
    /\ \/ CreateSession(t) /\ Goto(t, "started")
       \/ /\ Goto(t, IF table[SessionName(t)] # NoSession /\ IsKernel(t)
                     THEN "stale" ELSE "failed")
          /\ UNCHANGED <<table, providersOn>>
    /\ UNCHANGED <<enabled, attached, traceOpen, thread, ctx, replaced, rundown>>

\* A mutant: the session is told to flush, not to stop.
StopByName_Flush(n) == UNCHANGED table

\* ControlTraceW(EVENT_TRACE_CONTROL_STOP) with a name: whatever session has
\* the name ends; the handle is not looked at.
StopByName(n) == table' = [table EXCEPT ![n] = NoSession]

StopStale(t) ==
    /\ pc[t] = "stale"
    /\ StopByName(SessionName(t))
    /\ Goto(t, "retry")
    /\ UNCHANGED <<enabled, attached, traceOpen, thread, ctx, replaced,
                   providersOn, rundown>>

RetryStart(t) ==
    /\ pc[t] = "retry"
    /\ \/ /\ CreateSession(t)
          /\ replaced' = [replaced EXCEPT ![t] = TRUE]
          /\ Goto(t, "started")
       \/ /\ Goto(t, "failed")
          /\ UNCHANGED <<table, providersOn, replaced>>
    /\ UNCHANGED <<enabled, attached, traceOpen, thread, ctx, rundown>>

\* The loop over user providers: EnableTraceEx2 takes the session handle, so
\* it needs this very session, and may fail for other reasons too.
EnableProvider(t) ==
    /\ pc[t] = "started"
    /\ \/ /\ enabled[t] < Builder[t].user
          /\ Live(t)
          /\ enabled' = [enabled EXCEPT ![t] = @ + 1]
          /\ UNCHANGED pc
       \/ /\ enabled[t] < Builder[t].user
          /\ Goto(t, "cleanup")
          /\ UNCHANGED enabled
       \/ /\ enabled[t] = Builder[t].user
          /\ Goto(t, "open")
          /\ UNCHANGED enabled
    /\ UNCHANGED <<table, attached, traceOpen, thread, ctx, replaced,
                   providersOn, rundown>>

\* The callback context is allocated and OpenTraceW attaches to the session
\* that has the name now; it fails when there is none, or for other reasons.
OpenTrace(t) ==
    /\ pc[t] = "open"
    /\ ctx' = [ctx EXCEPT ![t] = "live"]
    /\ \/ /\ table[SessionName(t)] # NoSession
          /\ attached' = [attached EXCEPT ![t] = table[SessionName(t)]]
          /\ traceOpen' = [traceOpen EXCEPT ![t] = TRUE]
          /\ Goto(t, "spawn")
       \/ /\ Goto(t, "cleanup")
          /\ UNCHANGED <<attached, traceOpen>>
    /\ UNCHANGED <<table, enabled, thread, replaced, providersOn, rundown>>

\* A mutant: the error is returned without stopping the session.
CleanUp_Leak(t) ==
    /\ pc[t] = "cleanup"
    /\ ctx' = [ctx EXCEPT ![t] = IF @ = "live" THEN "freed" ELSE @]
    /\ Goto(t, "failed")
    /\ UNCHANGED <<table, enabled, attached, traceOpen, thread, replaced,
                   providersOn, rundown>>

\* A failed EnableTraceEx2 or OpenTraceW stops the session by its name and
\* returns the error, which drops the callback context.
CleanUp(t) ==
    /\ pc[t] = "cleanup"
    /\ StopByName(SessionName(t))
    /\ ctx' = [ctx EXCEPT ![t] = IF @ = "live" THEN "freed" ELSE @]
    /\ Goto(t, "failed")
    /\ UNCHANGED <<enabled, attached, traceOpen, thread, replaced, providersOn, rundown>>

SpawnThread(t) ==
    /\ pc[t] = "spawn"
    /\ thread' = [thread EXCEPT ![t] = "running"]
    /\ Goto(t, "signal")
    /\ UNCHANGED <<table, enabled, attached, traceOpen, ctx, replaced,
                   providersOn, rundown>>

\* Wait::manual_reset(false)? in the struct literal: on failure start returns
\* the error, the thread's JoinHandle and the context guard are dropped, and
\* neither the session nor the trace handle is closed.
CreateSignal(t) ==
    /\ pc[t] = "signal"
    /\ \/ Goto(t, "running") /\ UNCHANGED ctx
       \/ Goto(t, "leaked") /\ ctx' = [ctx EXCEPT ![t] = "freed"]
    /\ UNCHANGED <<table, enabled, attached, traceOpen, thread, replaced,
                   providersOn, rundown>>

-----------------------------------------------------------------------------
(* The running trace.                                                      *)

\* request_rundown refuses a session without system flags; otherwise the first
\* TraceSetInformation clears them, on the session of the handle.
RundownClear(t) ==
    /\ pc[t] = "running"
    /\ IsKernel(t)
    /\ \/ /\ Live(t)
          /\ providersOn' = [providersOn EXCEPT ![t] = FALSE]
          /\ Goto(t, "rundown")
          /\ UNCHANGED rundown
       \/ /\ rundown' = [rundown EXCEPT ![t] = "err"]
          /\ UNCHANGED <<pc, providersOn>>
    /\ UNCHANGED <<table, enabled, attached, traceOpen, thread, ctx, replaced>>

\* A mutant: the error of the second call is swallowed.
RundownSet_IgnoreError(t) ==
    /\ pc[t] = "rundown"
    /\ \/ Live(t) /\ providersOn' = [providersOn EXCEPT ![t] = TRUE]
       \/ UNCHANGED providersOn
    /\ rundown' = [rundown EXCEPT ![t] = "ok"]
    /\ Goto(t, "running")
    /\ UNCHANGED <<table, enabled, attached, traceOpen, thread, ctx, replaced>>

\* The second TraceSetInformation sets them again, or fails.
RundownSet(t) ==
    /\ pc[t] = "rundown"
    /\ \/ /\ Live(t)
          /\ providersOn' = [providersOn EXCEPT ![t] = TRUE]
          /\ rundown' = [rundown EXCEPT ![t] = "ok"]
       \/ /\ rundown' = [rundown EXCEPT ![t] = "err"]
          /\ UNCHANGED providersOn
    /\ Goto(t, "running")
    /\ UNCHANGED <<table, enabled, attached, traceOpen, thread, ctx, replaced>>

\* stop(), called or run by Drop: ControlTraceW stops the session by name ...
Stop(t) ==
    /\ pc[t] = "running"
    /\ StopByName(SessionName(t))
    /\ Goto(t, "closing")
    /\ UNCHANGED <<enabled, attached, traceOpen, thread, ctx, replaced,
                   providersOn, rundown>>

\* A mutant: the handle is left open.
StopClose_Skip(t) ==
    /\ pc[t] = "closing"
    /\ Goto(t, "joining")
    /\ UNCHANGED <<table, enabled, attached, traceOpen, thread, ctx, replaced,
                   providersOn, rundown>>

\* ... CloseTrace closes the trace handle ...
StopClose(t) ==
    /\ pc[t] = "closing"
    /\ traceOpen' = [traceOpen EXCEPT ![t] = FALSE]
    /\ Goto(t, "joining")
    /\ UNCHANGED <<table, enabled, attached, thread, ctx, replaced, providersOn, rundown>>

\* A mutant: stop() that does not wait for the thread.
StopJoin_Detached(t) ==
    /\ pc[t] = "joining"
    /\ Goto(t, "stopped")
    /\ UNCHANGED <<table, enabled, attached, traceOpen, thread, ctx, replaced,
                   providersOn, rundown>>

\* ... and the thread is joined.
StopJoin(t) ==
    /\ pc[t] = "joining"
    /\ thread[t] = "finished"
    /\ Goto(t, "stopped")
    /\ UNCHANGED <<table, enabled, attached, traceOpen, thread, ctx, replaced,
                   providersOn, rundown>>

\* The fields of a stopped trace are dropped, the context among them.
DropTrace(t) ==
    /\ pc[t] = "stopped"
    /\ ctx' = [ctx EXCEPT ![t] = "freed"]
    /\ Goto(t, "dropped")
    /\ UNCHANGED <<table, enabled, attached, traceOpen, thread, replaced,
                   providersOn, rundown>>

\* ProcessTrace returns once its session has ended or its handle is closed.
ThreadExit(t) ==
    /\ thread[t] = "running"
    /\ ~traceOpen[t] \/ table[SessionName(t)] # attached[t]
    /\ thread' = [thread EXCEPT ![t] = "finished"]
    /\ UNCHANGED <<table, pc, enabled, attached, traceOpen, ctx, replaced,
                   providersOn, rundown>>

-----------------------------------------------------------------------------
(* The environment.                                                        *)

\* The process dies: its thread, memory and handles go, its session stays.
Crash(t) ==
    /\ pc[t] \notin {"idle", "failed", "dropped", "crashed"}
    /\ Goto(t, "crashed")
    /\ thread' = [thread EXCEPT ![t] = "none"]
    /\ ctx' = [ctx EXCEPT ![t] = "none"]
    /\ traceOpen' = [traceOpen EXCEPT ![t] = FALSE]
    /\ UNCHANGED <<table, enabled, attached, replaced, providersOn, rundown>>

ToolStart(n) ==
    /\ table[n] = NoSession
    /\ table' = [table EXCEPT ![n] = Tool]
    /\ UNCHANGED <<pc, enabled, attached, traceOpen, thread, ctx, replaced,
                   providersOn, rundown>>

\* logman stop, or a tool that takes the name over.
ToolStop(n) ==
    /\ table[n] # NoSession
    /\ table' = [table EXCEPT ![n] = NoSession]
    /\ UNCHANGED <<pc, enabled, attached, traceOpen, thread, ctx, replaced,
                   providersOn, rundown>>

-----------------------------------------------------------------------------
Init ==
    /\ table = [n \in Names |-> NoSession]
    /\ pc = [t \in Traces |-> "idle"]
    /\ enabled = [t \in Traces |-> 0]
    /\ attached = [t \in Traces |-> NoSession]
    /\ traceOpen = [t \in Traces |-> FALSE]
    /\ thread = [t \in Traces |-> "none"]
    /\ ctx = [t \in Traces |-> "none"]
    /\ replaced = [t \in Traces |-> FALSE]
    /\ providersOn = [t \in Traces |-> FALSE]
    /\ rundown = [t \in Traces |-> "none"]

StartStep(t) ==
    \/ StartInvalid(t) \/ StartTrace(t) \/ StopStale(t) \/ RetryStart(t)
    \/ EnableProvider(t) \/ OpenTrace(t) \/ CleanUp(t)
    \/ SpawnThread(t) \/ CreateSignal(t)
RunStep(t) == RundownClear(t) \/ RundownSet(t) \/ Stop(t) \/ DropTrace(t)
StopStep(t) == StopClose(t) \/ StopJoin(t)

Next ==
    \/ \E t \in Traces :
        StartStep(t) \/ RunStep(t) \/ StopStep(t) \/ ThreadExit(t) \/ Crash(t)
    \/ \E n \in Names : ToolStart(n) \/ ToolStop(n)

Spec == Init /\ [][Next]_vars

\* A call that has begun goes on and ProcessTrace returns when it can; nobody
\* is obliged to begin a call.
Fairness ==
    \A t \in Traces :
        /\ WF_vars(StopStale(t) \/ RetryStart(t))
        /\ WF_vars(StopStep(t))
        /\ WF_vars(ThreadExit(t))

FairSpec == Spec /\ Fairness

-----------------------------------------------------------------------------
(* Properties.                                                             *)

\* Every variable keeps its type.
TypeOK ==
    /\ table \in [Names -> Traces \cup {Tool, NoSession}]
    /\ pc \in [Traces -> Pc]
    /\ enabled \in [Traces -> Nat] /\ \A t \in Traces : enabled[t] <= Builder[t].user
    /\ attached \in [Traces -> Traces \cup {Tool, NoSession}]
    /\ traceOpen \in [Traces -> BOOLEAN]
    /\ thread \in [Traces -> {"none", "running", "finished"}]
    /\ ctx \in [Traces -> {"none", "live", "freed"}]
    /\ replaced \in [Traces -> BOOLEAN]
    /\ providersOn \in [Traces -> BOOLEAN]
    /\ rundown \in [Traces -> {"none", "ok", "err"}]

\* The callback context outlives the ProcessTrace thread that dereferences it,
\* through stop, Drop and every failed start but the last step of start.
ContextOutlivesThread ==
    \A t \in Traces : thread[t] = "running" /\ pc[t] # "leaked" => ctx[t] = "live"

\* Nothing of the trace is left: no session of its own in the kernel, no
\* thread, no open trace handle and no live context.
NothingOwned(t) == ~Live(t) /\ thread[t] = "none" /\ ~traceOpen[t] /\ ctx[t] # "live"

\* A start() that returned an error is all or nothing.  Whichever of its calls
\* up to OpenTraceW fails, nothing is left behind.  The one that fails later,
\* Wait::manual_reset, gives nothing back but the context: the trace handle stays
\* open and the thread ends only when somebody else ends the session it reads.
FailedStartAllOrNothing ==
    \A t \in Traces :
        /\ pc[t] = "failed" => NothingOwned(t)
        /\ pc[t] = "leaked" =>
               /\ traceOpen[t]
               /\ ctx[t] = "freed"
               /\ thread[t] # "none"
               /\ Live(t) /\ attached[t] = t => thread[t] = "running"

\* When stop() has returned, the session it started is gone (whoever ended
\* it), its thread has exited and its trace handle is closed.
StoppedIsGone ==
    \A t \in Traces : pc[t] \in {"stopped", "dropped"} =>
        ~Live(t) /\ thread[t] = "finished" /\ ~traceOpen[t]

\* While the session a trace started is running, the trace consumes from that
\* session and no other, though OpenTraceW finds it by name.
ConsumesOwnSession ==
    \A t \in Traces : Live(t) => attached[t] \in {t, NoSession}

\* A running kernel session has its providers off only while request_rundown
\* is between its two calls, has reported an error, or died half way.
RundownRestores ==
    \A t \in Traces :
        IsKernel(t) /\ Live(t) /\ ~providersOn[t] =>
            pc[t] \in {"rundown", "crashed"} \/ rundown[t] = "err"

\* A private system logger (and a user-mode session) never touches the shared
\* "NT Kernel Logger", neither when it starts over a leftover session nor when
\* it stops: doc of replaced_existing_session, "never an unrelated tool's".
PrivateLeavesKernelLogger ==
    [][\A t \in Traces :
        /\ pc'[t] # pc[t]
        /\ Builder[t].name # KernelLogger
        /\ IsKernel(t) => Builder[t].private
        => table'[KernelLogger] = table[KernelLogger]]_vars

\* stop() returns unless the process dies first.
StopReturns ==
    \A t \in Traces :
        pc[t] \in {"closing", "joining"} ~> pc[t] \in {"stopped", "dropped", "crashed"}

\* A kernel start() that meets the session of a crashed owner removes it,
\* unless the starting process dies as well.
StaleSessionReplaced ==
    \A t \in {t \in Traces : IsKernel(t)} :
        \A u \in {u \in Traces \ {t} : SessionName(u) = SessionName(t)} :
            (pc[t] = "stale" /\ Live(u) /\ pc[u] = "crashed")
                ~> (~Live(u) \/ pc[t] = "crashed")

\* Owners get on: stop() returns, and start() gets past the session that a
\* crashed owner has left behind.
SessionProgress == StopReturns /\ StaleSessionReplaced

\* The safety contract of trace_callback_fn: the context it is given "remains
\* alive for the duration of the trace".  The failing last step of start frees
\* the context under a running ProcessTrace thread.
CallbackContextAlive ==
    \A t \in Traces : thread[t] = "running" => ctx[t] = "live"

\* Every start() that returned an error has left nothing behind, as its error
\* paths up to OpenTraceW see to ("clean up the started session").  The failing
\* last step leaves the session, the trace and the thread running.
FailedStartLeavesNothing ==
    \A t \in Traces : pc[t] \in {"failed", "leaked"} => NothingOwned(t)

\* The error table of start: "NT Kernel Logger already running" is reported as
\* SessionStartFailed with ERROR_ALREADY_EXISTS.  The code stops that session
\* and takes its place.
RunningKernelLoggerRefused ==
    \A t \in Traces : SessionName(t) = KernelLogger => ~replaced[t]

\* "EventTrace owns it exclusively" (the session handle): stop() and Drop end
\* the session of this trace.  They stop by name, so a trace whose session was
\* taken over ends the session that replaced it.
StopEndsOnlyOwnSession ==
    [][\A t, u \in Traces :
        pc[t] = "running" /\ pc'[t] = "closing" /\ u # t
        => (table[SessionName(t)] = u => table'[SessionName(t)] = u)]_vars
=============================================================================
