--------------------------- MODULE ConsoleSignal ---------------------------
(***************************************************************************)
(* Console control signals (src/console/mod.rs) and the wait objects they  *)
(* set (src/wait/mod.rs).                                                  *)
(*                                                                         *)
(* Threads register waits with signal_on_ctrl; each control signal runs    *)
(* ctrl_handler on a thread of its own, which locks the same state, sets   *)
(* every registered wait and reports the signal as handled if one was set. *)
(* Other threads block in the wait calls.  An unhandled signal ends the    *)
(* process, and so does a handled console close once the handler returns.  *)
(***************************************************************************)
EXTENDS Integers, Sequences

CONSTANTS
    Callers,    \* threads that call signal_on_ctrl
    Waiters,    \* threads that wait
    Waits,      \* wait objects
    ManualReset, \* those created with manual_reset
    Groups,     \* handle lists passed to wait_any
    MaxWaitObjects, \* MAX_WAIT_OBJECTS (64)
    MaxSignals, \* bound: control signals
    Kinds,      \* signals that arrive: "ctrl_c" (and Ctrl+Break), "close"
    None        \* nobody, or not yet

ASSUME ManualAssumption == ManualReset \subseteq Waits
ASSUME BoundAssumption == MaxSignals \in Nat /\ MaxWaitObjects \in Nat
ASSUME NoneAssumption == None \notin Callers \cup Waiters \cup Waits \cup (1..MaxSignals)

Signals == 1..MaxSignals

\* The threads that register are not the ones the handlers run on, lists of
\* handles hold wait objects, and "not ended" is no reason for an end.
ASSUME DistinctAssumption ==
    /\ Callers \cap Signals = {}
    /\ Groups \subseteq Seq(Waits)
    /\ None \notin {"default", "unhandled", "closed"}

VARIABLES
    lock,      \* holder of the mutex of STATE
    installed, \* HandlerState.installed
    hooked,    \* the console knows ctrl_handler
    waits,     \* HandlerState.waits
    pc,        \* where each caller is
    arg,       \* the wait it registers
    ctrl,      \* each signal: kind, where its handler is, waits left, any
    signaled,  \* wait objects in the signaled state
    waiter,    \* what each waiting thread does: its handles and its answer
    ended,     \* why the process has ended: None, "default", "unhandled", "closed"
    due,       \* history: waits registered when each signal arrived
    set        \* history: waits each handler has set

stateVars == <<lock, installed, hooked, waits>>
callVars == <<pc, arg>>
vars == <<lock, installed, hooked, waits, pc, arg, ctrl, signaled, waiter, ended, due, set>>

-----------------------------------------------------------------------------
(* Wait objects, as the kernel keeps them.                                 *)

NoAnswer == -1
TimedOut == -2
Rejected == -3
Idle == [state |-> "idle", handles |-> <<>>, timed |-> FALSE, answer |-> NoAnswer]

\* decode_wait_any_result: the index in the list, counted from 0.
Answer(i) == i - 1

\* Index of the first signaled handle, 0 if there is none.
FirstSignaled(h, s) ==
    LET hits == {i \in DOMAIN h : h[i] \in s}
    IN IF hits = {} THEN 0 ELSE CHOOSE i \in hits : \A j \in hits : i <= j

\* A wait that is satisfied resets an auto-reset object.
Consume(w, s) == IF w \in ManualReset THEN s ELSE s \ {w}

Blocked(t) == waiter[t].state = "blocked"

\* SetEvent: a manual-reset object releases everybody who waits for it, an
\* auto-reset one a single thread, or stays signaled.
SetEvent(w) ==
    LET blocked == {t \in Waiters : Blocked(t) /\ \E i \in DOMAIN waiter[t].handles :
                                                      waiter[t].handles[i] = w}
        Wake(ts) == [t \in Waiters |->
            IF t \in ts
            THEN [waiter[t] EXCEPT !.state = "woken", !.answer =
                    Answer(FirstSignaled(waiter[t].handles, {w}))]
            ELSE waiter[t]]
    IN \/ /\ w \in ManualReset
          /\ signaled' = signaled \cup {w}
          /\ waiter' = Wake(blocked)
       \/ /\ w \notin ManualReset /\ blocked # {}
          /\ \E t \in blocked : waiter' = Wake({t})
          /\ UNCHANGED signaled
       \/ /\ w \notin ManualReset /\ blocked = {}
          /\ signaled' = signaled \cup {w}
          /\ UNCHANGED waiter

-----------------------------------------------------------------------------
(* Wait::wait, wait_timeout, wait_any, wait_any_timeout.                   *)

\* collect_raw_handles: between 1 and 64 handles.
Accepted(h) == Len(h) > 0 /\ Len(h) <= MaxWaitObjects

WaitAny(t, h, timed) ==
    /\ waiter[t].state = "idle"
    /\ \/ /\ ~Accepted(h)
          /\ waiter' = [waiter EXCEPT ![t] = [Idle EXCEPT !.answer = Rejected]]
          /\ UNCHANGED signaled
       \/ /\ Accepted(h)
          /\ LET i == FirstSignaled(h, signaled)
             IN IF i # 0
                THEN /\ waiter' = [waiter EXCEPT ![t] = [Idle EXCEPT !.answer = Answer(i)]]
                     /\ signaled' = Consume(h[i], signaled)
                ELSE /\ waiter' = [waiter EXCEPT ![t] =
                           [Idle EXCEPT !.state = "blocked", !.handles = h, !.timed = timed]]
                     /\ UNCHANGED signaled
    /\ UNCHANGED <<stateVars, callVars, ctrl, ended, due, set>>

\* The woken thread runs again and its call returns the index.
WaitReturn(t) ==
    /\ waiter[t].state = "woken"
    /\ waiter' = [waiter EXCEPT ![t] = [Idle EXCEPT !.answer = waiter[t].answer]]
    /\ UNCHANGED <<stateVars, callVars, ctrl, signaled, ended, due, set>>

\* WAIT_TIMEOUT: Ok(None), Ok(false).
WaitTimeout(t) ==
    /\ Blocked(t) /\ waiter[t].timed
    /\ waiter' = [waiter EXCEPT ![t] = [Idle EXCEPT !.answer = TimedOut]]
    /\ UNCHANGED <<stateVars, callVars, ctrl, signaled, ended, due, set>>

\* Wait::reset, by the owner of a manual-reset object.
Reset(w) ==
    /\ w \in ManualReset
    /\ signaled' = signaled \ {w}
    /\ UNCHANGED <<stateVars, callVars, ctrl, waiter, ended, due, set>>

-----------------------------------------------------------------------------
(* signal_on_ctrl.                                                         *)

Lock(c, w) ==
    /\ pc[c] = "idle" /\ lock = None
    /\ lock' = c
    /\ arg' = [arg EXCEPT ![c] = w]
    /\ pc' = [pc EXCEPT ![c] = IF installed THEN "push" ELSE "install"]
    /\ UNCHANGED <<installed, hooked, waits, ctrl, signaled, waiter, ended, due, set>>

\* A mutant: the lock is dropped around the registration of the handler.
Install_Unlocked(c) ==
    /\ pc[c] = "install"
    /\ hooked' = TRUE /\ installed' = TRUE
    /\ pc' = [pc EXCEPT ![c] = "push"]
    /\ lock' = None
    /\ UNCHANGED <<waits, arg, ctrl, signaled, waiter, ended, due, set>>

\* SetConsoleCtrlHandler succeeds, or fails and the call returns its error.
Install(c) ==
    /\ pc[c] = "install"
    /\ \/ /\ hooked' = TRUE
          /\ installed' = TRUE
          /\ pc' = [pc EXCEPT ![c] = "push"]
          /\ UNCHANGED lock
       \/ /\ pc' = [pc EXCEPT ![c] = "failed"]
          /\ lock' = None
          /\ UNCHANGED <<hooked, installed>>
    /\ UNCHANGED <<waits, arg, ctrl, signaled, waiter, ended, due, set>>

\* The wait is added and the lock released.
Push(c) ==
    /\ pc[c] = "push"
    /\ waits' = Append(waits, arg[c])
    /\ lock' = None
    /\ pc' = [pc EXCEPT ![c] = "ok"]
    /\ UNCHANGED <<installed, hooked, arg, ctrl, signaled, waiter, ended, due, set>>

-----------------------------------------------------------------------------
(* ctrl_handler and signal_all.                                            *)

\* A signal arrives; without a handler of its own the process ends.
Arrive(n, kind) ==
    /\ ctrl[n].at = "none" /\ \A m \in 1..(n - 1) : ctrl[m].at # "none"
    /\ due' = [due EXCEPT ![n] = {waits[i] : i \in DOMAIN waits}]
    /\ \/ /\ hooked
          /\ ctrl' = [ctrl EXCEPT ![n].at = "lock", ![n].kind = kind]
          /\ UNCHANGED ended
       \/ /\ ~hooked
          /\ ctrl' = [ctrl EXCEPT ![n].at = "done", ![n].kind = kind]
          /\ ended' = "default"
    /\ UNCHANGED <<stateVars, callVars, signaled, waiter, set>>

CtrlLock(n) ==
    /\ ctrl[n].at = "lock" /\ lock = None
    /\ lock' = n
    /\ ctrl' = [ctrl EXCEPT ![n].at = "set", ![n].todo = waits]
    /\ UNCHANGED <<installed, hooked, waits, callVars, signaled, waiter, ended, due, set>>

\* A mutant: the wait is reset instead of set.
CtrlSet_Resets(n) ==
    /\ ctrl[n].at = "set" /\ ctrl[n].todo # <<>>
    /\ signaled' = signaled \ {Head(ctrl[n].todo)}
    /\ ctrl' = [ctrl EXCEPT ![n].todo = Tail(@), ![n].any = TRUE]
    /\ set' = [set EXCEPT ![n] = @ \cup {Head(ctrl[n].todo)}]
    /\ UNCHANGED <<stateVars, callVars, waiter, ended, due>>

\* One iteration of signal_all; the clones in the list keep the objects open,
\* so set does not fail.
CtrlSet(n) ==
    /\ ctrl[n].at = "set" /\ ctrl[n].todo # <<>>
    /\ SetEvent(Head(ctrl[n].todo))
    /\ ctrl' = [ctrl EXCEPT ![n].todo = Tail(@), ![n].any = TRUE]
    /\ set' = [set EXCEPT ![n] = @ \cup {Head(ctrl[n].todo)}]
    /\ UNCHANGED <<stateVars, callVars, ended, due>>

\* signal_all returns.  FALSE passes the signal on to the default handler;
\* after a close the system ends the process.
CtrlReturn(n) ==
    /\ ctrl[n].at = "set" /\ ctrl[n].todo = <<>>
    /\ lock' = None
    /\ ctrl' = [ctrl EXCEPT ![n].at = "done"]
    /\ ended' = IF ~ctrl[n].any THEN "unhandled"
                ELSE IF ctrl[n].kind = "close" THEN "closed" ELSE None
    /\ UNCHANGED <<installed, hooked, waits, callVars, signaled, waiter, due, set>>

-----------------------------------------------------------------------------
Init ==
    /\ lock = None /\ installed = FALSE /\ hooked = FALSE /\ waits = <<>>
    /\ pc = [c \in Callers |-> "idle"]
    /\ arg = [c \in Callers |-> None]
    /\ ctrl = [n \in Signals |-> [at |-> "none", kind |-> None, todo |-> <<>>, any |-> FALSE]]
    /\ signaled = {}
    /\ waiter = [t \in Waiters |-> Idle]
    /\ ended = None
    /\ due = [n \in Signals |-> {}]
    /\ set = [n \in Signals |-> {}]

RegisterStep(c) == Install(c) \/ Push(c)
HandlerStep(n) == CtrlLock(n) \/ CtrlSet(n) \/ CtrlReturn(n)

Next ==
    /\ ended = None
    /\ \/ \E c \in Callers, w \in Waits : Lock(c, w)
       \/ \E c \in Callers : RegisterStep(c)
       \/ \E n \in Signals, kind \in Kinds : Arrive(n, kind)
       \/ \E n \in Signals : HandlerStep(n)
       \/ \E t \in Waiters, h \in Groups, timed \in BOOLEAN : WaitAny(t, h, timed)
       \/ \E t \in Waiters : WaitReturn(t) \/ WaitTimeout(t)
       \/ \E w \in Waits : Reset(w)

\* Threads that can run do; nothing obliges a caller to register or to wait.
Fairness ==
    /\ \A c \in Callers : WF_vars(ended = None /\ RegisterStep(c))
    /\ \A n \in Signals : WF_vars(ended = None /\ HandlerStep(n))
    /\ \A t \in Waiters : WF_vars(ended = None /\ WaitReturn(t))

Spec == Init /\ [][Next]_vars
FairSpec == Spec /\ Fairness

-----------------------------------------------------------------------------
(* Properties.                                                             *)

\* Every variable keeps its type, and the mutex is held by exactly the thread
\* that is inside it.
TypeOK ==
    /\ lock \in {None} \cup Callers \cup Signals
    /\ {installed, hooked} \subseteq BOOLEAN
    /\ {waits[i] : i \in DOMAIN waits} \subseteq Waits
    /\ pc \in [Callers -> {"idle", "install", "push", "ok", "failed"}]
    /\ arg \in [Callers -> Waits \cup {None}]
    /\ \A n \in Signals : ctrl[n].at \in {"none", "lock", "set", "done"}
    /\ signaled \subseteq Waits
    /\ \A t \in Waiters : waiter[t].state \in {"idle", "blocked", "woken"}
    /\ ended \in {None, "default", "unhandled", "closed"}
    /\ \A c \in Callers : pc[c] \in {"install", "push"} <=> lock = c
    /\ \A n \in Signals : ctrl[n].at = "set" <=> lock = n

\* "Signals are reported as handled, so Ctrl+C no longer terminates the process
\* by itself": once the handler is installed no signal is passed on, not even
\* one that arrives before the first wait is in the list.
HandledOnceInstalled ==
    /\ ended # "unhandled"
    /\ ended = "default" => ~installed

\* A signal sets every wait whose registration had finished when it arrived.
EveryWaitIsSet ==
    \A n \in Signals : ctrl[n].at = "done" /\ hooked => due[n] \subseteq set[n]

\* The index a woken thread gets names an object that some signal has set.
IndexIsSet ==
    \A t \in Waiters : waiter[t].state = "woken" =>
        /\ waiter[t].answer + 1 \in DOMAIN waiter[t].handles
        /\ waiter[t].handles[waiter[t].answer + 1] \in UNION {set[n] : n \in Signals}

\* Between a signal, the registrations and the waits nothing is lost and
\* nothing made up (signal_on_ctrl, signal_all, wait_any).
SignalsHandled == HandledOnceInstalled /\ EveryWaitIsSet /\ IndexIsSet

\* A thread blocked on a registered manual-reset object returns once a signal
\* has arrived.
SignalWakes ==
    \A t \in Waiters, w \in ManualReset, n \in Signals :
        (/\ Blocked(t) /\ \E i \in DOMAIN waiter[t].handles : waiter[t].handles[i] = w
         /\ w \in due[n] /\ ctrl[n].at = "lock")
            ~> (waiter[t].state = "idle" \/ ended # None)

\* "Console applications that must shut down cleanly register a Wait": when the
\* process ends, no thread the signal has woken still has to return from its
\* wait.
CleanShutdown ==
    ended = "closed" => \A t \in Waiters : waiter[t].state # "woken"
=============================================================================
