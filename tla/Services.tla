------------------------------ MODULE Services ------------------------------
(* A Windows service seen through the service control manager (service/):    *)
(* start, stop and control requests, and restart, which stops, polls for the *)
(* stopped state with a timeout, and starts.  The service moves by itself    *)
(* and other clients start and stop it too.                                  *)
EXTENDS Integers

CONSTANTS
    Timeout,      \* of restart, in tenths of a second
    Hints,        \* wait hints the service reports, in tenths of a second
    MaxDelay,     \* how much longer than asked a sleep or query may take
    MaxRequests,  \* bound on requests, of the caller and of other clients
    MaxProgress   \* bound on checkpoints reported while stopping

VARIABLES
    state,       \* of the service, as the control manager keeps it
    checkpoint,  \* reported while a change is pending
    access,      \* rights of the caller's handle, {} when none is open
    step,        \* of the caller: "idle", "wait" or "start"
    elapsed,     \* time since wait_for_state began
    stale,       \* time at which the checkpoint last moved
    last,        \* the checkpoint seen last
    result,      \* of the caller's last request
    requests,    \* requests so far
    disturbed    \* ghost: somebody else acted on the service during a restart

serviceVars == <<state, checkpoint, access, step, elapsed, stale, last, result, requests, disturbed>>
service == <<state, checkpoint>>
waiting == <<elapsed, stale, last>>

Larger(a, b) == IF a > b THEN a ELSE b
Least(a, b) == IF a < b THEN a ELSE b
Clamp(v, lo, hi) == Least(Larger(v, lo), hi)

Rights == {"query", "start", "stop", "pause"}

---------------------------------------------------------------------------
(* The service control manager and the service.                              *)

\* A change that is pending goes on, ends, or stays as it is.
Progress ==
    /\ \/ state = "StopPending" /\ state' = "Stopped" /\ checkpoint' = 0
       \/ state \in {"StartPending", "ContinuePending"} /\ state' = "Running" /\ checkpoint' = 0
       \/ state = "PausePending" /\ state' = "Paused" /\ checkpoint' = 0
       \/ /\ state \in {"StopPending", "StartPending"} /\ checkpoint < MaxProgress
          /\ checkpoint' = checkpoint + 1
          /\ state' = state
    /\ UNCHANGED <<access, step, waiting, result, requests, disturbed>>

\* StartServiceW: the service must be stopped.
CanStart == state = "Stopped"
\* ControlService: stop and pause need a running service, continue a paused one.
CanControl(c) ==
    CASE c = "stop" -> state \in {"Running", "Paused"}
      [] c = "pause" -> state = "Running"
      [] c = "continue" -> state = "Paused"
      [] OTHER -> state # "Stopped"
After(c) ==
    CASE c = "stop" -> {"StopPending", "Stopped"}
      [] c = "pause" -> {"PausePending", "Paused"}
      [] c = "continue" -> {"ContinuePending", "Running"}
      [] OTHER -> {state}

\* Another client, or the service's own process, which may end at any time.
OtherActs ==
    /\ requests < MaxRequests /\ requests' = requests + 1
    /\ \/ CanStart /\ state' = "StartPending"
       \/ \E c \in {"stop", "pause", "continue"} : CanControl(c) /\ state' \in After(c)
       \/ state # "Stopped" /\ state' = "Stopped"
    /\ checkpoint' = 0
    /\ disturbed' = (disturbed \/ step # "idle")
    /\ UNCHANGED <<access, step, waiting, result>>

---------------------------------------------------------------------------
(* ServiceManager and Service.                                              *)

\* Service::open asks for the right to query only; ServiceManager::open for
\* all; open_with_access for what the caller names.
open_with_access(rights) ==
    /\ access = {}
    /\ access' = rights
    /\ UNCHANGED <<service, step, waiting, result, requests, disturbed>>

Drop ==
    /\ access # {} /\ step = "idle"
    /\ access' = {} /\ result' = "none"
    /\ UNCHANGED <<service, step, waiting, requests, disturbed>>

Request == step = "idle" /\ access # {} /\ requests < MaxRequests /\ requests' = requests + 1

start ==
    /\ Request
    /\ IF CanStart /\ "start" \in access
       THEN state' = "StartPending" /\ checkpoint' = 0 /\ result' = "ok"
       ELSE result' = "error" /\ UNCHANGED service
    /\ UNCHANGED <<access, step, waiting, disturbed>>

send_control(c) ==
    /\ Request
    /\ IF CanControl(c) /\ (IF c = "stop" THEN "stop" ELSE "pause") \in access
       THEN state' \in After(c) /\ checkpoint' = 0 /\ result' = "ok"
       ELSE result' = "error" /\ UNCHANGED service
    /\ UNCHANGED <<access, step, waiting, disturbed>>

\* restart: stop, and an error of it is returned.
restart ==
    /\ Request
    /\ IF CanControl("stop") /\ "stop" \in access
       THEN /\ state' \in After("stop") /\ checkpoint' = 0
            /\ step' = "wait" /\ result' = "none"
       ELSE result' = "error" /\ UNCHANGED <<service, step>>
    /\ elapsed' = 0 /\ stale' = 0 /\ last' = 0
    /\ disturbed' = FALSE
    /\ UNCHANGED access

\* States the crate has no name for are Unknown.
from_windows(s) ==
    IF s \in {"Stopped", "StartPending", "StopPending", "Running", "Paused"} THEN s ELSE "Unknown"

query_with_buffer == [state |-> from_windows(state), checkpoint |-> checkpoint]

GiveUp(why) == step' = "idle" /\ result' = why

\* A mutant: a service that is stopping is taken for a stopped one.
Reached_Stopping == query_with_buffer.state \in {"Stopped", "StopPending"}

Reached == query_with_buffer.state = "Stopped"

\* The time slept between two polls, from the service's wait hint.
PollTime(hint) == Clamp(Clamp(hint, 1, 100) \div 10, 1, 10)

\* One round of wait_for_state: the time is checked, the status queried, the
\* stale checkpoint's time checked, and the thread sleeps.
wait_for_state ==
    /\ step = "wait"
    /\ \E d \in 0..MaxDelay, e \in 0..MaxDelay, hint \in Hints :
          LET now == elapsed + d
              seen == query_with_buffer.checkpoint
              moved == seen # last
              since == IF moved THEN now ELSE stale
          IN  IF elapsed > Timeout
              THEN GiveUp("timed out") /\ UNCHANGED waiting
              ELSE \/ "query" \notin access /\ GiveUp("error") /\ UNCHANGED waiting
                   \/ "query" \in access /\ Reached /\ step' = "start" /\ UNCHANGED <<result, waiting>>
                   \/ /\ "query" \in access /\ ~Reached
                      /\ last' = seen /\ stale' = since
                      /\ IF now - since > Timeout
                         THEN GiveUp("timed out") /\ elapsed' = now
                         ELSE elapsed' = now + PollTime(hint) + e /\ UNCHANGED <<step, result>>
    /\ UNCHANGED <<service, access, requests, disturbed>>

RestartStart ==
    /\ step = "start"
    /\ IF CanStart /\ "start" \in access
       THEN state' = "StartPending" /\ checkpoint' = 0 /\ GiveUp("restarted")
       ELSE UNCHANGED service /\ GiveUp("start failed")
    /\ UNCHANGED <<access, waiting, requests, disturbed>>

---------------------------------------------------------------------------

ServiceInit ==
    /\ state \in {"Stopped", "Running", "Paused"} /\ checkpoint = 0
    /\ access = {}
    /\ step = "idle"
    /\ elapsed = 0 /\ stale = 0 /\ last = 0
    /\ result = "none"
    /\ requests = 0
    /\ disturbed = FALSE

ServiceNext ==
    \/ Progress \/ OtherActs
    \/ \E rights \in {{"query"}, Rights, {"query", "stop"}} : open_with_access(rights)
    \/ Drop
    \/ start \/ restart
    \/ \E c \in {"stop", "pause", "continue", "interrogate"} : send_control(c)
    \/ wait_for_state \/ RestartStart

ServiceSpec == ServiceInit /\ [][ServiceNext]_serviceVars

---------------------------------------------------------------------------
(* Properties.                                                              *)

\* A restart that nobody interferes with starts the service it has stopped,
\* gives up only after its time is over, and never waits much longer: it
\* reports a failed start only when the handle lacks the right or somebody
\* else acted in between (Service::restart, wait_for_state).
RestartHonest ==
    /\ result = "start failed" => disturbed \/ "start" \notin access
    /\ result = "timed out" => elapsed > Timeout
    /\ elapsed <= Timeout + 10 + 2 * MaxDelay

\* The wait gives up "checkpoint_stale_since" after the last progress
\* (service/service.rs:143): one that is still progressing is waited for.
\* The time since the start is checked as well and is always the longer one.
ProgressExtends == [][result' = "timed out" => elapsed' - stale' > Timeout]_serviceVars
=============================================================================
