--------------------------- MODULE ProcessControl ---------------------------
(* Starting, opening, waiting for and entering another process               *)
(* (process/spawn.rs, processes.rs, inject.rs).  One process identifier is   *)
(* followed; the processes that carry it one after the other are numbered.   *)
EXTENDS Naturals, Sequences, FiniteSets

CONSTANTS
    MaxProcs,   \* bound on processes created
    Codes,      \* exit codes a process may end with, 259 (STILL_ACTIVE) among them
    None,       \* a call that returned Ok(None)
    Failed,     \* the error of a system call that failed
    Ambiguous   \* the error "wait completed but exit code is still active"

ASSUME ProcsAssumption == MaxProcs \in Nat
ASSUME CodesAssumption ==
    /\ Codes \subseteq Nat
    /\ None \notin Nat /\ Failed \notin Nat \cup {None}
    /\ Ambiguous \notin Nat \cup {None, Failed}

STILL_ACTIVE == 259

VARIABLES
    option,   \* ProcessSpawner: the options that acquire something
    todo,     \* spawn(): the acquisitions still to make; <<>> outside spawn()
    held,     \* what spawn() holds: handles, attribute list, environment block
    state,    \* process -> none, suspended, running or exited
    code,     \* process -> its exit code
    owner,    \* the process that has the identifier, 0 when it is free
    spawned,  \* the process of the live SpawnedProcess, 0 without one
    proc,     \* the process of the live Process, 0 without one
    same,     \* whether the Process was opened through the SpawnedProcess
    wait,     \* the wait under way on the Process
    answer,   \* what the last wait or query answered
    inj,      \* inject_dll: the step it is at
    memory,   \* the path in the target: none, allocated, written or freed
    thread    \* the remote thread: none, started, loaded, failed or astray

spawning == <<option, todo, held>>
process == <<state, code, owner>>
holding == <<spawned, proc, same>>
waiting == <<wait, answer>>
injecting == <<inj, memory, thread>>
controlVars == <<spawning, process, holding, waiting, injecting>>

Procs == 1..MaxProcs
Alive(o) == o # 0 /\ state[o] \in {"suspended", "running"}

---------------------------------------------------------------------------
(* spawn                                                                    *)

\* What spawn() acquires, in its order: the parent's handle and the attribute
\* list that names it; two privileges, the source's process and token, a
\* primary copy of it and the environment block.
Acquisitions(o) ==
    (IF "parent" \in o THEN <<"parent", "attributes", "attribute">> ELSE <<>>)
    \o (IF "token" \in o
        THEN <<"assign privilege", "quota privilege", "source process", "source token",
               "primary token", "environment">>
        ELSE <<>>)
    \o <<"create">>

spawn(o) ==
    /\ todo = <<>> /\ spawned = 0
    /\ option' = o
    /\ todo' = Acquisitions(o)
    /\ UNCHANGED <<held, process, holding, waiting, injecting>>

\* get_user_token_from_pid and enable_privilege drop what they opened when
\* they return; an attribute belongs to the list.
Kept(name) ==
    CASE name = "primary token" -> (held \ {"source process", "source token"}) \cup {name}
      [] name \in {"attribute", "assign privilege", "quota privilege"} -> held
      [] OTHER -> held \cup {name}

Acquire ==
    /\ todo # <<>> /\ Head(todo) # "create"
    /\ held' = Kept(Head(todo))
    /\ todo' = Tail(todo)
    /\ UNCHANGED <<option, process, holding, waiting, injecting>>

\* A mutant: with_parent returns without deleting the list it initialised.
Released_KeepsList == IF todo # <<>> /\ Head(todo) = "attribute" THEN {"attributes"} ELSE {}

\* What is left of what spawn() held once it has returned: every guard drops.
Released == {}

\* A call fails, also the CreateProcess at the end.
SpawnFails ==
    /\ todo # <<>>
    /\ held' = Released
    /\ todo' = <<>>
    /\ UNCHANGED <<option, process, holding, waiting, injecting>>

Create ==
    /\ todo = <<"create">>
    /\ owner = 0
    /\ \E o \in Procs :
          /\ state[o] = "none" /\ \A p \in 1..(o-1) : state[p] # "none"
          /\ state' = [state EXCEPT ![o] = IF "suspended" \in option THEN "suspended" ELSE "running"]
          /\ owner' = o
          /\ spawned' = o
    /\ held' = Released
    /\ todo' = <<>>
    /\ UNCHANGED <<option, code, proc, same, waiting, injecting>>

resume ==
    /\ spawned # 0 /\ state[spawned] = "suspended"
    /\ state' = [state EXCEPT ![spawned] = "running"]
    /\ UNCHANGED <<spawning, code, owner, holding, waiting, injecting>>

DropSpawned ==
    /\ spawned # 0
    /\ spawned' = 0
    /\ same' = FALSE
    /\ UNCHANGED <<spawning, process, proc, waiting, injecting>>

---------------------------------------------------------------------------
(* The process and its identifier.                                          *)

Exits ==
    /\ \E o \in Procs, c \in Codes :
          /\ state[o] = "running"
          /\ state' = [state EXCEPT ![o] = "exited"]
          /\ code' = [code EXCEPT ![o] = c]
    /\ UNCHANGED <<spawning, owner, holding, waiting, injecting>>

\* The identifier stays with a process while a handle to it is open.
Pinned(o) == o \in {spawned, proc}

Recycle ==
    /\ owner # 0 /\ state[owner] = "exited" /\ ~Pinned(owner) /\ inj = "idle"
    /\ owner' = 0
    /\ UNCHANGED <<spawning, state, code, holding, waiting, injecting>>

\* A process that is not ours takes the identifier.
Another ==
    /\ owner = 0
    /\ \E o \in Procs :
          /\ state[o] = "none" /\ \A p \in 1..(o-1) : state[p] # "none"
          /\ state' = [state EXCEPT ![o] = "running"]
          /\ owner' = o
    /\ UNCHANGED <<spawning, code, holding, waiting, injecting>>

\* Process::open, open_with_access, SpawnedProcess::open_process: by identifier.
open_with_access(through) ==
    /\ proc = 0 /\ owner # 0
    /\ through => spawned # 0
    /\ proc' = owner
    /\ same' = through
    /\ UNCHANGED <<spawning, process, spawned, waiting, injecting>>

DropProcess ==
    /\ proc # 0 /\ wait = "no" /\ inj = "idle"
    /\ proc' = 0
    /\ same' = FALSE
    /\ UNCHANGED <<spawning, process, spawned, waiting, injecting>>

terminate(c) ==
    /\ Alive(proc)
    /\ state' = [state EXCEPT ![proc] = "exited"]
    /\ code' = [code EXCEPT ![proc] = c]
    /\ UNCHANGED <<spawning, owner, holding, waiting, injecting>>

\* kill_by_id opens the process, terminates it with 1 and drops the handle.
kill_by_id ==
    /\ Alive(owner)
    /\ state' = [state EXCEPT ![owner] = "exited"]
    /\ code' = [code EXCEPT ![owner] = 1]
    /\ UNCHANGED <<spawning, owner, holding, waiting, injecting>>

---------------------------------------------------------------------------
(* Waiting.                                                                 *)

get_exit_code_value == IF state[proc] = "exited" THEN code[proc] ELSE STILL_ACTIVE

\* exit_code, is_running; GetExitCodeProcess may fail.
exit_code ==
    /\ proc # 0 /\ wait = "no"
    /\ \/ answer' = IF get_exit_code_value = STILL_ACTIVE THEN None ELSE get_exit_code_value
       \/ answer' = Failed
    /\ UNCHANGED <<spawning, process, holding, wait, injecting>>

WaitBegin(kind) ==
    /\ proc # 0 /\ wait = "no"
    /\ wait' = kind
    /\ UNCHANGED <<spawning, process, holding, answer, injecting>>

\* wait_for_exit, wait_for_exit_timeout: the handle is signalled.
WaitDone ==
    /\ wait # "no" /\ state[proc] = "exited"
    /\ answer' = IF get_exit_code_value = STILL_ACTIVE THEN Ambiguous ELSE get_exit_code_value
    /\ wait' = "no"
    /\ UNCHANGED <<spawning, process, holding, injecting>>

\* WAIT_FAILED, another unexpected result, or a GetExitCodeProcess that fails.
WaitFails ==
    /\ wait # "no"
    /\ answer' = Failed
    /\ wait' = "no"
    /\ UNCHANGED <<spawning, process, holding, injecting>>

\* A mutant: a timeout is answered with the exit code read after it.
TimedOut_ReadsCode == get_exit_code_value

TimedOut == None

WaitTimeout ==
    /\ wait = "timeout"
    /\ answer' = TimedOut
    /\ wait' = "no"
    /\ UNCHANGED <<spawning, process, holding, injecting>>

---------------------------------------------------------------------------
(* inject_dll.  The remote thread runs beside it.                           *)

\* A DLL that is loaded already, and a snapshot, OpenProcess or allocation
\* that fails, leave nothing to undo: the call that goes on starts here.
InjectBegin ==
    /\ Alive(proc) /\ inj = "idle"
    /\ thread = "none"
    /\ inj' = "allocated"
    /\ memory' = "allocated"
    /\ UNCHANGED <<spawning, process, holding, waiting, thread>>

InjectWrite ==
    /\ inj = "allocated"
    /\ Alive(proc)
    /\ inj' = "written"
    /\ memory' = "written"
    /\ UNCHANGED <<spawning, process, holding, waiting, thread>>

InjectThread ==
    /\ inj = "written"
    /\ Alive(proc)
    /\ inj' = "waiting"
    /\ thread' = "started"
    /\ UNCHANGED <<spawning, process, holding, waiting, memory>>

\* VirtualFreeEx on the way out.
Freed == "freed"

\* WriteProcessMemory, GetProcAddress or CreateRemoteThread fails.
InjectFails ==
    /\ inj \in {"allocated", "written"}
    /\ memory' = Freed
    /\ inj' = "idle"
    /\ UNCHANGED <<spawning, process, holding, waiting, thread>>

\* The wait for the thread ends, or times out; either way the thread's handle
\* is closed and the memory is freed.
InjectEnds(timeout) ==
    /\ inj = "waiting"
    /\ timeout \/ thread # "started" \/ ~Alive(proc)
    /\ memory' = Freed
    /\ inj' = "idle"
    /\ thread' = IF thread = "started" THEN thread ELSE "none"
    /\ UNCHANGED <<spawning, process, holding, waiting>>

\* LoadLibraryA reads the path and loads the DLL, or does not find it.
RemoteLoad ==
    /\ thread = "started" /\ Alive(proc)
    /\ thread' \in IF memory = "written" THEN {"loaded", "failed"} ELSE {"astray"}
    /\ UNCHANGED <<spawning, process, holding, waiting, inj, memory>>

ControlInit ==
    /\ option = {} /\ todo = <<>> /\ held = {}
    /\ state = [o \in Procs |-> "none"]
    /\ code = [o \in Procs |-> 0]
    /\ owner = 0 /\ spawned = 0 /\ proc = 0 /\ same = FALSE
    /\ wait = "no" /\ answer = None
    /\ inj = "idle" /\ memory = "none" /\ thread = "none"

ControlNext ==
    \/ \E o \in SUBSET {"parent", "token", "suspended"} : spawn(o)
    \/ Acquire \/ SpawnFails \/ Create \/ resume \/ DropSpawned
    \/ Exits \/ Recycle \/ Another
    \/ \E through \in BOOLEAN : open_with_access(through)
    \/ DropProcess
    \/ \E c \in Codes : terminate(c)
    \/ kill_by_id
    \/ exit_code
    \/ \E kind \in {"exit", "timeout"} : WaitBegin(kind)
    \/ WaitDone \/ WaitFails \/ WaitTimeout
    \/ InjectBegin \/ InjectWrite \/ InjectThread \/ InjectFails
    \/ \E timeout \in BOOLEAN : InjectEnds(timeout)
    \/ RemoteLoad

ControlSpec == ControlInit /\ [][ControlNext]_controlVars

---------------------------------------------------------------------------
(* Properties.                                                              *)

\* Outside spawn() nothing it acquired is held, whichever call failed, and
\* outside inject_dll no memory of the target is left allocated.
NothingLeftBehind ==
    /\ todo = <<>> => held = {}
    /\ inj = "idle" => memory \in {"none", "freed"}

\* A Process opened through a live SpawnedProcess is the spawned process, not
\* a later one that took over its identifier: the handle that SpawnedProcess
\* keeps pins it (open_process opens by identifier).
OpenedIsSpawned == (same /\ spawned # 0 /\ proc # 0) => proc = spawned

\* Whichever call of spawn or inject_dll fails, nothing is left behind, and the
\* process opened for a spawned one is that one.
SpawnSound == NothingLeftBehind /\ OpenedIsSpawned

\* What an answer says of the process, when it is given.
Truthful(a) ==
    /\ a \in Nat => state[proc] = "exited" /\ code[proc] = a
    /\ a = None => \/ wait = "timeout"
                   \/ wait = "no" /\ (state[proc] = "exited" => code[proc] = STILL_ACTIVE)
    /\ a = Ambiguous => wait # "no" /\ state[proc] = "exited" /\ code[proc] = STILL_ACTIVE

\* Every answer of a wait or of exit_code is so: a code is the one the process
\* ended with, no wait without a timeout ends with None, an exit is left out or
\* called ambiguous only for the code 259, and any other error is that of a
\* system call (processes.rs:193, "Ok(Some(code)) when the process exits,
\* Ok(None) on timeout").
AnswerTrue ==
    [][answer' # answer \/ (wait # "no" /\ wait' = "no") => Truthful(answer')]_controlVars

\* "Returns Ok(Some(code)) when the process exits" (processes.rs:195): a wait
\* that has seen the exit knows the code.  One that is 259 is an error.
ExitGivesCode == answer # Ambiguous

\* "Returns None if the process is still running" (processes.rs:152): no
\* process that has ended is taken for a running one.  One that ended with
\* 259 is.
NoneMeansRunning == [][exit_code /\ answer' = None => state[proc] # "exited"]_controlVars

\* "If wait timed out the thread may still be running; we leave it running
\* (the DLL will load asynchronously)" (inject.rs:315): a thread that starts
\* late still finds the path.  It finds memory that has been freed.
LateThreadFindsPath == thread # "astray"
=============================================================================
