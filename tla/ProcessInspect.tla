--------------------------- MODULE ProcessInspect ---------------------------
(* Looking into a process from outside: the drive letters that turn an NT    *)
(* path into a DOS path, cached for all threads (path/mod.rs), and the       *)
(* parameters read out of the process's memory while it runs                 *)
(* (process/peb.rs).                                                         *)
EXTENDS Naturals, Sequences, FiniteSets

CONSTANTS
    Threads,     \* threads that resolve paths or refresh the map
    Letters,     \* number of drive letters; 1..Letters, 26 in the code
    Devices,     \* device roots
    MaxMounts,   \* bound on mounts and unmounts
    MaxMoves,    \* bound on changes of the working directory
    NoMap        \* no device map, no device

VARIABLES
    drives,    \* letter -> the device root it stands for, or NoMap
    mounts,    \* mounts and unmounts so far
    cache,     \* DEVICE_PATH_CACHE: a map, or NoMap
    cacheAt,   \* mounts when the cached map began to be built
    floor,     \* mounts when the last completed refresh began
    lock,      \* the thread that holds the write lock, or NoMap
    step,        \* thread -> its step
    built,     \* thread -> the map being built
    letter,    \* thread -> the next letter it asks for
    begun,     \* thread -> mounts when it began to build
    params,    \* the target's parameters: field -> address
    text,      \* the target's memory: address -> text
    moves,     \* changes of the working directory so far
    buffer,    \* the reader's only buffer: raw parameters, or a text
    view,      \* addresses the reader took from the parameters
    got,       \* field -> the text read for it
    reading,   \* the fields still to be read; <<>> outside a call
    steady     \* the target has not moved since its parameters were read

mapping == <<drives, mounts, cache, cacheAt, floor, lock, step, built, letter, begun>>
remote == <<params, text, moves, buffer, view, got, reading, steady>>
inspectVars == <<mapping, remote>>

Fields == {"command line", "image path", "cwd"}
Order == <<"command line", "image path", "cwd">>
NoText == [f \in Fields |-> 0]

---------------------------------------------------------------------------
(* The device map.                                                          *)

Mount(l, d) ==
    /\ mounts < MaxMounts
    /\ drives[l] # d
    /\ drives' = [drives EXCEPT ![l] = d]
    /\ mounts' = mounts + 1
    /\ UNCHANGED <<cache, cacheAt, floor, lock, step, built, letter, begun, remote>>

\* with_device_map: the read lock, then either f(map) or the slow path.
Lookup(t) ==
    /\ step[t] = "idle" /\ lock = NoMap
    /\ step' = [step EXCEPT ![t] = IF cache = NoMap THEN "miss" ELSE "idle"]
    /\ UNCHANGED <<drives, mounts, cache, cacheAt, floor, lock, built, letter, begun, remote>>

Begin(t, next) ==
    /\ step' = [step EXCEPT ![t] = next]
    /\ built' = [built EXCEPT ![t] = {}]
    /\ letter' = [letter EXCEPT ![t] = 1]
    /\ begun' = [begun EXCEPT ![t] = mounts]

\* A mutant: the map is built before the write lock is taken.
WriteLock_AfterBuild(t) == lock

WriteLock(t) == t

\* The write lock of the slow path: another thread may have built the map.
SlowPath(t) ==
    /\ step[t] = "miss" /\ lock = NoMap
    /\ IF cache # NoMap
       THEN /\ step' = [step EXCEPT ![t] = "idle"]
            /\ UNCHANGED <<lock, built, letter, begun>>
       ELSE /\ lock' = WriteLock(t)
            /\ Begin(t, "build")
    /\ UNCHANGED <<drives, mounts, cache, cacheAt, floor, remote>>

refresh_device_map(t) ==
    /\ step[t] = "idle" /\ lock = NoMap
    /\ lock' = WriteLock(t)
    /\ Begin(t, "refresh")
    /\ UNCHANGED <<drives, mounts, cache, cacheAt, floor, remote>>

\* build_device_map: one QueryDosDeviceW per letter, the later letter wins.
build_device_map(t) ==
    /\ step[t] \in {"build", "refresh"}
    /\ letter[t] <= Letters
    /\ LET d == drives[letter[t]]
       IN  built' = [built EXCEPT ![t] =
                        IF d = NoMap THEN @
                        ELSE {e \in @ : e[1] # d} \cup {<<d, letter[t]>>}]
    /\ letter' = [letter EXCEPT ![t] = @ + 1]
    /\ UNCHANGED <<drives, mounts, cache, cacheAt, floor, lock, step, begun, remote>>

\* The map is stored and the lock released.
Store(t) ==
    /\ step[t] \in {"build", "refresh"}
    /\ letter[t] > Letters
    /\ lock \in {NoMap, t}
    /\ cache' = built[t]
    /\ cacheAt' = begun[t]
    /\ floor' = IF step[t] = "refresh" THEN begun[t] ELSE floor
    /\ lock' = NoMap
    /\ step' = [step EXCEPT ![t] = "idle"]
    /\ UNCHANGED <<drives, mounts, built, letter, begun, remote>>

---------------------------------------------------------------------------
(* The parameters of a process.                                             *)

\* The target changes its working directory: a new text at a new address.
\* The address of the old one may be used for another text.
SetCurrentDirectory ==
    /\ moves < MaxMoves
    /\ moves' = moves + 1
    /\ params' = [params EXCEPT !["cwd"] = 4 + moves]
    /\ text' = [text EXCEPT ![params["cwd"]] = 0, ![4 + moves] = 4 + moves]
    /\ steady' = FALSE
    /\ UNCHANGED <<mapping, buffer, view, got, reading>>

\* read_peb_address, then the PEB and RTL_USER_PROCESS_PARAMETERS into the
\* buffer; the addresses of the three strings are taken from it.
read_process_parameters ==
    /\ reading = <<>>
    /\ buffer' = params
    /\ view' = params
    /\ got' = NoText
    /\ reading' = Order
    /\ steady' = TRUE
    /\ UNCHANGED <<mapping, params, text, moves>>

AddressOf(f) == view[f]

\* read_unicode_string: ReadProcessMemory into the same buffer; it may fail.
read_unicode_string ==
    /\ reading # <<>>
    /\ LET f == Head(reading)
           t == text[AddressOf(f)]
       IN  \/ /\ got' = [got EXCEPT ![f] = t]
              /\ buffer' = [g \in Fields |-> AddressOf(f)]
              /\ reading' = Tail(reading)
           \/ /\ reading' = <<>>
              /\ got' = NoText
              /\ UNCHANGED buffer
    /\ UNCHANGED <<mapping, params, text, moves, view, steady>>

InspectInit ==
    /\ drives = [l \in 1..Letters |-> NoMap]
    /\ mounts = 0
    /\ cache = NoMap /\ cacheAt = 0 /\ floor = 0 /\ lock = NoMap
    /\ step = [t \in Threads |-> "idle"]
    /\ built = [t \in Threads |-> {}]
    /\ letter = [t \in Threads |-> 1]
    /\ begun = [t \in Threads |-> 0]
    /\ params = [f \in Fields |-> CHOOSE i \in 1..3 : Order[i] = f]
    /\ text = [a \in 1..(3 + MaxMoves) |-> IF a <= 3 THEN a ELSE 0]
    /\ moves = 0
    /\ buffer = NoText /\ view = NoText /\ got = NoText
    /\ reading = <<>> /\ steady = TRUE

Resolve == \E t \in Threads :
    Lookup(t) \/ SlowPath(t) \/ refresh_device_map(t) \/ build_device_map(t) \/ Store(t)

InspectNext ==
    \/ \E l \in 1..Letters, d \in Devices \cup {NoMap} : Mount(l, d)
    \/ Resolve
    \/ SetCurrentDirectory \/ read_process_parameters \/ read_unicode_string

InspectSpec == InspectInit /\ [][InspectNext]_inspectVars

---------------------------------------------------------------------------
(* Properties.                                                              *)

\* A refresh is never undone: once refresh_device_map has returned, the map
\* every thread looks into was built after that refresh began, although a
\* thread that missed the cache may be building one as well (path/mod.rs:80,
\* "Call after a drive is mounted or unmounted").
RefreshHolds == cache # NoMap => cacheAt >= floor

\* The parameters of a process that does not move meanwhile are its own, each
\* under its own name, although one buffer serves all the reads
\* (peb.rs:255, "Extract everything from params before any of these calls
\* mutate buffer").
ParametersFaithful ==
    steady => \A f \in Fields : got[f] \in {0, text[params[f]]}

\* What is read through state that others change is never older than it may
\* be nor mixed up: the device map after a refresh, the parameters read through
\* one buffer.
InspectFaithful == RefreshHolds /\ ParametersFaithful
=============================================================================
