---------------------------- MODULE ProcessProofs ----------------------------
(***************************************************************************)
(* What is read of a process is never older than it may be and never mixed *)
(* up (ProcessInspect); spawn and inject_dll leave nothing behind and a    *)
(* wait answers the truth (ProcessControl); an applied mitigation plan is  *)
(* in force (Mitigation); a process tree is killed exactly (ProcessTree).  *)
(* For any number of threads, drives, processes, exit codes and supported  *)
(* payload bits.                                                           *)
(***************************************************************************)
EXTENDS ProcessInspect, ProcessControl, Mitigation, ProcessTree, NumberFacts, SequenceTheorems

Building == {"build", "refresh"}
Addresses == 1..(3 + MaxMoves)

\* The device map: its counters are numbers, and the write lock is held by
\* exactly the thread that builds a map.
MapTypes ==
    /\ mounts \in Nat /\ floor \in Nat /\ cacheAt \in Nat
    /\ step \in [Threads -> {"idle", "miss"} \cup Building]
    /\ begun \in [Threads -> Nat]
    /\ \A t \in Threads : step[t] \in Building <=> lock = t

\* Neither the map in the cache nor one being built is older than the last
\* refresh that has returned.
MapFresh ==
    /\ floor <= cacheAt /\ cacheAt <= mounts
    /\ \A t \in Threads : step[t] \in Building => floor <= begun[t] /\ begun[t] <= mounts

\* The target's memory and the reader's copies of addresses in it.
ReadTypes ==
    /\ moves \in 0..MaxMoves
    /\ params \in [Fields -> Addresses]
    /\ text \in [Addresses -> Nat]
    /\ got \in [Fields -> Nat]
    /\ reading \in Seq(Fields)
    /\ reading # <<>> => view \in [Fields -> Addresses]

\* While the target does not move, the addresses the reader took are its own.
ViewCurrent == steady /\ reading # <<>> => view = params

MapInv == MapTypes /\ MapFresh
ReadInv == ReadTypes /\ ViewCurrent /\ ParametersFaithful

-----------------------------------------------------------------------------
(* The device map.                                                         *)

\* The steps that look into the map or take its lock leave no map behind that
\* is older than the last refresh: a map is dated when its thread gets the lock.
LEMMA LockingKeepsMap ==
    ASSUME NoMap \notin Threads, MapInv, NEW t \in Threads,
           Lookup(t) \/ SlowPath(t) \/ refresh_device_map(t)
    PROVE  MapInv'
<1> USE DEF MapInv, MapTypes, MapFresh, Building
<1>1. CASE Lookup(t)
    BY <1>1 DEF Lookup
<1>2. CASE SlowPath(t)
    <2>1. CASE cache # NoMap
        BY <1>2, <2>1 DEF SlowPath
    <2>2. CASE cache = NoMap
        <3>1. lock = NoMap /\ lock' = t /\ Begin(t, "build")
            BY <1>2, <2>2 DEF SlowPath, WriteLock
        <3>2. UNCHANGED <<mounts, cacheAt, floor>>
            BY <1>2 DEF SlowPath
        <3> QED BY <3>1, <3>2 DEF Begin
    <2> QED BY <2>1, <2>2
<1>3. CASE refresh_device_map(t)
    BY <1>3 DEF refresh_device_map, WriteLock, Begin
<1> QED BY <1>1, <1>2, <1>3

\* Building takes no step that anybody else sees, and a map is stored while its
\* builder still holds the lock, so that no refresh has returned since.
LEMMA BuildingKeepsMap ==
    ASSUME NoMap \notin Threads, MapInv, NEW t \in Threads,
           build_device_map(t) \/ Store(t)
    PROVE  MapInv'
<1> USE DEF MapInv, MapTypes, MapFresh, Building
<1>1. CASE build_device_map(t)
    BY <1>1 DEF build_device_map
<1>2. CASE Store(t)
    <2>1. lock = t /\ \A u \in Threads \ {t} : step[u] \notin Building
        BY <1>2 DEF Store
    <2>2. floor <= begun[t] /\ begun[t] <= mounts /\ begun[t] \in Nat
        BY <1>2 DEF Store
    <2>3. floor' \in {begun[t], floor} /\ cacheAt' = begun[t] /\ UNCHANGED <<mounts, begun>>
        BY <1>2 DEF Store
    <2>4. lock' = NoMap /\ step' = [step EXCEPT ![t] = "idle"]
        BY <1>2 DEF Store
    <2> QED BY <2>1, <2>2, <2>3, <2>4
<1> QED BY <1>1, <1>2

\* Drives are mounted and the other half of the module moves at any time.
LEMMA OthersKeepMap ==
    ASSUME MapInv,
           \/ \E l \in 1..Letters, d \in Devices \cup {NoMap} : Mount(l, d)
           \/ UNCHANGED mapping
    PROVE  MapInv'
BY DEF MapInv, MapTypes, MapFresh, Building, Mount, mapping

-----------------------------------------------------------------------------
(* The parameters of a process.                                            *)

\* The target moves: what was read of it is no longer claimed to be current.
LEMMA MoveKeepsRead ==
    ASSUME MaxMoves \in Nat, ReadInv, SetCurrentDirectory
    PROVE  ReadInv'
<1>1. moves' \in 0..MaxMoves /\ 4 + moves \in Addresses
    BY DEF ReadInv, ReadTypes, SetCurrentDirectory, Addresses
<1>2. params' \in [Fields -> Addresses] /\ text' \in [Addresses -> Nat]
    <2>1. params \in [Fields -> Addresses] /\ text \in [Addresses -> Nat]
        BY DEF ReadInv, ReadTypes
    <2>2. params' = [params EXCEPT !["cwd"] = 4 + moves]
        BY DEF SetCurrentDirectory
    <2>3. text' = [[text EXCEPT ![params["cwd"]] = 0] EXCEPT ![4 + moves] = 4 + moves]
        BY DEF SetCurrentDirectory
    <2>4. [text EXCEPT ![params["cwd"]] = 0] \in [Addresses -> Nat]
        BY <2>1
    <2>5. 4 + moves \in Nat
        BY <1>1 DEF Addresses
    <2> QED BY <1>1, <2>1, <2>2, <2>3, <2>4, <2>5
<1>3. ~steady' /\ UNCHANGED <<got, reading, view>>
    BY DEF SetCurrentDirectory
<1> QED
    BY <1>1, <1>2, <1>3 DEF ReadInv, ReadTypes, ViewCurrent, ParametersFaithful

\* The addresses are taken before any string is read.
LEMMA BeginKeepsRead ==
    ASSUME MaxMoves \in Nat, ReadInv, read_process_parameters
    PROVE  ReadInv'
<1>1. Order \in Seq(Fields)
    BY DEF Order, Fields
<1>2. got' \in [Fields -> Nat] /\ \A f \in Fields : got'[f] = 0
    BY DEF read_process_parameters, NoText
<1> QED
    BY <1>1, <1>2 DEF ReadInv, ReadTypes, ViewCurrent, ParametersFaithful, read_process_parameters

\* A string is read at the address kept outside the buffer: it is the one its
\* field points to as long as the target has not moved.
LEMMA StringKeepsRead ==
    ASSUME MaxMoves \in Nat, ReadInv, read_unicode_string
    PROVE  ReadInv'
<1> DEFINE f == Head(reading)
<1>1. /\ f \in Fields /\ reading' \in Seq(Fields)
      /\ view \in [Fields -> Addresses] /\ text[view[f]] \in Nat
    <2>1. reading \in Seq(Fields) /\ reading # <<>> /\ text \in [Addresses -> Nat]
        BY DEF ReadInv, ReadTypes, read_unicode_string
    <2>2. f \in Fields /\ Tail(reading) \in Seq(Fields) /\ <<>> \in Seq(Fields)
        BY <2>1
    <2>3. reading' \in {Tail(reading), <<>>}
        BY DEF read_unicode_string
    <2>4. view \in [Fields -> Addresses]
        BY <2>1 DEF ReadInv, ReadTypes
    <2> QED BY <2>1, <2>2, <2>3, <2>4
<1>2. UNCHANGED <<params, text, moves, view, steady>>
    BY DEF read_unicode_string
<1>3. CASE got' = [got EXCEPT ![f] = text[view[f]]]
    <2>1. got' \in [Fields -> Nat]
        BY <1>1, <1>3 DEF ReadInv, ReadTypes
    <2>2. steady => view = params
        BY DEF ReadInv, ViewCurrent, read_unicode_string
    <2>3. ParametersFaithful'
        BY <1>1, <1>2, <1>3, <2>2 DEF ReadInv, ReadTypes, ParametersFaithful
    <2> QED
        BY <1>1, <1>2, <2>1, <2>2, <2>3 DEF ReadInv, ReadTypes, ViewCurrent
<1>4. CASE reading' = <<>> /\ got' = NoText
    BY <1>1, <1>2, <1>4 DEF ReadInv, ReadTypes, ViewCurrent, ParametersFaithful, NoText
<1> QED
    BY <1>3, <1>4 DEF read_unicode_string, AddressOf

\* The device map does not concern the reader of a process.
LEMMA OthersKeepRead ==
    ASSUME ReadInv, UNCHANGED remote
    PROVE  ReadInv'
BY DEF ReadInv, ReadTypes, ViewCurrent, ParametersFaithful, remote


\* Nothing cached, nothing read.
LEMMA InitInv ==
    ASSUME MaxMoves \in Nat, NoMap \notin Threads, InspectInit
    PROVE  MapInv /\ ReadInv
<1>1. MapInv
    BY DEF InspectInit, MapInv, MapTypes, MapFresh, Building
<1>2. params \in [Fields -> Addresses]
    <2>1. ASSUME NEW f \in Fields
          PROVE  (CHOOSE i \in 1..3 : Order[i] = f) \in 1..3
        <3>1. \E i \in 1..3 : Order[i] = f
            <4>1. Order[1] = "command line" /\ Order[2] = "image path" /\ Order[3] = "cwd"
                BY DEF Order
            <4>2. 1 \in 1..3 /\ 2 \in 1..3 /\ 3 \in 1..3
                OBVIOUS
            <4> QED BY <4>1, <4>2, Zenon DEF Fields
        <3> QED BY <3>1
    <2>2. 1..3 \subseteq Addresses
        BY DEF Addresses
    <2> QED BY <2>1, <2>2 DEF InspectInit
<1>3. text \in [Addresses -> Nat] /\ got \in [Fields -> Nat] /\ \A f \in Fields : got[f] = 0
    BY DEF InspectInit, Addresses, NoText
<1>4. reading = <<>> /\ reading \in Seq(Fields) /\ moves \in 0..MaxMoves
    BY DEF InspectInit
<1> QED
    BY <1>1, <1>2, <1>3, <1>4 DEF ReadInv, ReadTypes, ViewCurrent, ParametersFaithful

\* Once refresh_device_map has returned nobody sees an older map, although a
\* thread that missed the cache builds one as well (path/mod.rs); the strings
\* read from a process that does not move meanwhile are each under their own
\* name, although one buffer serves all the reads (process/peb.rs).
THEOREM InspectionFaithful ==
    ASSUME MaxMoves \in Nat, NoMap \notin Threads
    PROVE  InspectSpec => []InspectFaithful
<1>1. InspectInit => MapInv /\ ReadInv
    BY InitInv
<1>2. MapInv /\ ReadInv /\ [InspectNext]_inspectVars => MapInv' /\ ReadInv'
    <2> SUFFICES ASSUME MapInv, ReadInv, [InspectNext]_inspectVars
                 PROVE  MapInv' /\ ReadInv'
        OBVIOUS
    <2>1. ASSUME NEW l \in 1..Letters, NEW d \in Devices \cup {NoMap}, Mount(l, d)
          PROVE  MapInv' /\ ReadInv'
        <3>1. UNCHANGED remote
            BY <2>1 DEF Mount
        <3> QED BY <2>1, <3>1, OthersKeepMap, OthersKeepRead
    <2>2. ASSUME NEW t \in Threads, Lookup(t) \/ SlowPath(t) \/ refresh_device_map(t)
          PROVE  MapInv' /\ ReadInv'
        <3>1. UNCHANGED remote
            BY <2>2 DEF Lookup, SlowPath, refresh_device_map
        <3> QED BY <2>2, <3>1, LockingKeepsMap, OthersKeepRead
    <2>3. ASSUME NEW t \in Threads, build_device_map(t) \/ Store(t)
          PROVE  MapInv' /\ ReadInv'
        <3>1. UNCHANGED remote
            BY <2>3 DEF build_device_map, Store
        <3> QED BY <2>3, <3>1, BuildingKeepsMap, OthersKeepRead
    <2>4. CASE SetCurrentDirectory
        <3>1. UNCHANGED mapping
            BY <2>4 DEF SetCurrentDirectory
        <3> QED BY <2>4, <3>1, OthersKeepMap, MoveKeepsRead
    <2>5. CASE read_process_parameters
        <3>1. UNCHANGED mapping
            BY <2>5 DEF read_process_parameters
        <3> QED BY <2>5, <3>1, OthersKeepMap, BeginKeepsRead
    <2>6. CASE read_unicode_string
        <3>1. UNCHANGED mapping
            BY <2>6 DEF read_unicode_string
        <3> QED BY <2>6, <3>1, OthersKeepMap, StringKeepsRead
    <2>7. CASE UNCHANGED inspectVars
        <3>1. UNCHANGED mapping /\ UNCHANGED remote
            BY <2>7 DEF inspectVars
        <3> QED BY <3>1, OthersKeepMap, OthersKeepRead
    <2> QED
        BY <2>1, <2>2, <2>3, <2>4, <2>5, <2>6, <2>7 DEF InspectNext, Resolve
<1>3. MapInv /\ ReadInv => InspectFaithful
    BY DEF MapInv, MapTypes, MapFresh, ReadInv, InspectFaithful, RefreshHolds
<1> QED
    BY <1>1, <1>2, <1>3, PTL DEF InspectSpec

-----------------------------------------------------------------------------
(* Spawning, opening and waiting.                                          *)

States == {"none", "suspended", "running", "exited"}
Steps == {"parent", "attributes", "attribute", "assign privilege", "quota privilege",
          "source process", "source token", "primary token", "environment", "create"}

\* What spawn() still has to do ends with the CreateProcess call.
EndsInCreate(q) == q \in Seq(Steps) /\ (q # <<>> => q[Len(q)] = "create")

ControlTypes ==
    /\ EndsInCreate(todo)
    /\ state \in [Procs -> States] /\ code \in [Procs -> Nat]
    /\ owner \in Procs \cup {0} /\ spawned \in Procs \cup {0} /\ proc \in Procs \cup {0}
    /\ same \in BOOLEAN
    /\ wait \in {"no", "exit", "timeout"}

\* The handle that a SpawnedProcess keeps pins its identifier; a Process is
\* marked as opened through one only while it lives; a wait has its Process.
HandlesPin ==
    /\ spawned # 0 => owner = spawned
    /\ same => spawned # 0
    /\ todo # <<>> => spawned = 0
    /\ wait # "no" => proc # 0

ControlInv == ControlTypes /\ HandlesPin /\ SpawnSound

\* Whatever the options, spawn() ends with the CreateProcess call.
LEMMA AcquisitionsEnd == ASSUME NEW o PROVE EndsInCreate(Acquisitions(o))
<1>0. "create" \in Steps
    BY DEF Steps
<1> DEFINE a == IF "parent" \in o THEN <<"parent", "attributes", "attribute">> ELSE <<>>
           b == IF "token" \in o
                THEN <<"assign privilege", "quota privilege", "source process", "source token",
                       "primary token", "environment">>
                ELSE <<>>
<1>1. a \in Seq(Steps) /\ b \in Seq(Steps)
    <2>1. <<>> \in Seq(Steps)
        OBVIOUS
    <2>2. <<"parent", "attributes", "attribute">> \in Seq(Steps)
        BY DEF Steps
    <2>3. <<"assign privilege", "quota privilege", "source process", "source token",
            "primary token", "environment">> \in Seq(Steps)
        BY DEF Steps
    <2> QED BY <2>1, <2>2, <2>3, Zenon
<1>2. Acquisitions(o) = (a \o b) \o <<"create">>
    BY DEF Acquisitions
<1> HIDE DEF a, b
<1>3. ASSUME NEW q \in Seq(Steps) PROVE EndsInCreate(q \o <<"create">>)
    <2>2. q \o <<"create">> = Append(q, "create")
        BY <1>0, AppendIsConcat, Zenon
    <2>3. /\ Append(q, "create") \in Seq(Steps) /\ Len(Append(q, "create")) = Len(q) + 1
          /\ Append(q, "create")[Len(q) + 1] = "create"
        BY <1>0
    <2> QED BY <2>2, <2>3 DEF EndsInCreate
<1>4. a \o b \in Seq(Steps)
    BY <1>1
<1> QED BY <1>2, <1>3, <1>4

\* What is left after an acquisition other than CreateProcess is not empty.
LEMMA AcquireLeaves ==
    ASSUME NEW q, EndsInCreate(q), q # <<>>, Head(q) # "create"
    PROVE  EndsInCreate(Tail(q)) /\ Tail(q) # <<>>
<1>1. q \in Seq(Steps) /\ Len(q) \in Nat /\ Len(q) > 0 /\ q[Len(q)] = "create" /\ Head(q) = q[1]
    BY DEF EndsInCreate
<1>2. Len(q) > 1
    BY <1>1
<1>3. Tail(q) \in Seq(Steps) /\ Len(Tail(q)) = Len(q) - 1
    BY <1>1, <1>2
<1>4. Tail(q)[Len(q) - 1] = q[Len(q)]
    <2>1. Len(q) - 1 \in 1..(Len(q) - 1) /\ (Len(q) - 1) + 1 = Len(q)
        BY <1>1, <1>2
    <2>2. \A i \in 1..(Len(q) - 1) : Tail(q)[i] = q[i + 1]
        BY <1>1
    <2> QED BY <2>1, <2>2
<1> QED BY <1>1, <1>2, <1>3, <1>4 DEF EndsInCreate

\* spawn() and the SpawnedProcess it returns.
LEMMA SpawnKeeps ==
    ASSUME ControlInv,
           \/ \E o \in SUBSET {"parent", "token", "suspended"} : spawn(o)
           \/ Acquire \/ SpawnFails \/ Create \/ resume \/ DropSpawned
    PROVE  ControlInv'
<1> USE DEF ControlInv, ControlTypes, HandlesPin, SpawnSound, NothingLeftBehind, OpenedIsSpawned,
            process, holding, waiting, injecting, spawning, States
<1>0. EndsInCreate(<<>>)
    BY DEF EndsInCreate
<1>1. ASSUME NEW o, spawn(o) PROVE ControlInv'
    <2>1. EndsInCreate(todo') /\ todo' # <<>>
        <3>1. EndsInCreate(Acquisitions(o)) /\ todo' = Acquisitions(o)
            BY <1>1, AcquisitionsEnd DEF spawn
        <3>2. Acquisitions(o) # <<>>
            BY DEF Acquisitions
        <3> QED BY <3>1, <3>2
    <2> QED BY <1>1, <2>1 DEF spawn
<1>2. CASE Acquire
    <2>1. EndsInCreate(todo') /\ todo' # <<>>
        BY <1>2, AcquireLeaves DEF Acquire
    <2> QED BY <1>2, <2>1 DEF Acquire
<1>3. CASE SpawnFails
    BY <1>0, <1>3 DEF SpawnFails, Released
<1>4. CASE Create
    <2>1. PICK o \in Procs :
              /\ state' = [state EXCEPT ![o] = IF "suspended" \in option THEN "suspended" ELSE "running"]
              /\ owner' = o /\ spawned' = o
        BY <1>4 DEF Create
    <2>2. state' \in [Procs -> States]
        BY <2>1
    <2>3. 0 \notin Procs
        BY DEF Procs
    <2>4. /\ todo' = <<>> /\ held' = {} /\ todo # <<>>
          /\ UNCHANGED <<code, proc, same, wait, inj, memory>>
        BY <1>4 DEF Create, Released
    <2>5. same' = FALSE
        BY <2>4
    <2> QED BY <1>0, <2>1, <2>2, <2>3, <2>4, <2>5
<1>5. CASE resume
    BY <1>5 DEF resume
<1>6. CASE DropSpawned
    BY <1>6 DEF DropSpawned
<1> QED BY <1>1, <1>2, <1>3, <1>4, <1>5, <1>6

\* The life of the process, its identifier and the Process that names it.
LEMMA LifeKeeps ==
    ASSUME ControlInv,
           \/ Exits \/ Recycle \/ Another \/ DropProcess \/ kill_by_id
           \/ \E through \in BOOLEAN : open_with_access(through)
           \/ \E c \in Codes : terminate(c)
    PROVE  ControlInv'
<1> USE CodesAssumption DEF CodesAssumption, ControlInv, ControlTypes, HandlesPin, SpawnSound,
            NothingLeftBehind, OpenedIsSpawned, process, holding, waiting, injecting, spawning,
            States
<1>1. CASE Exits
    <2>1. state' \in [Procs -> States] /\ code' \in [Procs -> Nat]
        BY <1>1 DEF Exits
    <2> QED BY <1>1, <2>1 DEF Exits
<1>2. CASE Recycle
    BY <1>2 DEF Recycle, Pinned
<1>3. CASE Another
    <2>1. state' \in [Procs -> States] /\ owner' \in Procs /\ owner = 0
        BY <1>3 DEF Another
    <2> QED BY <1>3, <2>1 DEF Another, Procs
<1>4. CASE DropProcess
    BY <1>4 DEF DropProcess
<1>5. CASE kill_by_id
    BY <1>5 DEF kill_by_id, Alive
<1>6. ASSUME NEW through \in BOOLEAN, open_with_access(through) PROVE ControlInv'
    BY <1>6 DEF open_with_access
<1>7. ASSUME NEW c \in Codes, terminate(c) PROVE ControlInv'
    BY <1>7 DEF terminate, Alive
<1> QED BY <1>1, <1>2, <1>3, <1>4, <1>5, <1>6, <1>7

\* Waits change neither the process nor a handle, and inject_dll frees what it
\* allocated on every way out.
LEMMA CallsKeep ==
    ASSUME ControlInv,
           \/ exit_code \/ (\E kind \in {"exit", "timeout"} : WaitBegin(kind))
           \/ WaitDone \/ WaitFails \/ WaitTimeout
           \/ InjectBegin \/ InjectWrite \/ InjectThread \/ InjectFails
           \/ (\E timeout \in BOOLEAN : InjectEnds(timeout))
           \/ RemoteLoad \/ UNCHANGED controlVars
    PROVE  ControlInv'
<1> USE DEF ControlInv, ControlTypes, HandlesPin, SpawnSound, NothingLeftBehind, OpenedIsSpawned,
            process, holding, waiting, injecting, spawning
<1>1. CASE exit_code \/ (\E kind \in {"exit", "timeout"} : WaitBegin(kind))
           \/ WaitDone \/ WaitFails \/ WaitTimeout
    BY <1>1 DEF exit_code, WaitBegin, WaitDone, WaitFails, WaitTimeout
<1>2. CASE InjectBegin \/ InjectWrite \/ InjectThread \/ InjectFails
    BY <1>2 DEF InjectBegin, InjectWrite, InjectThread, InjectFails, Freed
<1>3. CASE (\E timeout \in BOOLEAN : InjectEnds(timeout)) \/ RemoteLoad
    BY <1>3 DEF InjectEnds, RemoteLoad, Freed
<1>4. CASE UNCHANGED controlVars
    BY <1>4 DEF controlVars
<1> QED BY <1>1, <1>2, <1>3, <1>4

\* The invariant holds in every reachable state.
LEMMA ControlInvariant == ControlSpec => []ControlInv
<1>1. ControlInit => ControlInv
    <2> SUFFICES ASSUME ControlInit PROVE ControlInv
        OBVIOUS
    <2>1. EndsInCreate(todo)
        BY DEF ControlInit, EndsInCreate
    <2>2. state \in [Procs -> States] /\ code \in [Procs -> Nat]
        BY DEF ControlInit, States
    <2> QED BY <2>1, <2>2 DEF ControlInit, ControlInv, ControlTypes, HandlesPin, SpawnSound,
               NothingLeftBehind, OpenedIsSpawned
<1>2. ControlInv /\ [ControlNext]_controlVars => ControlInv'
    BY SpawnKeeps, LifeKeeps, CallsKeep DEF ControlNext
<1> QED BY <1>1, <1>2, PTL DEF ControlSpec

\* Whichever call of spawn or inject_dll fails, no handle, attribute list,
\* environment block or remote memory is left behind; a Process opened through
\* a live SpawnedProcess is the spawned one, although it is opened by identifier.
THEOREM SpawnIsSound == ControlSpec => []SpawnSound
<1>1. ControlInv => SpawnSound
    BY DEF ControlInv
<1> QED BY <1>1, ControlInvariant, PTL

\* Every answer of exit_code and of the waits is so, for any exit codes: a code is
\* the one the process ended with, wait_for_exit never answers None, and the
\* code 259 alone is not told.
THEOREM AnswersAreTrue == ControlSpec => AnswerTrue
<1> DEFINE Truth == answer' # answer \/ (wait # "no" /\ wait' = "no") => Truthful(answer')
<1>1. ControlInv /\ [ControlNext]_controlVars => [Truth]_controlVars
    <2> SUFFICES ASSUME ControlInv, [ControlNext]_controlVars PROVE Truth
        OBVIOUS
    <2> USE DEF process, holding, waiting, injecting, spawning, controlVars
    <2>0. /\ STILL_ACTIVE \in Nat
          /\ None \notin Nat /\ Failed \notin Nat \cup {None} /\ Ambiguous \notin Nat \cup {None, Failed}
        BY CodesAssumption DEF CodesAssumption, STILL_ACTIVE
    <2> HIDE DEF STILL_ACTIVE
    <2>6. ASSUME proc # 0 PROVE code[proc] \in Nat
        BY <2>6 DEF ControlInv, ControlTypes, HandlesPin
    <2>2. CASE exit_code
        <3>1. code[proc] \in Nat /\ wait = "no" /\ wait' = wait
            BY <2>2, <2>6 DEF exit_code
        <3>2. CASE answer' = Failed
            BY <2>0, <3>2 DEF Truthful
        <3>3. CASE answer' = None
            BY <2>0, <2>2, <3>1, <3>3 DEF exit_code, get_exit_code_value, Truthful
        <3>4. CASE answer' \notin {None, Failed}
            BY <2>0, <2>2, <3>1, <3>4 DEF exit_code, get_exit_code_value, Truthful
        <3> QED BY <3>2, <3>3, <3>4
    <2>3. CASE WaitDone
        <3>1. wait # "no" /\ state[proc] = "exited" /\ get_exit_code_value = code[proc]
            BY <2>3 DEF WaitDone, get_exit_code_value
        <3>2. code[proc] \in Nat
            BY <2>3, <2>6 DEF WaitDone, ControlInv, ControlTypes, HandlesPin
        <3>3. answer' = IF code[proc] = STILL_ACTIVE THEN Ambiguous ELSE code[proc]
            BY <2>3, <3>1 DEF WaitDone
        <3> QED BY <2>0, <3>1, <3>2, <3>3 DEF Truthful
    <2>4. CASE WaitTimeout
        BY <2>0, <2>4 DEF WaitTimeout, TimedOut, Truthful
    <2>7. CASE WaitFails
        BY <2>0, <2>7 DEF WaitFails, Truthful
    <2>5. CASE ~(exit_code \/ WaitDone \/ WaitFails \/ WaitTimeout)
        <3>1. answer' = answer
            BY <2>5 DEF ControlNext, spawn, Acquire, SpawnFails, Create, resume, DropSpawned, Exits,
               Recycle, Another, open_with_access, DropProcess, terminate, kill_by_id, WaitBegin,
               InjectBegin, InjectWrite, InjectThread, InjectFails, InjectEnds, RemoteLoad
        <3>2. wait # "no" => wait' = wait
            BY <2>5 DEF ControlNext, spawn, Acquire, SpawnFails, Create, resume, DropSpawned, Exits,
               Recycle, Another, open_with_access, DropProcess, terminate, kill_by_id, WaitBegin,
               InjectBegin, InjectWrite, InjectThread, InjectFails, InjectEnds, RemoteLoad
        <3> QED BY <3>1, <3>2
    <2> QED BY <2>2, <2>3, <2>4, <2>5, <2>7
<1> QED BY <1>1, ControlInvariant, PTL DEF ControlSpec, AnswerTrue

-----------------------------------------------------------------------------
(* Mitigations.                                                            *)

PolicyNames == {"signature", "image_load", "dynamic_code", "payload_restriction", "child_process"}

\* The mitigations that each policy answers for.
Share(p) ==
    CASE p = "signature" -> {Signed}
      [] p = "image_load" -> {Remote, System32}
      [] p = "dynamic_code" -> {Dynamic}
      [] p = "payload_restriction" -> {Payload}
      [] p = "child_process" -> {Child}

\* What the plan asks of a policy is in force.
InForce(p) == plan \intersect Share(p) \subseteq Reported(p)

\* While a plan is applied, the policies behind the current one are in force;
\* once it has been applied, all are.  Nothing else changes a policy.
MitigationInv ==
    /\ plan \subseteq Mitigations
    /\ DOMAIN flags = PolicyNames /\ flags = [p \in PolicyNames |-> flags[p]]
    /\ doing \in {"none", "apply", "query"}
    /\ mask \in 0..4
    /\ IF doing = "none" THEN policy = 0 ELSE policy \in 1..5 /\ result = "none"
    /\ doing = "apply" => \A i \in 1..5 : i < policy => InForce(Policies[i])
    /\ result = "applied" => \A i \in 1..5 : InForce(Policies[i])

\* The five policies, by their place.
LEMMA PolicyPlaces ==
    /\ Policies[1] = "signature" /\ Policies[2] = "image_load" /\ Policies[3] = "dynamic_code"
    /\ Policies[4] = "payload_restriction" /\ Policies[5] = "child_process"
    /\ Len(Policies) = 5 /\ DOMAIN Policies = 1..5
    /\ 1..5 = {1, 2, 3, 4, 5}
    /\ \A i \in 1..5 : Policies[i] \in PolicyNames
    /\ \A i, j \in 1..5 : Policies[i] = Policies[j] => i = j
<1>1. /\ Policies[1] = "signature" /\ Policies[2] = "image_load" /\ Policies[3] = "dynamic_code"
      /\ Policies[4] = "payload_restriction" /\ Policies[5] = "child_process"
    BY DEF Policies
<1>2. Len(Policies) = 5 /\ DOMAIN Policies = 1..5
    BY DEF Policies
<1>3. 1..5 = {1, 2, 3, 4, 5}
    OBVIOUS
<1>4. \A i \in {1, 2, 3, 4, 5} : Policies[i] \in PolicyNames
    BY <1>1 DEF PolicyNames
<1>5. \A i, j \in {1, 2, 3, 4, 5} : Policies[i] = Policies[j] => i = j
    BY <1>1
<1> QED BY <1>1, <1>2, <1>3, <1>4, <1>5

\* Every mask apply_payload_mitigation tries has a bit that is reported.
LEMMA CandidatesReported ==
    ASSUME NEW m \in 0..4 PROVE "Eaf" \in Candidates[m + 1] /\ "Eaf" \in Bits
<1>1. /\ "Eaf" \in Candidates[1] /\ "Eaf" \in Candidates[2] /\ "Eaf" \in Candidates[3]
      /\ "Eaf" \in Candidates[4] /\ "Eaf" \in Candidates[5]
    BY DEF Candidates, Bits
<1>2. m + 1 \in {1, 2, 3, 4, 5}
    OBVIOUS
<1> QED BY <1>1, <1>2 DEF Bits

\* A policy the plan wants nothing of needs no call.
LEMMA UnwantedInForce ==
    ASSUME NEW p \in PolicyNames, mask \in 0..4, Wanted(p) = {}
    PROVE  InForce(p)
<1>1. CASE p = "payload_restriction"
    <2>1. Payload \notin plan
        BY <1>1, CandidatesReported DEF Wanted
    <2> QED BY <1>1, <2>1 DEF InForce, Share
<1>2. CASE p # "payload_restriction"
    BY <1>2 DEF InForce, Wanted, Share, ImageLoad, PolicyNames
<1> QED BY <1>1, <1>2

\* What is in force depends on the plan and the policy alone.
LEMMA InForceStays ==
    ASSUME NEW p, plan' = plan, flags'[p] = flags[p], InForce(p) PROVE InForce(p)'
BY DEF InForce, Reported

\* A step that returns leaves the call; one that advances goes to the next
\* policy with everything behind it in force.
LEMMA AdvanceKeeps ==
    ASSUME MitigationInv, doing = "apply", Advance, plan' = plan,
           DOMAIN flags' = PolicyNames, flags' = [p \in PolicyNames |-> flags'[p]],
           \A i \in 1..5 : i <= policy => InForce(Policies[i])'
    PROVE  MitigationInv'
<1>1. policy \in 1..5 /\ Len(Policies) = 5
    BY PolicyPlaces DEF MitigationInv
<1>2. CASE policy = 5
    BY <1>1, <1>2 DEF Advance, Return, MitigationInv
<1>3. CASE policy # 5
    BY <1>1, <1>3 DEF Advance, MitigationInv
<1> QED BY <1>2, <1>3

\* Setting a policy to what the plan wants of it puts it in force.
LEMMA SetInForce ==
    ASSUME NEW p \in PolicyNames, mask \in 0..4, plan' = plan, flags'[p] = Wanted(p)
    PROVE  InForce(p)'
<1>1. CASE p = "payload_restriction"
    <2>1. "Eaf" \in Candidates[mask + 1] /\ "Eaf" \in Bits
        BY CandidatesReported
    <2>2. Payload \in plan => flags'[p] = Candidates[mask + 1]
        BY <1>1 DEF Wanted
    <2>3. Payload \in plan => Reported(p)' = {Payload}
        BY <1>1, <2>1, <2>2 DEF Reported
    <2> QED BY <1>1, <2>3 DEF InForce, Share
<1>2. CASE p # "payload_restriction"
    <2>1. Reported(p)' = flags'[p]
        BY <1>2 DEF Reported
    <2>2. Wanted(p) = plan \intersect Share(p)
        BY <1>2 DEF Wanted, Share, ImageLoad, PolicyNames
    <2> QED BY <2>1, <2>2 DEF InForce
<1> QED BY <1>1, <1>2

\* Setting the current policy leaves those behind it in force.
LEMMA SetKeeps ==
    ASSUME MitigationInv, doing = "apply", Set, plan' = plan
    PROVE  /\ DOMAIN flags' = PolicyNames /\ flags' = [p \in PolicyNames |-> flags'[p]]
           /\ \A i \in 1..5 : i <= policy => InForce(Policies[i])'
<1>1. policy \in 1..5 /\ Policies[policy] \in PolicyNames
    BY PolicyPlaces DEF MitigationInv
<1>2. /\ DOMAIN flags' = PolicyNames /\ flags' = [p \in PolicyNames |-> flags'[p]]
      /\ flags'[Policies[policy]] = Wanted(Policies[policy])
      /\ \A p \in PolicyNames : p # Policies[policy] => flags'[p] = flags[p]
    BY <1>1 DEF Set, MitigationInv
<1>3. ASSUME NEW i \in 1..5, i <= policy PROVE InForce(Policies[i])'
    <2> SUFFICES ASSUME NEW p \in PolicyNames, p = Policies[i] PROVE InForce(p)'
        BY PolicyPlaces
    <2>1. CASE i = policy
        BY <1>2, <2>1, SetInForce DEF MitigationInv
    <2>2. CASE i # policy
        <3>1. p # Policies[policy] /\ InForce(p)
            BY <1>1, <1>3, <2>2, PolicyPlaces DEF MitigationInv
        <3> QED BY <1>2, <3>1, InForceStays
    <2> QED BY <2>1, <2>2
<1> QED BY <1>2, <1>3

\* Each step of apply_to_current keeps the invariant.
LEMMA ApplyKeeps ==
    ASSUME MitigationInv, SkipPolicy \/ apply_single_mitigation \/ apply_payload_mitigation
    PROVE  MitigationInv'
<1>0. doing = "apply" /\ plan' = plan /\ policy \in 1..5
    BY DEF SkipPolicy, apply_single_mitigation, apply_payload_mitigation, MitigationInv
<1>1. ASSUME flags' = flags PROVE \A p : InForce(p) => InForce(p)'
    BY <1>0, <1>1, InForceStays
<1>2. CASE SkipPolicy
    <2>1. flags' = flags /\ Advance /\ Wanted(Policies[policy]) = {}
        BY <1>2 DEF SkipPolicy
    <2>2. InForce(Policies[policy])
        BY <1>0, <2>1, UnwantedInForce, PolicyPlaces DEF MitigationInv
    <2>3. \A i \in 1..5 : i <= policy => InForce(Policies[i])'
        BY <1>0, <1>1, <2>1, <2>2 DEF MitigationInv
    <2>4. DOMAIN flags' = PolicyNames /\ flags' = [p \in PolicyNames |-> flags'[p]]
        BY <2>1 DEF MitigationInv
    <2> QED BY <1>0, <2>1, <2>3, <2>4, AdvanceKeeps
<1>3. CASE Set /\ Advance
    BY <1>0, <1>3, SetKeeps, AdvanceKeeps
<1>4. CASE flags' = flags /\ Return("ApplyFailed")
    BY <1>0, <1>4 DEF Return, MitigationInv
<1>5. CASE /\ flags' = flags /\ mask + 1 < Len(Candidates) /\ mask' = mask + 1
           /\ UNCHANGED <<policy, doing, result>>
    <2>1. Len(Candidates) = 5
        BY DEF Candidates
    <2>2. mask' \in 0..4
        BY <1>5, <2>1 DEF MitigationInv
    <2> QED BY <1>0, <1>1, <1>5, <2>2 DEF MitigationInv
<1> QED
    BY <1>2, <1>3, <1>4, <1>5 DEF apply_single_mitigation, apply_payload_mitigation

\* When apply_to_current returns Ok every mitigation of the plan is in force,
\* whichever payload bits this Windows supports, and it stays so until the
\* plan is changed: no query and no failed call takes a policy back.
THEOREM AppliedPlanInForce == MitigationSpec => []PlanInForce
<1>1. MitigationInit => MitigationInv
    <2> SUFFICES ASSUME MitigationInit PROVE MitigationInv
        OBVIOUS
    <2>1. {Policies[i] : i \in DOMAIN Policies} = PolicyNames
        BY PolicyPlaces DEF PolicyNames
    <2>2. flags = [p \in PolicyNames |-> {}]
        BY <2>1 DEF MitigationInit
    <2> QED BY <2>2 DEF MitigationInit, MitigationInv
<1>2. MitigationInv /\ [MitigationNext]_mitigationVars => MitigationInv'
    <2> SUFFICES ASSUME MitigationInv, [MitigationNext]_mitigationVars PROVE MitigationInv'
        OBVIOUS
    <2>1. CASE new
        BY <2>1 DEF new, Plan, MitigationInv
    <2>2. ASSUME NEW m \in Mitigations, enable(m) PROVE MitigationInv'
        BY <2>2 DEF enable, Plan, MitigationInv
    <2>3. CASE apply_to_current \/ query_process
        BY <2>3 DEF apply_to_current, query_process, BeginCall, MitigationInv
    <2>4. CASE open_query_process_handle
        BY <2>4 DEF open_query_process_handle, Return, MitigationInv
    <2>5. CASE query_from_handle
        <3>1. policy \in 1..5 /\ Len(Policies) = 5
            BY <2>5, PolicyPlaces DEF query_from_handle, MitigationInv
        <3>2. CASE Advance
            BY <2>5, <3>1, <3>2 DEF query_from_handle, Advance, Return, MitigationInv
        <3>3. CASE Return("QueryFailed")
            BY <2>5, <3>1, <3>3 DEF query_from_handle, Return, MitigationInv
        <3> QED BY <2>5, <3>2, <3>3 DEF query_from_handle
    <2>6. CASE UNCHANGED mitigationVars
        BY <2>6 DEF mitigationVars, MitigationInv, InForce, Reported
    <2> QED BY <2>1, <2>2, <2>3, <2>4, <2>5, <2>6, ApplyKeeps DEF MitigationNext
<1>3. MitigationInv => PlanInForce
    <2> SUFFICES ASSUME MitigationInv, result = "applied", NEW m \in plan
                 PROVE  \E p \in DOMAIN flags : m \in Reported(p)
        BY DEF PlanInForce
    <2>1. \E p \in PolicyNames : m \in Share(p)
        BY DEF MitigationInv, Mitigations, PolicyNames, Share
    <2>2. PICK p \in PolicyNames : m \in Share(p)
        BY <2>1
    <2>3. \E i \in 1..5 : p = Policies[i]
        BY PolicyPlaces DEF PolicyNames
    <2> QED BY <2>2, <2>3 DEF MitigationInv, InForce
<1> QED BY <1>1, <1>2, <1>3, PTL DEF MitigationSpec

-----------------------------------------------------------------------------
(* Process trees.                                                          *)

\* A chain of parent ids f from c up to a over ids in U, of n steps.
Chain(c, a, n, U, f) ==
    \E w \in [0..n -> Pids] :
        w[0] = c /\ w[n] = a /\ \A i \in 1..n : w[i - 1] \in U /\ w[i] = f[w[i - 1]]

Linked(c, a, U, f) == \E n \in Nat \ {0} : Chain(c, a, n, U, f)

\* A chain that is as short as possible meets no id twice, so it is one of those
\* that Ancestors looks at.
LEMMA LinkedIsAncestor ==
    ASSUME NEW c, NEW a \in Pids, Linked(c, a, used, parent)
    PROVE  a \in Ancestors(c)
<1> DEFINE T == {n \in Nat \ {0} : Chain(c, a, n, used, parent)}
<1>1. PICK n \in T : \A m \in T : n <= m
    <2>1. T \in SUBSET Nat /\ T # {}
        BY DEF Linked
    <2> HIDE DEF T
    <2> QED
        BY <2>1, NatMin
<1>2. PICK w \in [0..n -> Pids] :
          w[0] = c /\ w[n] = a /\ \A i \in 1..n : w[i - 1] \in used /\ w[i] = parent[w[i - 1]]
    BY <1>1 DEF Chain
<1>3. ASSUME NEW i \in 0..(n-1), NEW j \in 0..(n-1), i < j, w[i] = w[j]
      PROVE  FALSE
    <2> DEFINE m == n - (j - i)
               v == [k \in 0..m |-> IF k <= i THEN w[k] ELSE w[k + (j - i)]]
    <2>0. n \in Nat /\ i \in Nat /\ j \in Nat /\ j - i \in Nat
        BY <1>1, <1>3
    <2>1. m \in Nat /\ i < m /\ m < n /\ m + (j - i) = n
        BY <1>3, <2>0
    <2>2. v \in [0..m -> Pids]
        <3>1. \A k \in 0..m : k \in 0..n /\ (~(k <= i) => k + (j - i) \in 0..n)
            BY <2>0, <2>1
        <3> QED
            BY <3>1
    <2>3. v[0] = c /\ v[m] = a
        BY <1>2, <2>0, <2>1
    <2>4. ASSUME NEW k \in 1..m
          PROVE  v[k - 1] \in used /\ v[k] = parent[v[k - 1]]
        <3>0. k \in 0..m /\ k - 1 \in 0..m /\ k \in Nat /\ k - 1 \in Nat
            BY <2>1
        <3>1. CASE k <= i
            <4>1. v[k] = w[k] /\ v[k - 1] = w[k - 1] /\ k \in 1..n
                BY <2>0, <2>1, <3>0, <3>1
            <4> QED
                BY <1>2, <4>1
        <3>2. CASE k = i + 1
            <4>1. v[k] = w[j + 1] /\ v[k - 1] = w[i] /\ j + 1 \in 1..n /\ (j + 1) - 1 = j
                BY <1>3, <2>0, <2>1, <3>0, <3>2
            <4> QED
                BY <1>2, <1>3, <4>1
        <3>3. CASE k > i + 1
            <4>1. v[k] = w[k + (j - i)] /\ v[k - 1] = w[(k + (j - i)) - 1] /\ k + (j - i) \in 1..n
                <5>1. (k - 1) + (j - i) = (k + (j - i)) - 1 /\ ~(k <= i) /\ ~(k - 1 <= i)
                    BY <2>0, <3>0, <3>3
                <5> QED
                    BY <2>0, <2>1, <3>0, <5>1
            <4> QED
                BY <1>2, <4>1
        <3> QED
            BY <2>0, <3>0, <3>1, <3>2, <3>3
    <2> HIDE DEF v
    <2>5. m \in T
        <3>1. m \in Nat \ {0}
            BY <2>0, <2>1
        <3> HIDE DEF m
        <3>2. Chain(c, a, m, used, parent)
            BY <2>2, <2>3, <2>4 DEF Chain
        <3> QED
            BY <3>1, <3>2
    <2> QED
        BY <1>1, <2>0, <2>1, <2>5
<1>4. n <= Cardinality(Pids)
    <2> DEFINE g == [k \in 1..n |-> w[k - 1]]
    <2>1. g \in Injection(1..n, Pids)
        <3>1. g \in [1..n -> Pids]
            BY <1>1, <1>2
        <3>2. \A k, l \in 1..n : g[k] = g[l] => k = l
            <4> SUFFICES ASSUME NEW k \in 1..n, NEW l \in 1..n, g[k] = g[l]
                         PROVE  k = l
                OBVIOUS
            <4>1. k - 1 \in 0..(n-1) /\ l - 1 \in 0..(n-1) /\ w[k - 1] = w[l - 1]
                BY <1>1
            <4> QED
                BY <1>1, <1>3, <4>1
        <3> QED
            BY <3>1, <3>2 DEF Injection, IsInjective
    <2>2. IsFiniteSet(1..n) /\ Cardinality(1..n) = n
        BY <1>1, FS_Interval
    <2> HIDE DEF g
    <2> QED
        BY <2>1, <2>2, PidsAssumption, FS_Injection
<1>5. n \in 1..Cardinality(Pids)
    BY <1>1, <1>4, PidsAssumption, FS_CardinalityType
<1> QED
    BY <1>2, <1>5 DEF Ancestors

\* Ids keep their parent once given out, so chains stay.
LEMMA LinkedStays ==
    ASSUME NEW c, NEW a, NEW U, NEW f, NEW V, NEW g, U \subseteq V, \A x \in U : g[x] = f[x],
           Linked(c, a, U, f)
    PROVE  Linked(c, a, V, g)
<1>1. PICK n \in Nat \ {0} : Chain(c, a, n, U, f)
    BY DEF Linked
<1>2. Chain(c, a, n, V, g)
    BY <1>1 DEF Chain
<1> QED
    BY <1>2 DEF Linked

\* What collect_descendants gathers: the children of p and of what is gathered,
\* and nothing that such a set need not have.
LEMMA Gathered ==
    ASSUME NEW p \in Pids, NEW t \in [Pids -> SUBSET Pids]
    PROVE  /\ CollectDescendants(p, t) \subseteq Pids
           /\ t[p] \subseteq CollectDescendants(p, t)
           /\ \A q \in CollectDescendants(p, t) : t[q] \subseteq CollectDescendants(p, t)
           /\ \A S \in SUBSET Pids :
                 (t[p] \subseteq S /\ \A q \in S : t[q] \subseteq S)
                     => CollectDescendants(p, t) \subseteq S
BY DEF CollectDescendants

LEMMA TreeType ==
    ASSUME live \subseteq Pids
    PROVE  BuildTree \in [Pids -> SUBSET Pids]
BY DEF BuildTree

\* Everything gathered below p at the snapshot is linked to p.
LEMMA GatheredIsLinked ==
    ASSUME live \subseteq used, used \subseteq Pids, NEW p \in Pids
    PROVE  /\ CollectDescendants(p, BuildTree) \subseteq live
           /\ \A c \in CollectDescendants(p, BuildTree) : Linked(c, p, used, parent)
<1> DEFINE A == {c \in live : Linked(c, p, used, parent)}
<1>1. BuildTree[p] \subseteq A
    <2> SUFFICES ASSUME NEW c \in BuildTree[p]
                 PROVE  c \in A
        OBVIOUS
    <2>1. c \in live /\ parent[c] = p /\ c \in used /\ c \in Pids
        BY DEF BuildTree
    <2> DEFINE w == [k \in 0..1 |-> IF k = 0 THEN c ELSE p]
    <2>2. w \in [0..1 -> Pids] /\ w[0] = c /\ w[1] = p
        BY <2>1
    <2>3. \A i \in 1..1 : w[i - 1] \in used /\ w[i] = parent[w[i - 1]]
        BY <2>1
    <2> HIDE DEF w
    <2>4. Chain(c, p, 1, used, parent)
        BY <2>2, <2>3 DEF Chain
    <2> QED
        BY <2>1, <2>4 DEF Linked
<1>2. ASSUME NEW q \in A
      PROVE  BuildTree[q] \subseteq A
    <2> SUFFICES ASSUME NEW c \in BuildTree[q]
                 PROVE  c \in A
        OBVIOUS
    <2>1. c \in live /\ parent[c] = q /\ c \in used /\ c \in Pids
        BY DEF BuildTree
    <2>2. PICK n \in Nat \ {0} : Chain(q, p, n, used, parent)
        BY DEF Linked
    <2>3. PICK w \in [0..n -> Pids] :
              w[0] = q /\ w[n] = p /\ \A i \in 1..n : w[i - 1] \in used /\ w[i] = parent[w[i - 1]]
        BY <2>2 DEF Chain
    <2> DEFINE v == [k \in 0..(n+1) |-> IF k = 0 THEN c ELSE w[k - 1]]
    <2>4. v \in [0..(n+1) -> Pids] /\ v[0] = c /\ v[n+1] = p
        BY <2>1, <2>3
    <2>5. ASSUME NEW i \in 1..(n+1)
          PROVE  v[i - 1] \in used /\ v[i] = parent[v[i - 1]]
        <3>1. CASE i = 1
            BY <2>1, <2>3, <3>1
        <3>2. CASE i # 1
            <4>1. i - 1 \in 1..n /\ v[i] = w[i - 1] /\ v[i - 1] = w[(i - 1) - 1]
                BY <3>2
            <4> HIDE DEF v
            <4> QED
                BY <2>3, <4>1
        <3> QED
            BY <3>1, <3>2
    <2> HIDE DEF v
    <2>6. Chain(c, p, n + 1, used, parent) /\ n + 1 \in Nat \ {0}
        BY <2>4, <2>5 DEF Chain
    <2> QED
        BY <2>1, <2>6 DEF Linked
<1>3. A \in SUBSET Pids
    OBVIOUS
<1> HIDE DEF A
<1>4. CollectDescendants(p, BuildTree) \subseteq A
    BY <1>1, <1>2, <1>3, TreeType, Gathered
<1> QED
    BY <1>4 DEF A

\* An order of killing has every id to kill.
LEMMA OrderIsComplete ==
    ASSUME NEW s \in SUBSET Pids, NEW t, NEW o \in KillOrders(s, t)
    PROVE  o \in Seq(s) /\ \A p \in s : \E i \in 1..Len(o) : o[i] = p
<1> DEFINE n == Cardinality(s)
<1>1. IsFiniteSet(s) /\ n \in Nat
    BY PidsAssumption, FS_Subset, FS_CardinalityType
<1>2. o \in [1..n -> s] /\ \A i, j \in 1..n : i # j => o[i] # o[j]
    BY DEF KillOrders, SetToSeqs
<1> HIDE DEF n
<1>3. o \in Injection(1..n, s)
    BY <1>2 DEF Injection, IsInjective
<1>4. IsFiniteSet(1..n) /\ Cardinality(1..n) = n
    BY <1>1, FS_Interval
<1>5. o \in Surjection(1..n, s)
    BY <1>1, <1>3, <1>4, FS_Injection DEF n
<1>6. o \in Seq(s) /\ Len(o) = n
    BY <1>1, <1>2
<1> QED
    BY <1>5, <1>6 DEF Surjection

Listed == {order[i] : i \in DOMAIN order}

\* Ids given out are never forgotten, and a parent id was given out.
Family ==
    /\ live \subseteq used /\ used \subseteq Pids
    /\ parent \in [Pids -> Pids \cup {NoPid}]
    /\ \A c \in used : parent[c] \in used \cup {NoPid}

\* Where a call is, and what it has decided on by then.
CallPlace ==
    /\ pc # "idle" => target \in used
    /\ pc \in {"root", "snapshot"} => killed = <<>> /\ doomed = {}
    /\ order \in Seq(Pids) /\ killed \in Seq(Pids)
    /\ \A i \in DOMAIN killed : killed[i] \in doomed

\* What is to be killed is in the tree of the target, and complete below it.
DoomedIsTree ==
    ~Reuse => /\ doomed \subseteq used
              /\ \A d \in doomed : d = target \/ Linked(d, target, used, parent)

Killing ==
    pc = "kill" => /\ \A c \in doomed : tree[c] \subseteq doomed
                   /\ Listed \subseteq doomed
                   /\ ~Reuse => \A p \in (live \ Protected) \cap doomed : p \in Listed

TreeInv == Family /\ CallPlace /\ DoomedIsTree /\ Killing

\* A step that leaves the call alone and only adds ids that are new.
LEMMA OthersKeepTree ==
    ASSUME TreeInv, UNCHANGED <<pc, target, tree, order, killed, doomed>>,
           Family', used \subseteq used', \A x \in used : ~Reuse => parent'[x] = parent[x],
           ~Reuse => live' \cap used \subseteq live
    PROVE  TreeInv'
<1>1. CallPlace'
    BY DEF TreeInv, CallPlace
<1>2. DoomedIsTree'
    <2> SUFFICES ASSUME ~Reuse, NEW d \in doomed, d # target
                 PROVE  d \in used' /\ Linked(d, target, used', parent')
        BY DEF DoomedIsTree, TreeInv
    <2>1. d \in used /\ Linked(d, target, used, parent)
        BY DEF TreeInv, DoomedIsTree
    <2> QED
        BY <2>1, LinkedStays
<1>3. Killing'
    BY DEF TreeInv, Killing, DoomedIsTree, Listed
<1> QED
    BY <1>1, <1>2, <1>3 DEF TreeInv

\* A new process has an id that was never given out, or ids are reused.
LEMMA SpawnKeepsTree ==
    ASSUME TreeInv, NEW p \in Pids, NEW c \in Pids, Spawn(p, c)
    PROVE  TreeInv'
<1>1. Family'
    BY DEF TreeInv, Family, Spawn
<1>2. used \subseteq used' /\ \A x \in used : ~Reuse => parent'[x] = parent[x]
    BY DEF TreeInv, Family, Spawn
<1>3. ~Reuse => live' \cap used \subseteq live
    BY DEF Spawn
<1> QED
    BY <1>1, <1>2, <1>3, OthersKeepTree DEF Spawn

LEMMA ExitKeepsTree ==
    ASSUME TreeInv, NEW p \in Pids, Exit(p)
    PROVE  TreeInv'
<1>1. Family' /\ used' = used /\ parent' = parent /\ live' \subseteq live
      /\ UNCHANGED <<pc, target, tree, order, killed, doomed>>
    BY DEF TreeInv, Family, Exit
<1> QED
    BY <1>1, OthersKeepTree DEF Exit

\* A call begins with nothing killed and nothing to kill.
LEMMA CallKeepsTree ==
    ASSUME TreeInv, NEW p \in Pids, KillTree(p) \/ KillTreeFromRoot(p)
    PROVE  TreeInv'
<1>1. Family'
    BY DEF TreeInv, Family, KillTree, KillTreeFromRoot, envVars
<1>2. CallPlace'
    <2>1. killed' = <<>> /\ doomed' = {} /\ order' = order /\ target' \in used'
        BY DEF KillTree, KillTreeFromRoot, envVars
    <2>2. order \in Seq(Pids)
        BY DEF TreeInv, CallPlace
    <2> QED
        BY <2>1, <2>2 DEF CallPlace
<1>3. DoomedIsTree' /\ Killing'
    BY DEF DoomedIsTree, Killing, KillTree, KillTreeFromRoot
<1> QED
    BY <1>1, <1>2, <1>3 DEF TreeInv

\* The root is the process itself or an ancestor of it.
LEMMA RootFound ==
    ASSUME TreeInv, target \in Pids, NEW a \in FindRootAncestor(target, BuildTree)
    PROVE  a \in Pids /\ (a = target \/ (a \in Ancestors(target) /\ a \in used))
<1>1. PICK n \in 0..Cardinality(Pids) : \E w \in [0..n -> Pids] :
          w[0] = target /\ w[n] = a /\ \A i \in 1..n : w[i-1] \in BuildTree[w[i]]
    BY DEF FindRootAncestor
<1>2. PICK w \in [0..n -> Pids] :
          w[0] = target /\ w[n] = a /\ \A i \in 1..n : w[i-1] \in BuildTree[w[i]]
    BY <1>1
<1>3. Cardinality(Pids) \in Nat
    BY PidsAssumption, FS_CardinalityType
<1>4. \A i \in 1..n : w[i-1] \in live /\ w[i] = parent[w[i-1]]
    <2> SUFFICES ASSUME NEW i \in 1..n
                 PROVE  w[i-1] \in live /\ w[i] = parent[w[i-1]]
        OBVIOUS
    <2>1. w[i] \in Pids /\ w[i-1] \in BuildTree[w[i]]
        BY <1>2, <1>3
    <2> QED
        BY <2>1 DEF BuildTree
<1>5. CASE n = 0
    BY <1>2, <1>5
<1>6. CASE n # 0
    <2>1. n \in 1..Cardinality(Pids) /\ n \in 1..n
        BY <1>3, <1>6
    <2>2. a \in Pids
        BY <1>2, <2>1
    <2>3. a \in Ancestors(target)
        BY <1>2, <1>4, <2>1, <2>2 DEF Ancestors
    <2>4. w[n-1] \in used /\ a = parent[w[n-1]]
        BY <1>2, <1>4, <2>1 DEF TreeInv, Family
    <2>5. a \in used
        BY <2>2, <2>4, PidsAssumption DEF TreeInv, Family
    <2> QED
        BY <2>2, <2>3, <2>5
<1> QED
    BY <1>5, <1>6

LEMMA FindRootKeepsTree ==
    ASSUME TreeInv, FindRoot
    PROVE  TreeInv'
<1>1. Family' /\ target \in used /\ target \in Pids /\ killed = <<>> /\ doomed = {}
    BY DEF TreeInv, Family, CallPlace, FindRoot, envVars
<1>2. pc' # "idle" => target' \in used
    BY <1>1, RootFound DEF FindRoot
<1>3. CallPlace'
    BY <1>1, <1>2 DEF TreeInv, CallPlace, FindRoot, envVars
<1>4. DoomedIsTree' /\ Killing'
    BY <1>1 DEF DoomedIsTree, Killing, FindRoot
<1> QED
    BY <1>1, <1>3, <1>4 DEF TreeInv

\* The snapshot decides on the target and all below it.
LEMMA SnapshotKeepsTree ==
    ASSUME TreeInv, Snapshot
    PROVE  TreeInv'
<1> DEFINE t == BuildTree
           s == CollectDescendants(target, t) \cup {target}
<1>1. /\ Family' /\ target \in used /\ target \in Pids /\ killed = <<>> /\ doomed = {}
      /\ UNCHANGED <<live, parent, used, target, killed>> /\ pc' \in {"idle", "crashed", "kill"}
    BY DEF TreeInv, Family, CallPlace, Snapshot, envVars
<1>2. live \subseteq used /\ used \subseteq Pids /\ live \subseteq Pids
    BY DEF TreeInv, Family
<1>3. t \in [Pids -> SUBSET Pids]
    BY <1>2, TreeType
<1>4. CollectDescendants(target, t) \subseteq live
      /\ \A c \in CollectDescendants(target, t) : Linked(c, target, used, parent)
    BY <1>1, <1>2, GatheredIsLinked
<1>5. \A c \in s : t[c] \subseteq s
    <2> HIDE DEF t
    <2>1. /\ t[target] \subseteq CollectDescendants(target, t)
          /\ \A q \in CollectDescendants(target, t) : t[q] \subseteq CollectDescendants(target, t)
        BY <1>1, <1>3, Gathered
    <2> QED
        BY <2>1
<1>6. s \subseteq used /\ s \in SUBSET Pids
    BY <1>1, <1>2, <1>4
<1>7. \/ pc' = "idle" /\ UNCHANGED <<tree, order, doomed>>
      \/ pc' = "crashed" /\ tree' = t /\ doomed' = s /\ UNCHANGED order
      \/ pc' = "kill" /\ tree' = t /\ doomed' = s /\ order' \in KillOrders(s, t)
    BY DEF Snapshot
<1> HIDE DEF s, t
<1>8. ASSUME order' \in KillOrders(s, t)
      PROVE  order' \in Seq(s) /\ \A p \in s : \E i \in 1..Len(order') : order'[i] = p
    BY <1>6, <1>8, OrderIsComplete
<1>9. CallPlace'
    <2>1. order' \in Seq(Pids)
        BY <1>6, <1>7, <1>8 DEF TreeInv, CallPlace
    <2> QED
        BY <1>1, <2>1 DEF TreeInv, CallPlace
<1>10. DoomedIsTree'
    <2>1. \A d \in s : d = target \/ Linked(d, target, used, parent)
        BY <1>4 DEF s
    <2> QED
        BY <1>1, <1>6, <1>7, <2>1 DEF DoomedIsTree, TreeInv
<1>11. Killing'
    <2> SUFFICES ASSUME pc' = "kill"
                 PROVE  /\ \A c \in doomed' : tree'[c] \subseteq doomed'
                        /\ \A p \in doomed' : p \in Listed'
                        /\ Listed' \subseteq doomed'
        BY DEF Killing
    <2>1. doomed' = s /\ tree' = t /\ order' \in KillOrders(s, t)
        BY <1>7
    <2>2. order' \in Seq(s) /\ DOMAIN order' = 1..Len(order')
        BY <1>8, <2>1
    <2>3. Listed' \subseteq s
        BY <2>2 DEF Listed
    <2>4. \A p \in s : p \in Listed'
        BY <1>8, <2>1, <2>2 DEF Listed
    <2> QED
        BY <1>5, <2>1, <2>3, <2>4
<1> QED
    BY <1>1, <1>9, <1>10, <1>11 DEF TreeInv

\* One id is taken from the order; if it is alive and can be opened it is dead.
LEMMA KillKeepsTree ==
    ASSUME TreeInv, KillNext
    PROVE  TreeInv'
<1> DEFINE p == Head(order)
<1>1. /\ order \in Seq(Pids) /\ order # <<>> /\ killed \in Seq(Pids) /\ pc = "kill"
      /\ UNCHANGED <<parent, used, pc, target, tree, doomed>> /\ order' = Tail(order)
    BY DEF TreeInv, CallPlace, KillNext
<1>2. /\ p \in Pids /\ p \in Listed /\ Tail(order) \in Seq(Pids)
      /\ Listed' \subseteq Listed /\ Listed \subseteq Listed' \cup {p}
    <2>1. Len(order) \in Nat \ {0} /\ DOMAIN order = 1..Len(order) /\ p = order[1]
        BY <1>1
    <2>2. /\ Tail(order) \in Seq(Pids) /\ DOMAIN Tail(order) = 1..(Len(order) - 1)
          /\ \A i \in 1..(Len(order) - 1) : Tail(order)[i] = order[i + 1]
        BY <1>1, <2>1
    <2>3. \A i \in DOMAIN order : i = 1 \/ (i - 1 \in 1..(Len(order) - 1) /\ (i - 1) + 1 = i)
        BY <2>1
    <2>4. Listed' \subseteq Listed
        BY <1>1, <2>1, <2>2 DEF Listed
    <2>5. Listed \subseteq Listed' \cup {p}
        <3> SUFFICES ASSUME NEW i \in DOMAIN order, i # 1
                     PROVE  order[i] \in Listed'
            BY <2>1 DEF Listed
        <3>1. i - 1 \in DOMAIN Tail(order) /\ Tail(order)[i - 1] = order[i]
            BY <2>2, <2>3
        <3> QED
            BY <1>1, <3>1 DEF Listed
    <2>6. p \in Pids /\ p \in Listed
        BY <1>1, <2>1 DEF Listed
    <2> HIDE DEF p
    <2> QED
        BY <2>2, <2>4, <2>5, <2>6
<1>3. live' \subseteq live /\ (p \in live' => p \in Protected)
    BY DEF KillNext
<1> HIDE DEF p
<1>4. Family'
    BY <1>1, <1>3 DEF TreeInv, Family
<1>5. p \in doomed
    BY <1>1, <1>2 DEF TreeInv, Killing
<1>6. killed' \in Seq(Pids) /\ \A i \in DOMAIN killed' : killed'[i] \in doomed
    <2>1. CASE killed' = killed
        BY <1>1, <2>1 DEF TreeInv, CallPlace
    <2>2. CASE killed' = Append(killed, p)
        <3>1. \A i \in DOMAIN killed' : i \in DOMAIN killed \/ killed'[i] = p
            BY <1>1, <1>2, <2>2
        <3>2. \A i \in DOMAIN killed : killed'[i] = killed[i]
            BY <1>1, <1>2, <2>2
        <3> QED
            BY <1>1, <1>2, <1>5, <2>2, <3>1, <3>2 DEF TreeInv, CallPlace
    <2> QED
        BY <2>1, <2>2 DEF KillNext, p
<1>7. CallPlace'
    BY <1>1, <1>2, <1>6 DEF TreeInv, CallPlace
<1>8. DoomedIsTree'
    BY <1>1 DEF TreeInv, DoomedIsTree
<1>9. Killing'
    BY <1>1, <1>2, <1>3 DEF TreeInv, Killing
<1> QED
    BY <1>4, <1>7, <1>8, <1>9 DEF TreeInv

\* kill_tree, kill_tree_by_id and kill_tree_from_root: nobody outside the tree
\* is killed and nobody in it left, whatever starts and exits between the
\* snapshot and the last kill, and the root is above the process asked for.
THEOREM TreeIsKilledExactly == Spec => TreeKilledExactly
<1>1. Init => TreeInv
    <2> SUFFICES ASSUME Init
                 PROVE  TreeInv
        OBVIOUS
    <2>1. Family
        BY DEF Init, Family
    <2>2. CallPlace /\ DoomedIsTree /\ Killing
        BY DEF Init, CallPlace, DoomedIsTree, Killing
    <2> QED
        BY <2>1, <2>2 DEF TreeInv
<1>2. TreeInv /\ [Next]_vars => TreeInv'
    <2> SUFFICES ASSUME TreeInv, [Next]_vars
                 PROVE  TreeInv'
        OBVIOUS
    <2>1. CASE KillReturn
        BY <2>1 DEF KillReturn, envVars, TreeInv, Family, CallPlace, DoomedIsTree, Killing
    <2>2. CASE UNCHANGED vars
        BY <2>2 DEF vars, TreeInv, Family, CallPlace, DoomedIsTree, Killing, Listed
    <2> QED
        BY <2>1, <2>2, SpawnKeepsTree, ExitKeepsTree, CallKeepsTree, FindRootKeepsTree,
           SnapshotKeepsTree, KillKeepsTree DEF Next, CallStep
<1>3. TreeInv => OnlyTheTree /\ TreeIsGone
    <2> SUFFICES ASSUME TreeInv
                 PROVE  OnlyTheTree /\ TreeIsGone
        OBVIOUS
    <2>1. OnlyTheTree
        <3> SUFFICES ASSUME ~Reuse, NEW i \in DOMAIN killed, killed[i] # target
                     PROVE  target \in Ancestors(killed[i])
            BY DEF OnlyTheTree
        <3>1. Linked(killed[i], target, used, parent)
            BY DEF TreeInv, CallPlace, DoomedIsTree
        <3>2. target \in Pids
            BY <3>1 DEF Linked, Chain
        <3> QED
            BY <3>1, <3>2, LinkedIsAncestor
    <2>2. TreeIsGone
        BY DEF TreeInv, Killing, Listed, TreeIsGone
    <2> QED
        BY <2>1, <2>2
<1>4. TreeInv /\ [Next]_vars =>
          (~Reuse /\ pc = "root" /\ pc' = "snapshot" => target' = target \/ target' \in Ancestors(target))
    <2> SUFFICES ASSUME TreeInv, Next, pc = "root", pc' = "snapshot"
                 PROVE  target' = target \/ target' \in Ancestors(target)
        BY DEF vars
    <2>1. FindRoot
        BY DEF Next, CallStep, KillTree, KillTreeFromRoot, Exit, Spawn, Snapshot, KillNext, KillReturn
    <2>2. target \in Pids
        BY DEF TreeInv, Family, CallPlace
    <2> QED
        BY <2>1, <2>2, RootFound DEF FindRoot
<1> QED
    BY <1>1, <1>2, <1>3, <1>4, PTL DEF Spec, TreeKilledExactly, RootIsAbove
=============================================================================
