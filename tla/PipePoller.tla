----------------------------- MODULE PipePoller -----------------------------
(***************************************************************************)
(* The named-pipe directory scan and the poller that diffs successive      *)
(* snapshots (src/pipes/enumerate.rs), against a pipe namespace that       *)
(* changes between any two queries of a scan.                              *)
(***************************************************************************)
EXTENDS Integers, FiniteSets, Sequences, SequencesExt, Orderings

CONSTANTS
    LastName,   \* pipe names are 1..LastName, in directory order
    Batch,      \* entries that fit in the work buffer
    MaxRounds,  \* bound: rounds of poll_interval
    MaxChanges  \* bound: pipes created and removed

ASSUME LastNameAssumption == LastName \in Nat
ASSUME BatchAssumption == Batch \in Nat \ {0}
ASSUME RoundsAssumption == MaxRounds \in Nat /\ MaxChanges \in Nat

\* Entry 0 stands for a directory entry without a name.
Unnamed == 0
Entries == Unnamed .. LastName
Names == 1 .. LastName
Ops == {"poll", "seed", "interval", "callback"}

VARIABLES
    pipes,    \* the entries of \Device\NamedPipe
    changes,  \* how often that changed
    known,    \* known_pipes, by name
    op,       \* the call under way, or "none"
    rounds,   \* its rounds left, the current one included
    at,       \* where list() is: "idle", "sleep", "open", "query", "done"
    cursor,   \* the last entry the directory handle has returned, or -1
    out,      \* out_pipes
    view,     \* what a caller knows that replays every change it was given
    held,     \* view, replayed further with the rounds poll_interval collects
    lost,     \* history: collected changes were dropped with an error
    stable,   \* history: names present since the scan began
    seen      \* history: names present at some time since

vars == <<pipes, changes, known, op, rounds, at, cursor, out, view, held, lost, stable, seen>>
callVars == <<known, view, held, lost>>
scanVars == <<cursor, out>>
worldVars == <<pipes, changes, stable, seen>>

-----------------------------------------------------------------------------
(* The pipe namespace.                                                     *)

CreatePipe(n) ==
    /\ n \notin pipes /\ changes < MaxChanges
    /\ pipes' = pipes \cup {n} /\ changes' = changes + 1
    /\ seen' = seen \cup {n}
    /\ UNCHANGED <<callVars, scanVars, op, rounds, at, stable>>

RemovePipe(n) ==
    /\ n \in pipes /\ changes < MaxChanges
    /\ pipes' = pipes \ {n} /\ changes' = changes + 1
    /\ stable' = stable \ {n}
    /\ UNCHANGED <<callVars, scanVars, op, rounds, at, seen>>

\* What the next NtQueryDirectoryFile on the handle can return: entries after
\* the last one returned, from the first again with RestartScan.
Returnable(restart) ==
    {InOrder({n \in pipes : (restart \/ n > cursor) /\ n <= last}) : last \in pipes}

-----------------------------------------------------------------------------
(* list_with_filter.                                                       *)

\* The open directory, restart_scan set.
Open ==
    /\ at = "open"
    /\ at' = "query" /\ cursor' = -1 /\ out' = <<>>
    /\ stable' = pipes /\ seen' = pipes
    /\ UNCHANGED <<callVars, op, rounds, pipes, changes>>

\* The entries of a buffer that have a name, one after the other.
Named(batch) == AtPlaces(batch, {k \in DOMAIN batch : batch[k] # Unnamed})

\* A mutant: the entry whose NextEntryOffset is 0 is left out.
Parse_SkipLast(batch) == Named(SubSeq(batch, 1, Len(batch) - 1))

\* parse_directory_entries: every entry that has a name.
Parse(batch) == Named(batch)

\* A mutant: restart_scan is never cleared, so that every query starts over
\* (out is cut off here to keep the states finite).
Query_Restart ==
    /\ at = "query"
    /\ \/ \E batch \in Returnable(TRUE) :
            /\ Len(batch) \in 1 .. Batch
            /\ out' = IF Len(out) < LastName THEN out \o Parse(batch) ELSE out
            /\ cursor' = batch[Len(batch)]
            /\ UNCHANGED at
       \/ /\ pipes = {}
          /\ at' = "done"
          /\ UNCHANGED <<out, cursor>>
    /\ UNCHANGED <<callVars, worldVars, op, rounds>>

\* One query of the loop; the last one returns STATUS_NO_MORE_FILES.
Query ==
    /\ at = "query"
    /\ \/ \E batch \in Returnable(cursor = -1) :
            /\ Len(batch) \in 1 .. Batch
            /\ out' = out \o Parse(batch)
            /\ cursor' = batch[Len(batch)]
            /\ UNCHANGED at
       \/ /\ \A n \in pipes : n <= cursor
          /\ at' = "done"
          /\ UNCHANGED <<out, cursor>>
    /\ UNCHANGED <<callVars, worldVars, op, rounds>>

-----------------------------------------------------------------------------
(* NamedPipePoller.                                                        *)

Call(o, n, first) ==
    /\ op = "none"
    /\ op' = o /\ rounds' = n
    /\ at' = first
    /\ held' = view
    /\ UNCHANGED <<known, view, lost, worldVars, scanVars>>

Poll == Call("poll", 1, "open")
Seed == Call("seed", 1, "open")
PollInterval(n) == Call("interval", n, "sleep")
PollIntervalWithCallback(n) == Call("callback", n, "sleep")

Wake ==
    /\ at = "sleep" /\ rounds > 0
    /\ at' = "open"
    /\ UNCHANGED <<callVars, worldVars, scanVars, op, rounds>>

\* The rounds are over: poll_interval hands out all it has collected.
Return ==
    /\ at = "sleep" /\ rounds = 0
    /\ op' = "none" /\ at' = "idle"
    /\ view' = IF op = "interval" THEN held ELSE view
    /\ UNCHANGED <<known, held, lost, worldVars, scanVars, rounds>>

\* An error of the scan ends the call: the baseline stays, rounds that
\* poll_interval has collected are dropped.
Fail ==
    /\ at \in {"open", "query"}
    /\ op' = "none" /\ at' = "idle"
    /\ lost' = (lost \/ (op = "interval" /\ held # view))
    /\ UNCHANGED <<known, view, held, worldVars, scanVars, rounds>>

Diff(before, after) == [appeared |-> after \ before, removed |-> before \ after]
Replay(v, diff) == (v \cup diff.appeared) \ diff.removed
Snapshot == ToSet(out)

\* The changes of a round: given to the caller, or collected by poll_interval.
Report(diff) ==
    IF op = "interval"
    THEN /\ held' = Replay(held, diff)
         /\ UNCHANGED view
    ELSE /\ view' = Replay(view, diff)
         /\ held' = Replay(view, diff)

\* A mutant: the baseline moves only when something appeared.
PollDone_Appeared ==
    /\ at = "done" /\ op # "seed"
    /\ Report(Diff(known, Snapshot))
    /\ known' = IF Snapshot \subseteq known THEN known ELSE Snapshot
    /\ rounds' = rounds - 1
    /\ op' = IF op = "poll" THEN "none" ELSE op
    /\ at' = IF op = "poll" THEN "idle" ELSE "sleep"
    /\ UNCHANGED <<lost, worldVars, scanVars>>

\* poll: diff against the baseline, which the snapshot then replaces.
PollDone ==
    /\ at = "done" /\ op # "seed"
    /\ Report(Diff(known, Snapshot))
    /\ known' = Snapshot
    /\ rounds' = rounds - 1
    /\ op' = IF op = "poll" THEN "none" ELSE op
    /\ at' = IF op = "poll" THEN "idle" ELSE "sleep"
    /\ UNCHANGED <<lost, worldVars, scanVars>>

\* seed: a new baseline, nothing reported; a caller starts from it afresh.
SeedDone ==
    /\ at = "done" /\ op = "seed"
    /\ known' = Snapshot
    /\ view' = Snapshot /\ held' = Snapshot
    /\ lost' = FALSE
    /\ rounds' = 0 /\ op' = "none" /\ at' = "idle"
    /\ UNCHANGED <<worldVars, scanVars>>

-----------------------------------------------------------------------------
Init ==
    /\ pipes \in SUBSET Entries /\ changes = 0
    /\ known = {} /\ view = {} /\ held = {} /\ lost = FALSE
    /\ op = "none" /\ rounds = 0 /\ at = "idle"
    /\ cursor = -1 /\ out = <<>>
    /\ stable = {} /\ seen = {}

PollerStep == Open \/ Query \/ Wake \/ Return \/ PollDone \/ SeedDone

Next ==
    \/ \E n \in Entries : CreatePipe(n) \/ RemovePipe(n)
    \/ Poll \/ Seed
    \/ \E n \in 0 .. MaxRounds : PollInterval(n) \/ PollIntervalWithCallback(n)
    \/ PollerStep \/ Fail

Spec == Init /\ [][Next]_vars

\* The polling thread runs, and sleep returns.
FairSpec == Spec /\ WF_vars(PollerStep)

-----------------------------------------------------------------------------
(* Properties.                                                             *)

\* Every variable keeps its type.
TypeOK ==
    /\ pipes \subseteq Entries /\ changes \in 0 .. MaxChanges
    /\ {known, view, held} \subseteq SUBSET Names
    /\ op \in Ops \cup {"none"} /\ rounds \in 0 .. MaxRounds \cup {1}
    /\ at \in {"idle", "sleep", "open", "query", "done"}
    /\ cursor \in Entries \cup {-1}
    /\ out \in Seq(Names)
    /\ lost \in BOOLEAN

\* list_with_filter: however the namespace changes between two queries, a
\* finished scan holds every pipe that was there all the time, none that never
\* was, and no pipe twice.
ScanFaithful ==
    at = "done" =>
        /\ stable \ {Unnamed} \subseteq Snapshot
        /\ Snapshot \subseteq seen
        /\ Cardinality(Snapshot) = Len(out)

\* "Replace the current baseline with the latest snapshot and return detected
\* changes": what the poller takes as known is what its caller can reconstruct
\* from the changes it was given or is about to be given, failed rounds
\* included, unless poll_interval dropped rounds it had collected.
BaselineIsReported ==
    lost \/ known = IF op = "interval" THEN held ELSE view

\* A poll ends, although pipes keep coming and going.
PollEnds == (op # "none") ~> (op = "none")

\* "Replace the current baseline with the latest snapshot and return detected
\* changes": between calls the caller has been given every change up to the
\* baseline.
ChangesReachCaller == op = "none" => view = known
=============================================================================
