---------------------------- MODULE Enumerations ----------------------------
(* Lists the crate reads from the system: services, loaded modules, threads, *)
(* processes, drives, disks, adapters, and the variable-sized information of *)
(* tokens and firmware.  Each call sizes a buffer, reads, and walks what it   *)
(* has read, while what is listed comes and goes between its steps.           *)
EXTENDS Integers, FiniteSets

CONSTANTS
    N,           \* what can be listed: 1..N
    Wanted,      \* what the caller's filter lets through
    NotReady,    \* drives without a medium
    Default,     \* room of a buffer before the size is known, in entries
    Strings,     \* room the module list needs for one name
    Capacities,  \* capacities of the work buffers callers bring
    MaxListChanges  \* bound on what comes and goes

ASSUME ItemsAssumption == N \in Nat /\ Default \in Nat

VARIABLES
    items,        \* what there is to list
    listChanges,  \* how often that has changed
    call,         \* the call under way: kind, step, size of its buffer, entries seen
    buffer,       \* the caller's work buffer: length and capacity
    listed,       \* the caller's output buffer
    always,       \* ghost: what has been there since the call began
    ever,         \* ghost: what has been there at some time of the call
    silent,       \* ghost: a system call of it failed and it went on without a word
    answer        \* how the last call ended: kind, "ok" or "error", and whether
                  \* entries were taken that the system did not write

listVars == <<items, listChanges, call, buffer, listed, always, ever, silent, answer>>

Items == 1..N
TwoCall == {"services", "token", "firmware"}
Kinds == TwoCall \cup {"modules", "threads", "snapshot", "drives", "disks", "adapters"}
Idle == [kind |-> "none", step |-> 0, size |-> 0, seen |-> {}]
NoAnswer == [kind |-> "none", end |-> "none", unwritten |-> FALSE]

Fits == Cardinality(items) <= call.size
Greater(a, b) == IF a > b THEN a ELSE b

\* The system: one entry comes or goes.
Change(i) ==
    /\ listChanges < MaxListChanges
    /\ listChanges' = listChanges + 1
    /\ items' = IF i \in items THEN items \ {i} ELSE items \cup {i}
    /\ always' = always \ {i}
    /\ ever' = ever \cup items'
    /\ UNCHANGED <<call, buffer, listed, silent, answer>>

---------------------------------------------------------------------------
(* The caller's buffers.                                                    *)

Cleared == {}

\* Vec::reserve: room for more entries than the length, at least.
Reserve(b, more) == [b EXCEPT !.cap = Greater(@, b.len + more)]

\* Make a buffer hold n: reserve what the capacity lacks, then set_len.
SetLen(b, n) ==
    LET r == IF b.cap < n THEN Reserve(b, n - b.cap) ELSE b
    IN  [r EXCEPT !.len = n]

\* Handles first, in a buffer for Default of them.
HandleBuffer(b) == SetLen(b, Default)

\* Cleared, then made larger, when there are more.
Resized(b, n) == IF n > b.len THEN SetLen([b EXCEPT !.len = 0], n) ELSE b

\* Room for a name after the handles.
StringBuffer(b, n) == IF b.len < n + Strings THEN SetLen(b, n + Strings) ELSE b

---------------------------------------------------------------------------
(* How every call begins and ends.                                          *)

Begin(kind) ==
    /\ call = Idle
    /\ call' = [kind |-> kind, step |-> 1, seen |-> {},
                size |-> IF kind \in TwoCall \cup {"disks"} THEN 0 ELSE Default]
    /\ buffer' = IF kind = "modules" THEN HandleBuffer(buffer) ELSE buffer
    /\ listed' = Cleared
    /\ always' = items /\ ever' = items
    /\ silent' = FALSE /\ answer' = NoAnswer
    /\ UNCHANGED <<items, listChanges>>

At(kind, step) == call.kind = kind /\ call.step = step

Finish(end, set, unwritten, failed) ==
    /\ call' = Idle
    /\ listed' = listed \cup (set \cap Wanted)
    /\ answer' = [kind |-> call.kind, end |-> end, unwritten |-> unwritten]
    /\ silent' = (silent \/ failed)
    /\ UNCHANGED <<items, listChanges, buffer, always, ever>>

Ok(set) == Finish("ok", set, FALSE, FALSE)
Err == Finish("error", {}, FALSE, FALSE)

\* Ok, though the rest could not be read.
Cut(set) == Finish("ok", set, FALSE, TRUE)

Continue(c) ==
    /\ call' = c
    /\ UNCHANGED <<items, listChanges, buffer, listed, always, ever, silent, answer>>

---------------------------------------------------------------------------
(* A call for the size and a call with a buffer of that size.                *)

\* The size the first call tells; its result is not looked at, and when it
\* fails, as it does without the right to enumerate, the size is still zero.
Needed(failed) == IF failed THEN 0 ELSE Cardinality(items)

\* A mutant: the second call's error is passed over.
ReadSized_Partial ==
    \E s \in SUBSET items : Cardinality(s) = Greater(0, call.size) /\ Ok(s)

\* The second call: an error when there is more than the buffer holds.
ReadSized == (Fits /\ Ok(items)) \/ (~Fits /\ Err)

\* The first of the two calls where a size of zero is an empty list.
SizedOrEmpty ==
    \E failed \in BOOLEAN :
        IF Needed(failed) = 0 THEN Finish("ok", {}, FALSE, failed)
        ELSE Continue([call EXCEPT !.step = 2, !.size = Needed(failed)])

\* ServiceManager::list_with_filter: a size of zero is an empty list.
list_with_filter ==
    \/ At("services", 1) /\ SizedOrEmpty
    \/ At("services", 2) /\ (ReadSized \/ Err)

\* ProcessToken::integrity_level and user_sid: a size of zero is an error.
user_sid ==
    \/ /\ At("token", 1)
       /\ \E failed \in BOOLEAN : IF Needed(failed) = 0 THEN Err
                                  ELSE Continue([call EXCEPT !.step = 2, !.size = Needed(failed)])
    \/ At("token", 2) /\ (ReadSized \/ Err)

\* firmware_guid_from_smbios: no table is no identifier.
firmware_guid_from_smbios ==
    \/ At("firmware", 1) /\ SizedOrEmpty
    \/ At("firmware", 2) /\ (ReadSized \/ Err)

---------------------------------------------------------------------------
(* Modules of a process: both calls of EnumProcessModules succeed whatever   *)
(* the size; they write what fits and answer with the size of everything.    *)

FirstModules ==
    /\ At("modules", 1)
    /\ \/ Err
       \/ /\ call' = [call EXCEPT !.step = 2, !.size = Greater(@, Cardinality(items))]
          /\ buffer' = Resized(buffer, Cardinality(items))
          /\ UNCHANGED <<items, listChanges, listed, always, ever, silent, answer>>

\* The count is taken from the answer, not from what the buffer held.
SecondModules ==
    /\ At("modules", 2)
    /\ \/ Err
       \/ \E written \in SUBSET items :
             /\ Cardinality(written) = IF Fits THEN Cardinality(items) ELSE call.size
             /\ call' = [call EXCEPT !.step = IF Fits THEN 3 ELSE 4, !.seen = written]
             /\ buffer' = StringBuffer(buffer, Cardinality(items))
             /\ UNCHANGED <<items, listChanges, listed, always, ever, silent, answer>>

\* A module whose name cannot be read, because it is gone or for another
\* reason, is left out.
ReadModules ==
    /\ call.kind = "modules" /\ call.step \in {3, 4}
    /\ \E named \in SUBSET (call.seen \cap items) :
          Finish("ok", named, call.step = 4, named # call.seen \cap items)

---------------------------------------------------------------------------
(* Snapshots.                                                               *)

\* threads_with_filter and list_with_filter_impl: a toolhelp snapshot, walked.
\* When the first entry cannot be had the list is empty, when another cannot it
\* ends there, and both are Ok.
threads_with_filter ==
    \/ At("threads", 1) /\ (Err \/ Continue([call EXCEPT !.step = 2, !.seen = items]))
    \/ At("threads", 2) /\ (Ok(call.seen) \/ \E s \in SUBSET call.seen : s # call.seen /\ Cut(s))

\* The size asked for, and at least twice the size before.
Grown == [call EXCEPT !.size = Greater(Cardinality(items), 2 * call.size)]

\* query_system_process_information: again, with more room, until it fits.
query_system_process_information ==
    At("snapshot", 1) /\ (Err \/ (Fits /\ Ok(items)) \/ (~Fits /\ Continue(Grown)))

---------------------------------------------------------------------------
(* Drives, disks and adapters.                                              *)

\* logical_disks_with_filter: the letters, then one drive after the other;
\* a drive that cannot tell its space fails the call.
logical_disks_with_filter ==
    \/ At("drives", 1) /\ (Err \/ Continue([call EXCEPT !.step = 2, !.seen = items]))
    \/ At("drives", 2) /\ call.seen = {} /\ Ok({})
    \/ /\ At("drives", 2) /\ call.seen # {}
       /\ LET r == CHOOSE r \in call.seen : \A s \in call.seen : r <= s
          IN  IF r \in items \ NotReady
              THEN /\ call' = [call EXCEPT !.seen = @ \ {r}]
                   /\ listed' = listed \cup ({r} \cap Wanted)
                   /\ UNCHANGED <<items, listChanges, buffer, always, ever, silent, answer>>
              ELSE Err

\* physical_disks_with_filter: every number is tried, and what does not open or
\* does not tell its size is passed over, a disk that is there too.
physical_disks_with_filter ==
    /\ At("disks", 1)
    /\ IF call.size = N THEN Ok({})
       ELSE /\ call' = [call EXCEPT !.size = @ + 1]
            /\ \E found \in SUBSET ({call.size + 1} \cap items) :
                  /\ listed' = listed \cup (found \cap Wanted)
                  /\ silent' = (silent \/ found # {call.size + 1} \cap items)
            /\ UNCHANGED <<items, listChanges, buffer, always, ever, answer>>

\* network_interfaces_with_filter: a second call when the first was too small.
network_interfaces_with_filter ==
    \/ /\ At("adapters", 1)
       /\ \/ Err
          \/ Fits /\ Ok(items)
          \/ ~Fits /\ Continue([call EXCEPT !.step = 2, !.size = Cardinality(items)])
    \/ At("adapters", 2) /\ (ReadSized \/ Err)

---------------------------------------------------------------------------

ListInit ==
    /\ items \in SUBSET Items
    /\ listChanges = 0
    /\ call = Idle
    /\ buffer \in [len : {0}, cap : Capacities]
    /\ listed = {}
    /\ always = items /\ ever = items /\ silent = FALSE
    /\ answer = NoAnswer

Step ==
    \/ list_with_filter \/ user_sid \/ firmware_guid_from_smbios
    \/ FirstModules \/ SecondModules \/ ReadModules
    \/ threads_with_filter \/ query_system_process_information
    \/ logical_disks_with_filter \/ physical_disks_with_filter
    \/ network_interfaces_with_filter

ListNext ==
    \/ \E kind \in Kinds : Begin(kind)
    \/ Step
    \/ \E i \in Items : Change(i)

ListSpec == ListInit /\ [][ListNext]_listVars

\* The caller's thread keeps running.
FairListSpec == ListSpec /\ WF_listVars(Step)

---------------------------------------------------------------------------
(* Properties.                                                              *)

\* A call that succeeds lists everything wanted that was there all the time,
\* and nothing that never was, however much comes and goes between its steps.
\* Not claimed: a call that went on after a failure (see OkIsWhole), modules when
\* they outgrew the buffer between the two calls (see ModulesWritten).
WholeOrError ==
    (answer.end = "ok" /\ ~answer.unwritten /\ ~silent) => always \cap Wanted \subseteq listed

\* The output buffer holds only what this call found, also while it is under
\* way and after it failed: callers reuse it (out.clear() at the head of every
\* list function).
OnlyThisCall == listed \subseteq ever \cap Wanted

\* A listing that changes under way is complete or an error, and holds nothing
\* of another call.
ListFaithful == WholeOrError /\ OnlyThisCall

\* Every call returns though what it lists keeps changing, also the one that
\* tries again with a larger buffer (query_system_process_information).
ListEnds == (call.kind # "none") ~> (call.kind = "none")

\* "Ensure work buffer is large enough for module handles (8KB)"
\* (process/modules.rs:70): the length never exceeds the capacity.  reserve()
\* counts from the length, which is 0, so it reserves too little.
WorkBufferLargeEnough == buffer.len <= buffer.cap

\* "Second call with correct size" (process/modules.rs:108): every handle used
\* was written by the call.  Modules loaded between the two calls are counted
\* and not written.
ModulesWritten == ~answer.unwritten

\* "Enumerate all services" (service/manager.rs:88), "Enumerate all threads in
\* this process" (process/threads.rs:13), "List all processes in the system"
\* (process/list.rs:13): Ok is the whole list.  A sizing call that fails, as
\* without the right to enumerate, is an empty list, a failing Thread32Next or
\* Process32NextW the end of it, and a disk that does not open is not there.
OkIsWhole == (answer.end = "ok" /\ ~answer.unwritten) => always \cap Wanted \subseteq listed
=============================================================================
