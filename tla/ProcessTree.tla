---------------------------- MODULE ProcessTree ----------------------------
(***************************************************************************)
(* Killing a process tree: src/process/tree.rs over src/process/list.rs    *)
(* and kill_by_id of src/process/processes.rs.                             *)
(*                                                                         *)
(* A call takes a snapshot of the processes, builds the tree from the      *)
(* parent ids in it and then kills one process id after the other, while   *)
(* processes start and exit.  A parent id is the id the parent had when    *)
(* the child was created: it may name a process that has exited, or, when  *)
(* ids are reused, another one.                                            *)
(***************************************************************************)
EXTENDS Integers, Sequences, FiniteSets, FiniteSetsExt, SequencesExt

CONSTANTS
    Pids,       \* process ids
    NoPid,      \* no parent (0), or no process
    Protected,  \* processes that cannot be opened for termination
    Reuse,      \* whether ids of exited processes are given out again
    MaxSpawns   \* bound: processes created after the start

ASSUME PidsAssumption == IsFiniteSet(Pids) /\ NoPid \notin Pids /\ Protected \subseteq Pids
ASSUME BoundAssumption == Reuse \in BOOLEAN /\ MaxSpawns \in Nat

VARIABLES
    live,     \* processes
    parent,   \* the parent id each process was created with
    used,     \* ids given out so far
    spawns,   \* processes created so far
    pc,       \* "idle", "root", "snapshot", "kill", "crashed"
    target,   \* argument of the call
    tree,     \* build_process_tree: children of each id, as of the snapshot
    order,    \* kill_order: ids still to kill
    killed,   \* history: ids terminated by the call, in order
    doomed    \* history: what the call set out to kill

envVars == <<live, parent, used, spawns>>
vars == <<live, parent, used, spawns, pc, target, tree, order, killed, doomed>>

-----------------------------------------------------------------------------
(* The tree of a snapshot.                                                 *)

\* build_process_tree over list_with_buffer.
BuildTree == [p \in Pids |-> {c \in live : parent[c] = p}]

\* A mutant: only the immediate children.
CollectDescendants_Children(p, t) == t[p]

\* collect_descendants: the children, and the children of what is collected;
\* an id that is there already is not followed again, so the walk ends.
CollectDescendants(p, t) ==
    {c \in Pids : \A S \in SUBSET Pids :
        (t[p] \subseteq S /\ \A q \in S : t[q] \subseteq S) => c \in S}

\* tree_depth does not end when it meets an id below itself.
Endless(p, t) ==
    \E q \in {p} \cup CollectDescendants(p, t) : q \in CollectDescendants(q, t)

\* tree_depth: the height of the subtree, 0 for a process without children.
TreeDepth(p, t) ==
    LET depth[q \in Pids] == IF t[q] = {} THEN 0 ELSE 1 + Max({depth[c] : c \in t[q]})
    IN  depth[p]

\* kill_order.sort_by_key(Reverse(tree_depth)); ids of equal depth come in the
\* order of the hash set.
KillOrders(s, t) ==
    {o \in SetToSeqs(s) :
        \A i, j \in DOMAIN o : i < j => TreeDepth(o[i], t) >= TreeDepth(o[j], t)}

\* find_root_ancestor: from child to parent, up to an id without a parent or
\* to the first id met twice.
FindRootAncestor(p, t) ==
    {a \in Pids : \E n \in 0..Cardinality(Pids) : \E w \in [0..n -> Pids] :
        /\ w[0] = p /\ w[n] = a
        /\ \A i \in 1..n : w[i-1] \in t[w[i]] /\ \A j \in 0..(i-2) : w[j] # w[i-1]
        /\ (\A r \in Pids : a \notin t[r]) \/ (\E j \in 0..(n-1) : w[j] = a)}

-----------------------------------------------------------------------------
(* kill_tree, kill_tree_by_id and kill_tree_from_root, for an id a caller  *)
(* has seen.                                                               *)

KillTree(p) ==
    /\ pc = "idle" /\ p \in used
    /\ pc' = "snapshot"
    /\ target' = p
    /\ killed' = <<>> /\ doomed' = {}
    /\ UNCHANGED <<envVars, tree, order>>

KillTreeFromRoot(p) ==
    /\ pc = "idle" /\ p \in used
    /\ pc' = "root"
    /\ target' = p
    /\ killed' = <<>> /\ doomed' = {}
    /\ UNCHANGED <<envVars, tree, order>>

\* The first snapshot of kill_tree_from_root only finds the root; it may fail.
FindRoot ==
    /\ pc = "root"
    /\ \/ /\ target' \in FindRootAncestor(target, BuildTree)
          /\ pc' = "snapshot"
       \/ /\ pc' = "idle"
          /\ UNCHANGED target
    /\ UNCHANGED <<envVars, tree, order, killed, doomed>>

\* list_with_buffer may fail; else the order is computed from what it returned.
Snapshot ==
    /\ pc = "snapshot"
    /\ \/ /\ pc' = "idle"
          /\ UNCHANGED <<tree, order, doomed>>
       \/ LET t == BuildTree
              s == CollectDescendants(target, t) \cup {target}
          IN /\ tree' = t
             /\ doomed' = s
             /\ \/ /\ \E p \in s : Endless(p, t)
                   /\ pc' = "crashed"
                   /\ UNCHANGED order
                \/ /\ \A p \in s : ~Endless(p, t)
                   /\ order' \in KillOrders(s, t)
                   /\ pc' = "kill"
    /\ UNCHANGED <<envVars, target, killed>>

\* kill_by_id; an error (the process is gone, or protected) is ignored.
KillNext ==
    /\ pc = "kill" /\ order # <<>>
    /\ LET p == Head(order)
       IN IF p \in live \ Protected
          THEN live' = live \ {p} /\ killed' = Append(killed, p)
          ELSE UNCHANGED <<live, killed>>
    /\ order' = Tail(order)
    /\ UNCHANGED <<parent, used, spawns, pc, target, tree, doomed>>

KillReturn ==
    /\ pc = "kill" /\ order = <<>>
    /\ pc' = "idle"
    /\ UNCHANGED <<envVars, target, tree, order, killed, doomed>>

-----------------------------------------------------------------------------
(* Other processes.                                                        *)

Spawn(p, c) ==
    /\ p \in live /\ c \notin live /\ (Reuse \/ c \notin used)
    /\ spawns < MaxSpawns
    /\ spawns' = spawns + 1
    /\ live' = live \cup {c}
    /\ parent' = [parent EXCEPT ![c] = p]
    /\ used' = used \cup {c}
    /\ UNCHANGED <<pc, target, tree, order, killed, doomed>>

Exit(p) ==
    /\ p \in live
    /\ live' = live \ {p}
    /\ UNCHANGED <<parent, used, spawns, pc, target, tree, order, killed, doomed>>

Init ==
    /\ \E p \in Pids : live = {p}
    /\ parent = [p \in Pids |-> NoPid]
    /\ used = live
    /\ spawns = 0
    /\ pc = "idle"
    /\ target = NoPid
    /\ tree = [p \in Pids |-> {}]
    /\ order = <<>>
    /\ killed = <<>>
    /\ doomed = {}

CallStep == FindRoot \/ Snapshot \/ KillNext \/ KillReturn

Next ==
    \/ \E p \in Pids : KillTree(p) \/ KillTreeFromRoot(p) \/ Exit(p)
    \/ \E p, c \in Pids : Spawn(p, c)
    \/ CallStep

Spec == Init /\ [][Next]_vars

-----------------------------------------------------------------------------
(* Properties.                                                             *)

\* Every variable keeps its type.
TypeOK ==
    /\ live \subseteq used /\ used \subseteq Pids
    /\ parent \in [Pids -> Pids \cup {NoPid}]
    /\ spawns \in 0..MaxSpawns
    /\ pc \in {"idle", "root", "snapshot", "kill", "crashed"}
    /\ target \in Pids \cup {NoPid} /\ (pc # "idle" => target \in Pids)
    /\ tree \in [Pids -> SUBSET Pids]
    /\ {order[i] : i \in DOMAIN order} \subseteq doomed

Ancestors(p) ==
    {a \in Pids : \E n \in 1..Cardinality(Pids) : \E path \in [0..n -> Pids] :
        path[0] = p /\ path[n] = a /\ \A i \in 1..n : path[i] = parent[path[i - 1]]}

\* "Kill a process and all its descendants": without reuse of ids nobody else
\* is killed, whatever starts and exits between the snapshot and the kill.
OnlyTheTree ==
    ~Reuse => \A i \in DOMAIN killed : killed[i] = target \/ target \in Ancestors(killed[i])

\* When the killing ends, no process is left that had a chain of live parents
\* up to the target at the snapshot, unless it cannot be opened.
TreeIsGone ==
    ~Reuse /\ pc = "kill" /\ order = <<>> =>
        \A p \in live \ Protected : p \notin doomed \cup UNION {tree[c] : c \in doomed}

\* "Find the root ancestor of a process and kill the entire tree": the tree
\* kill_tree_from_root kills contains the process it was called for.
RootIsAbove ==
    [][~Reuse /\ pc = "root" /\ pc' = "snapshot" =>
         target' = target \/ target' \in Ancestors(target)]_vars

\* A tree is killed exactly: nobody outside it, everybody in it, from a root
\* that is above the process asked for (kill_tree, kill_tree_from_root).
TreeKilledExactly == [](OnlyTheTree /\ TreeIsGone) /\ RootIsAbove

\* "This will recursively kill all child processes first, then the parent."
ChildrenFirst ==
    \A i, j \in DOMAIN killed : i < j => killed[j] \notin tree[killed[i]]

\* A call ends with Ok or an error.
KillTreeReturns == pc # "crashed"
=============================================================================
