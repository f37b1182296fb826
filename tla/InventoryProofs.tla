-------------------------- MODULE InventoryProofs --------------------------
(***************************************************************************)
(* What is listed and watched while it changes.  The baseline of a         *)
(* NamedPipePoller is what its caller can reconstruct; a restart of a      *)
(* service fails only with a reason and never waits much longer than its   *)
(* timeout; a listing is complete or an error; what the machine says of    *)
(* itself is read as it is written.  For any number of pipes, rounds,      *)
(* entries and changes, any sizes of buffers, timeouts, wait hints, delays *)
(* of the scheduler, firmware tables and profile lists.                    *)
(***************************************************************************)
EXTENDS PipePoller, Services, Enumerations, Host, NumberFacts, SequenceTheorems

-----------------------------------------------------------------------------
(* The baseline of the poller.                                             *)

\* The two loops of poll: replaying the changes between two sets of names on
\* the first one gives the second.
LEMMA ReplayOfDiff ==
    ASSUME NEW before, NEW after
    PROVE  Replay(before, Diff(before, after)) = after
BY DEF Replay, Diff

\* Nothing the pipe namespace or the scan does concerns the caller.
LEMMA CallVarsUnchanged ==
    ASSUME BaselineIsReported, UNCHANGED <<callVars, op>>
    PROVE  BaselineIsReported'
BY DEF BaselineIsReported, callVars

\* A round reports exactly the step from the old baseline to the new one.
LEMMA PollDoneReports ==
    ASSUME BaselineIsReported, PollDone
    PROVE  BaselineIsReported'
<1>1. CASE lost
    BY <1>1 DEF BaselineIsReported, PollDone
<1>2. CASE ~lost /\ op = "interval"
    <2>1. known = held
        BY <1>2 DEF BaselineIsReported
    <2>2. held' = Replay(held, Diff(known, Snapshot))
        BY <1>2 DEF PollDone, Report
    <2>3. op' = "interval" /\ known' = Snapshot
        BY <1>2 DEF PollDone
    <2> QED
        BY <2>1, <2>2, <2>3, ReplayOfDiff DEF BaselineIsReported
<1>3. CASE ~lost /\ op # "interval"
    <2>1. known = view
        BY <1>3 DEF BaselineIsReported
    <2>2. view' = Replay(view, Diff(known, Snapshot))
        BY <1>3 DEF PollDone, Report
    <2>3. op' # "interval" /\ known' = Snapshot
        BY <1>3 DEF PollDone
    <2> QED
        BY <2>1, <2>2, <2>3, ReplayOfDiff DEF BaselineIsReported
<1> QED BY <1>1, <1>2, <1>3

\* NamedPipePoller::poll, seed, poll_interval and poll_interval_with_callback:
\* whatever fails and whatever changes meanwhile, the baseline is the replay of
\* the changes reported, unless poll_interval dropped rounds.
THEOREM BaselineReplayed == Spec => []BaselineIsReported
<1>1. Init => BaselineIsReported
    BY DEF Init, BaselineIsReported
<1>2. BaselineIsReported /\ [Next]_vars => BaselineIsReported'
    <2> SUFFICES ASSUME BaselineIsReported, [Next]_vars
                 PROVE  BaselineIsReported'
        OBVIOUS
    <2>1. ASSUME NEW n \in Entries, CreatePipe(n) \/ RemovePipe(n)
          PROVE  BaselineIsReported'
        BY <2>1, CallVarsUnchanged DEF CreatePipe, RemovePipe
    <2>2. ASSUME NEW o \in Ops, NEW n, NEW first, Call(o, n, first)
          PROVE  BaselineIsReported'
        BY <2>2 DEF Call, BaselineIsReported, Ops
    <2>3. CASE Poll \/ Seed
        BY <2>2, <2>3 DEF Poll, Seed, Ops
    <2>4. ASSUME NEW n \in 0 .. MaxRounds, PollInterval(n) \/ PollIntervalWithCallback(n)
          PROVE  BaselineIsReported'
        BY <2>2, <2>4 DEF PollInterval, PollIntervalWithCallback, Ops
    <2>5. CASE Open \/ Query \/ Wake
        BY <2>5, CallVarsUnchanged DEF Open, Query, Wake
    <2>6. CASE Return
        BY <2>6 DEF Return, BaselineIsReported
    <2>7. CASE PollDone
        BY <2>7, PollDoneReports
    <2>8. CASE SeedDone
        BY <2>8 DEF SeedDone, BaselineIsReported
    <2>9. CASE Fail
        BY <2>9 DEF Fail, BaselineIsReported
    <2>10. CASE UNCHANGED vars
        BY <2>10, CallVarsUnchanged DEF vars, callVars
    <2> QED
        BY <2>1, <2>3, <2>4, <2>5, <2>6, <2>7, <2>8, <2>9, <2>10 DEF Next, PollerStep
<1> QED
    BY <1>1, <1>2, PTL DEF Spec

-----------------------------------------------------------------------------
(* The scan of the pipe directory.                                         *)

\* parse_directory_entries: exactly the entries with a name, in their order.
LEMMA NamedLists ==
    ASSUME NEW batch \in Seq(Entries), Increasing(batch)
    PROVE  /\ Named(batch) \in Seq(Names) /\ Increasing(Named(batch))
           /\ \A i \in 1..Len(Named(batch)) : \E k \in 1..Len(batch) : Named(batch)[i] = batch[k]
           /\ \A k \in 1..Len(batch) : batch[k] # Unnamed =>
                 \E i \in 1..Len(Named(batch)) : Named(batch)[i] = batch[k]
<1> DEFINE hits == {k \in DOMAIN batch : batch[k] # Unnamed}
           places == InOrder(hits)
           size == Len(places)
<1>0. Len(batch) \in Nat /\ DOMAIN batch = 1..Len(batch)
    OBVIOUS
<1>1. hits \in SUBSET (0..Len(batch))
    BY <1>0
<1>2. /\ places \in Seq(hits) /\ Increasing(places)
      /\ \A k \in hits : \E i \in 1..size : places[i] = k
    <2> HIDE DEF hits
    <2> QED
        BY <1>0, <1>1, InOrderLists
<1>3. size \in Nat /\ DOMAIN places = 1..size /\ \A i \in 1..size : places[i] \in hits
    <2> HIDE DEF hits
    <2>1. \A q \in Seq(hits) : Len(q) \in Nat /\ DOMAIN q = 1..Len(q) /\ \A i \in 1..Len(q) : q[i] \in hits
        OBVIOUS
    <2> HIDE DEF places
    <2> QED
        BY <1>2, <2>1
<1>4. Named(batch) = [i \in 1..size |-> batch[places[i]]]
    BY <1>3 DEF Named, AtPlaces
<1>5. \A i \in 1..size : /\ places[i] \in 1..Len(batch) /\ batch[places[i]] # Unnamed
                         /\ batch[places[i]] \in Names
    <2>1. \A k \in hits : k \in 1..Len(batch) /\ batch[k] # Unnamed /\ batch[k] \in Entries
        BY <1>0
    <2>2. \A k \in hits : batch[k] \in Names
        BY <2>1, LastNameAssumption DEF Entries, Names, Unnamed
    <2> HIDE DEF hits, places
    <2> QED
        BY <1>3, <2>1, <2>2
<1> HIDE DEF places
<1>6. Named(batch) \in Seq(Names) /\ Len(Named(batch)) = size
      /\ \A i \in 1..size : Named(batch)[i] = batch[places[i]]
    BY <1>3, <1>4, <1>5
<1>7. Increasing(Named(batch))
    BY <1>0, <1>2, <1>3, <1>5, <1>6 DEF Increasing
<1>8. \A k \in 1..Len(batch) : batch[k] # Unnamed =>
         \E i \in 1..size : Named(batch)[i] = batch[k]
    BY <1>0, <1>2, <1>6
<1> QED
    BY <1>5, <1>6, <1>7, <1>8

\* A batch behind a snapshot: both increase, and the batch is above.
LEMMA Extends ==
    ASSUME NEW p \in Seq(Names), Increasing(p), NEW q \in Seq(Names), Increasing(q),
           NEW c \in Int, \A i \in 1..Len(p) : p[i] <= c, \A i \in 1..Len(q) : c < q[i]
    PROVE  /\ p \o q \in Seq(Names) /\ Increasing(p \o q)
           /\ \A i \in 1..Len(p \o q) : \/ \E k \in 1..Len(p) : (p \o q)[i] = p[k]
                                        \/ \E k \in 1..Len(q) : (p \o q)[i] = q[k]
           /\ \A k \in 1..Len(p) : \E i \in 1..Len(p \o q) : (p \o q)[i] = p[k]
           /\ \A k \in 1..Len(q) : \E i \in 1..Len(p \o q) : (p \o q)[i] = q[k]
<1> DEFINE r == p \o q
           m == Len(p)
           l == Len(q)
<1>1. r \in Seq(Names) /\ Len(r) = m + l /\ m \in Nat /\ l \in Nat
    OBVIOUS
<1>2. \A i \in 1..(m + l) : r[i] = IF i <= m THEN p[i] ELSE q[i - m]
    OBVIOUS
<1>3. /\ \A i \in 1..m : p[i] \in Int
      /\ \A i \in 1..l : q[i] \in Int
    BY LastNameAssumption DEF Names
<1> HIDE DEF r
<1>4. ASSUME NEW i \in 1..(m + l), NEW j \in 1..(m + l), i < j
      PROVE  r[i] < r[j]
    <2>1. CASE j <= m
        <3>1. i \in 1..m /\ j \in 1..m /\ r[i] = p[i] /\ r[j] = p[j]
            BY <1>1, <1>2, <1>4, <2>1
        <3> QED
            BY <1>4, <3>1 DEF Increasing
    <2>2. CASE i <= m /\ ~(j <= m)
        <3>1. i \in 1..m /\ j - m \in 1..l /\ r[i] = p[i] /\ r[j] = q[j - m]
            BY <1>1, <1>2, <1>4, <2>2
        <3>2. p[i] <= c /\ c < q[j - m] /\ p[i] \in Int /\ q[j - m] \in Int
            BY <1>3, <3>1
        <3> QED
            BY <3>1, <3>2
    <2>3. CASE ~(i <= m)
        <3>1. i - m \in 1..l /\ j - m \in 1..l /\ i - m < j - m /\ r[i] = q[i - m] /\ r[j] = q[j - m]
            BY <1>1, <1>2, <1>4, <2>3
        <3> QED
            BY <3>1 DEF Increasing
    <2> QED
        BY <1>1, <1>4, <2>1, <2>2, <2>3
<1>5. \A i \in 1..(m + l) : \/ \E k \in 1..m : r[i] = p[k]
                            \/ \E k \in 1..l : r[i] = q[k]
    <2> TAKE i \in 1..(m + l)
    <2>1. i <= m => i \in 1..m /\ r[i] = p[i]
        BY <1>1, <1>2
    <2>2. ~(i <= m) => i - m \in 1..l /\ r[i] = q[i - m]
        BY <1>1, <1>2
    <2> QED
        BY <2>1, <2>2
<1>6. \A k \in 1..m : k \in 1..(m + l) /\ r[k] = p[k]
    BY <1>1, <1>2
<1>7. \A k \in 1..l : k + m \in 1..(m + l) /\ r[k + m] = q[k]
    BY <1>1, <1>2
<1>8. Increasing(r)
    BY <1>1, <1>4 DEF Increasing
<1> QED
    BY <1>1, <1>5, <1>6, <1>7, <1>8 DEF r

\* While a scan runs, the snapshot increases up to the cursor, holds every name
\* up to there that was present all the time and only names that were present
\* at some time; at its end the cursor is past all that were.
ScanShape ==
    /\ pipes \subseteq Entries /\ out \in Seq(Names) /\ cursor \in Entries \cup {-1}
    /\ at = "done" => \A n \in stable : n <= cursor

Scanned ==
    /\ stable \subseteq pipes /\ pipes \subseteq seen
    /\ Increasing(out)
    /\ \A i \in 1..Len(out) : out[i] <= cursor /\ out[i] \in seen
    /\ \A n \in stable : n # Unnamed /\ n <= cursor => \E i \in 1..Len(out) : out[i] = n

ScanInv == ScanShape /\ (at \in {"query", "done"} => Scanned)

\* One buffer of entries: the next ones after the cursor, and none left out.
LEMMA BatchIsNext ==
    ASSUME ScanInv, at = "query", NEW batch \in Returnable(cursor = -1), Len(batch) >= 1
    PROVE  /\ batch \in Seq(Entries) /\ Increasing(batch)
           /\ batch[Len(batch)] \in Entries
           /\ \A i \in 1..Len(batch) : cursor < batch[i] /\ batch[i] <= batch[Len(batch)] /\ batch[i] \in pipes
           /\ \A n \in pipes : cursor < n /\ n <= batch[Len(batch)] => \E i \in 1..Len(batch) : batch[i] = n
<1>1. PICK final \in pipes : batch = InOrder({n \in pipes : (cursor = -1 \/ n > cursor) /\ n <= final})
    BY DEF Returnable
<1> DEFINE S == {n \in pipes : (cursor = -1 \/ n > cursor) /\ n <= final}
<1>2. /\ pipes \subseteq Entries /\ Entries = 0..LastName /\ LastName \in Nat /\ cursor \in Int
      /\ final \in Int
    <2>1. pipes \subseteq Entries /\ cursor \in Entries \cup {-1}
        BY DEF ScanInv, ScanShape
    <2>2. Entries = 0..LastName /\ LastName \in Nat
        BY LastNameAssumption DEF Entries, Unnamed
    <2>3. \A n \in Entries : n \in Int
        BY <2>2
    <2> QED
        BY <2>1, <2>2, <2>3, <1>1
<1>3. S \in SUBSET (0..LastName)
    BY <1>2
<1>4. /\ batch \in Seq(S) /\ Increasing(batch)
      /\ \A k \in S : \E i \in 1..Len(batch) : batch[i] = k
    <2> HIDE DEF S
    <2> QED
        BY <1>1, <1>2, <1>3, InOrderLists DEF S
<1>5. \A k \in S : k \in Int /\ k \in Entries /\ k \in pipes /\ cursor < k /\ k <= final
    BY <1>2
<1>6. \A n \in pipes : n \in Int /\ (cursor < n /\ n <= final => n \in S)
    BY <1>2
<1> HIDE DEF S
<1>7. Len(batch) \in Nat /\ \A i \in 1..Len(batch) : batch[i] \in S
    BY <1>4
<1>8. batch \in Seq(Entries)
    BY <1>4, <1>5, <1>7
<1>9. Len(batch) \in 1..Len(batch) /\ batch[Len(batch)] \in S
    BY <1>7
<1>10. ASSUME NEW i \in 1..Len(batch)
       PROVE  batch[i] <= batch[Len(batch)]
    <2>1. batch[i] \in Int /\ batch[Len(batch)] \in Int
        BY <1>5, <1>7, <1>9
    <2>2. CASE i = Len(batch)
        BY <2>1, <2>2
    <2>3. CASE i < Len(batch)
        <3>1. batch[i] < batch[Len(batch)]
            BY <1>4, <1>9, <2>3 DEF Increasing
        <3> QED
            BY <2>1, <3>1
    <2> QED
        BY <1>7, <2>2, <2>3
<1>11. ASSUME NEW n \in pipes, cursor < n, n <= batch[Len(batch)]
       PROVE  \E i \in 1..Len(batch) : batch[i] = n
    <2>1. n <= final
        BY <1>2, <1>5, <1>6, <1>9, <1>11
    <2> QED
        BY <1>4, <1>6, <1>11, <2>1
<1> QED
    BY <1>4, <1>5, <1>7, <1>8, <1>9, <1>10, <1>11

LEMMA QueryScans ==
    ASSUME ScanInv, Query
    PROVE  ScanInv'
<1>0. /\ at = "query" /\ UNCHANGED <<pipes, stable, seen>> /\ ScanShape /\ Scanned
      /\ cursor \in Int /\ Entries \subseteq Int
    BY LastNameAssumption DEF Query, worldVars, ScanInv, ScanShape, Entries, Unnamed
<1>1. CASE (\A n \in pipes : n <= cursor) /\ at' = "done" /\ UNCHANGED <<out, cursor>>
    BY <1>0, <1>1 DEF ScanInv, ScanShape, Scanned
<1>2. ASSUME NEW batch \in Returnable(cursor = -1), Len(batch) \in 1..Batch,
             out' = out \o Parse(batch), cursor' = batch[Len(batch)], UNCHANGED at
      PROVE  ScanInv'
    <2> DEFINE more == Named(batch)
    <2>1. /\ batch \in Seq(Entries) /\ Increasing(batch) /\ cursor' \in Entries
          /\ \A i \in 1..Len(batch) : cursor < batch[i] /\ batch[i] <= cursor' /\ batch[i] \in pipes
          /\ \A n \in pipes : cursor < n /\ n <= cursor' => \E i \in 1..Len(batch) : batch[i] = n
        BY <1>0, <1>2, BatchIsNext, BatchAssumption
    <2>2. /\ more \in Seq(Names) /\ Increasing(more)
          /\ \A i \in 1..Len(more) : \E k \in 1..Len(batch) : more[i] = batch[k]
          /\ \A k \in 1..Len(batch) : batch[k] # Unnamed => \E i \in 1..Len(more) : more[i] = batch[k]
        BY <2>1, NamedLists
    <2>3. \A i \in 1..Len(more) : cursor < more[i] /\ more[i] <= cursor' /\ more[i] \in pipes
        BY <2>1, <2>2
    <2>4. out \in Seq(Names) /\ Increasing(out) /\ \A i \in 1..Len(out) : out[i] <= cursor
        BY <1>0 DEF ScanShape, Scanned
    <2>5. out' = out \o more
        BY <1>2 DEF Parse
    <2> HIDE DEF more
    <2>6. /\ out' \in Seq(Names) /\ Increasing(out')
          /\ \A i \in 1..Len(out') : \/ \E k \in 1..Len(out) : out'[i] = out[k]
                                     \/ \E k \in 1..Len(more) : out'[i] = more[k]
          /\ \A k \in 1..Len(out) : \E i \in 1..Len(out') : out'[i] = out[k]
          /\ \A k \in 1..Len(more) : \E i \in 1..Len(out') : out'[i] = more[k]
        <3>1. /\ more \in Seq(Names) /\ Increasing(more) /\ cursor \in Int
              /\ \A i \in 1..Len(more) : cursor < more[i]
            BY <1>0, <2>2, <2>3
        <3>2. /\ out \o more \in Seq(Names) /\ Increasing(out \o more)
              /\ \A i \in 1..Len(out \o more) : \/ \E k \in 1..Len(out) : (out \o more)[i] = out[k]
                                                \/ \E k \in 1..Len(more) : (out \o more)[i] = more[k]
              /\ \A k \in 1..Len(out) : \E i \in 1..Len(out \o more) : (out \o more)[i] = out[k]
              /\ \A k \in 1..Len(more) : \E i \in 1..Len(out \o more) : (out \o more)[i] = more[k]
            BY <2>4, <3>1, Extends, Zenon
        <3> QED
            BY <2>5, <3>2, Zenon
    <2>7. cursor < cursor' /\ cursor' \in Int
        <3>1. Len(batch) \in 1..Len(batch)
            BY <1>2, BatchAssumption
        <3>2. cursor < batch[Len(batch)]
            BY <2>1, <3>1
        <3>3. cursor' \in Int
            BY <1>0, <2>1
        <3> QED
            BY <1>2, <3>2, <3>3
    <2>8. \A i \in 1..Len(out') : out'[i] <= cursor' /\ out'[i] \in seen
        <3>1. \A k \in 1..Len(out) : out[k] \in Int /\ out[k] <= cursor /\ out[k] \in seen
            BY <1>0, <2>4, LastNameAssumption DEF Scanned, Names
        <3>2. \A k \in 1..Len(more) : more[k] <= cursor' /\ more[k] \in seen
            BY <1>0, <2>3 DEF Scanned
        <3>3. \A k \in 1..Len(out) : out[k] <= cursor'
            BY <1>0, <2>7, <3>1
        <3> QED
            BY <2>6, <3>1, <3>2, <3>3
    <2>9. ASSUME NEW n \in stable, n # Unnamed, n <= cursor'
          PROVE  \E i \in 1..Len(out') : out'[i] = n
        <3>1. n \in pipes /\ n \in Int
            BY <1>0, <2>9 DEF Scanned, ScanShape
        <3>2. CASE n <= cursor
            <4>1. PICK k \in 1..Len(out) : out[k] = n
                BY <1>0, <2>9, <3>2 DEF Scanned
            <4> QED
                BY <2>6, <4>1
        <3>3. CASE ~(n <= cursor)
            <4>1. PICK k \in 1..Len(batch) : batch[k] = n
                BY <1>0, <2>1, <2>9, <3>1, <3>3
            <4>2. PICK i \in 1..Len(more) : more[i] = n
                BY <2>2, <2>9, <4>1
            <4> QED
                BY <2>6, <4>2
        <3> QED
            BY <3>2, <3>3
    <2>10. ScanShape'
        BY <1>0, <1>2, <2>1, <2>6 DEF ScanShape
    <2>11. Scanned'
        <3>1. stable' = stable /\ pipes' = pipes /\ seen' = seen
            BY <1>0
        <3> QED
            BY <1>0, <2>6, <2>8, <2>9, <3>1 DEF Scanned
    <2> QED
        BY <2>10, <2>11 DEF ScanInv
<1> QED
    BY <1>1, <1>2 DEF Query

\* Pipes come and go during the scan.
LEMMA WorldScans ==
    ASSUME ScanInv, NEW n \in Entries, CreatePipe(n) \/ RemovePipe(n)
    PROVE  ScanInv'
<1>1. UNCHANGED <<at, cursor, out>>
    BY DEF CreatePipe, RemovePipe, scanVars
<1>2. CASE CreatePipe(n)
    BY <1>1, <1>2 DEF CreatePipe, ScanInv, ScanShape, Scanned
<1>3. CASE RemovePipe(n)
    BY <1>1, <1>3 DEF RemovePipe, ScanInv, ScanShape, Scanned
<1> QED
    BY <1>2, <1>3

LEMMA ScanStep ==
    ASSUME ScanInv, [Next]_vars
    PROVE  ScanInv'
<1>1. CASE Open
    <2>1. /\ at' = "query" /\ cursor' = -1 /\ out' = <<>> /\ pipes' = pipes
          /\ stable' = pipes /\ seen' = pipes
        BY <1>1 DEF Open
    <2>2. out' \in Seq(Names) /\ Len(out') = 0
        BY <2>1
    <2>3. \A n \in pipes : ~(n <= -1)
        BY LastNameAssumption DEF ScanInv, ScanShape, Entries, Unnamed
    <2>4. Scanned'
        BY <2>1, <2>2, <2>3 DEF Scanned, Increasing
    <2> QED
        BY <2>1, <2>2, <2>4 DEF ScanInv, ScanShape
<1>2. CASE UNCHANGED <<pipes, stable, seen, cursor, out>> /\ (at' = at \/ at' \notin {"query", "done"})
    BY <1>2 DEF ScanInv, ScanShape, Scanned
<1>3. CASE Poll \/ Seed \/ \E n \in 0..MaxRounds : PollInterval(n) \/ PollIntervalWithCallback(n)
    BY <1>2, <1>3 DEF Poll, Seed, PollInterval, PollIntervalWithCallback, Call, worldVars, scanVars
<1>4. CASE Wake \/ Return \/ Fail
    BY <1>2, <1>4 DEF Wake, Return, Fail, worldVars, scanVars
<1>5. CASE PollDone \/ SeedDone
    BY <1>2, <1>5 DEF PollDone, SeedDone, worldVars, scanVars
<1>6. CASE UNCHANGED vars
    BY <1>2, <1>6 DEF vars
<1> QED
    BY <1>1, <1>3, <1>4, <1>5, <1>6, QueryScans, WorldScans DEF Next, PollerStep

\* An increasing sequence has no element twice.
LEMMA IncreasingCounts ==
    ASSUME NEW q \in Seq(Names), Increasing(q)
    PROVE  Cardinality(ToSet(q)) = Len(q)
<1> DEFINE n == Len(q)
           T == {q[i] : i \in 1..n}
<1>1. n \in Nat /\ DOMAIN q = 1..n /\ \A i \in 1..n : q[i] \in Int
    BY LastNameAssumption DEF Names
<1>2. \A i, j \in 1..n : q[i] = q[j] => i = j
    BY <1>1 DEF Increasing
<1>3. q \in [1..n -> T]
    BY <1>1
<1>4. q \in Bijection(1..n, T)
    BY <1>1, <1>2, <1>3 DEF Bijection, Injection, Surjection, IsInjective
<1>5. IsFiniteSet(1..n) /\ Cardinality(1..n) = n
    BY <1>1, FS_Interval
<1>6. Cardinality(T) = n
    <2> HIDE DEF T
    <2>1. ExistsBijection(1..n, T)
        BY <1>4 DEF ExistsBijection
    <2> QED
        BY <1>5, <2>1, FS_Bijection
<1> QED
    BY <1>1, <1>6 DEF ToSet

\* list_with_filter over NtQueryDirectoryFile: a finished scan holds every pipe
\* that was there all the time, none that never was and no pipe twice, for any
\* number of pipes, size of the buffer and changes between the queries.
THEOREM ScansAreFaithful == Spec => []ScanFaithful
<1>1. Init => ScanInv
    <2> SUFFICES ASSUME Init PROVE ScanInv
        OBVIOUS
    <2>1. out \in Seq(Names)
        BY DEF Init
    <2> QED
        BY <2>1 DEF Init, ScanInv, ScanShape
<1>2. ScanInv /\ [Next]_vars => ScanInv'
    BY ScanStep
<1>3. ScanInv => ScanFaithful
    <2> SUFFICES ASSUME ScanInv, at = "done"
                 PROVE  /\ stable \ {Unnamed} \subseteq Snapshot
                        /\ Snapshot \subseteq seen
                        /\ Cardinality(Snapshot) = Len(out)
        BY DEF ScanFaithful
    <2>1. Scanned /\ out \in Seq(Names) /\ \A n \in stable : n <= cursor
        BY DEF ScanInv, ScanShape
    <2>2. Snapshot = {out[i] : i \in 1..Len(out)}
        BY <2>1 DEF Snapshot, ToSet
    <2>3. Cardinality(Snapshot) = Len(out)
        BY <2>1, IncreasingCounts DEF Snapshot, Scanned
    <2> QED
        BY <2>1, <2>2, <2>3 DEF Scanned
<1> QED
    BY <1>1, <1>2, <1>3, PTL DEF Spec

-----------------------------------------------------------------------------
(* The restart of a service.                                               *)

\* The clock of wait_for_state, and what a caller without a handle can have.
Sane ==
    /\ elapsed \in Nat /\ stale \in Nat
    /\ access = {} => step = "idle" /\ result = "none"

\* While a restart is under way nothing has been reported yet, and the service
\* it is about to start has stopped, unless somebody else acted meanwhile.
UnderWay ==
    /\ step # "idle" => result = "none"
    /\ step = "start" => disturbed \/ state = "Stopped"

RestartInv == Sane /\ UnderWay /\ RestartHonest

-----------------------------------------------------------------------------
\* The thread sleeps between 0.1 and 1 second, whatever the service hints at.
LEMMA PollTimeBounds ==
    ASSUME NEW hint \in Nat
    PROVE  PollTime(hint) \in 1..10
<1>1. Clamp(hint, 1, 100) \in 1..100
    BY DEF Clamp, Larger, Least
<1>2. Clamp(hint, 1, 100) \div 10 \in Int
    BY <1>1
<1>3. \A v \in Int : Clamp(v, 1, 10) \in 1..10
    BY DEF Clamp, Larger, Least
<1> QED BY <1>2, <1>3 DEF PollTime

\* The service moves by itself, but a stopped one does not.
LEMMA ProgressKeeps ==
    ASSUME RestartInv, Progress
    PROVE  RestartInv'
<1>1. UNCHANGED <<access, step, elapsed, stale, last, result, requests, disturbed>>
    BY DEF Progress, waiting
<1>2. state = "Stopped" => state' = "Stopped"
    BY DEF Progress
<1> QED BY <1>1, <1>2 DEF RestartInv, Sane, UnderWay, RestartHonest

\* Whoever else acts during a restart has disturbed it.
LEMMA OtherActsKeeps ==
    ASSUME RestartInv, OtherActs
    PROVE  RestartInv'
<1>1. UNCHANGED <<access, step, elapsed, stale, last, result>>
    BY DEF OtherActs, waiting
<1>2. disturbed' = (disturbed \/ step # "idle")
    BY DEF OtherActs
<1> QED BY <1>1, <1>2 DEF RestartInv, Sane, UnderWay, RestartHonest

\* Opening and dropping a handle, and single requests, happen outside a restart.
LEMMA IdleKeeps ==
    ASSUME RestartInv, step = "idle", UNCHANGED <<step, elapsed, stale, disturbed>>,
           result' \in {result, "none", "ok", "error"},
           access' # access => result' = "none",
           access' = {} => result' = "none"
    PROVE  RestartInv'
BY DEF RestartInv, Sane, UnderWay, RestartHonest

\* A restart begins with its clock at 0 and nothing reported.
LEMMA RestartKeeps ==
    ASSUME Timeout \in Nat, MaxDelay \in Nat, RestartInv, restart
    PROVE  RestartInv'
<1>1. elapsed' = 0 /\ stale' = 0 /\ access # {} /\ access' = access
    BY DEF restart, Request
<1>2. step = "idle" /\ step' \in {"idle", "wait"} /\ result' \in {"none", "error"}
    BY DEF restart, Request
<1>3. step' = "wait" => result' = "none"
    BY <1>2 DEF restart
<1>4. elapsed' \in Nat /\ elapsed' <= Timeout + 10 + 2 * MaxDelay
    BY <1>1
<1> QED BY <1>1, <1>2, <1>3, <1>4 DEF RestartInv, Sane, UnderWay, RestartHonest

\* One round: it begins within the timeout or is the last one, and adds a sleep
\* and two delays at most.
LEMMA WaitKeeps ==
    ASSUME Timeout \in Nat, MaxDelay \in Nat, Hints \subseteq Nat, RestartInv, wait_for_state
    PROVE  RestartInv'
<1>1. step = "wait" /\ result = "none" /\ access # {}
    BY DEF wait_for_state, RestartInv, Sane, UnderWay
<1>2. UNCHANGED <<state, access, disturbed>>
    BY DEF wait_for_state, service
<1>3. elapsed \in Nat /\ stale \in Nat /\ elapsed <= Timeout + 10 + 2 * MaxDelay
    BY DEF RestartInv, Sane, RestartHonest
<1>4. CASE elapsed > Timeout
    <2>1. step' = "idle" /\ result' = "timed out" /\ UNCHANGED <<elapsed, stale>>
        BY <1>4 DEF wait_for_state, GiveUp, waiting
    <2> QED BY <1>1, <1>2, <1>3, <1>4, <2>1 DEF RestartInv, Sane, UnderWay, RestartHonest
<1>5. CASE ~(elapsed > Timeout)
    <2>1. PICK d \in 0..MaxDelay, e \in 0..MaxDelay, hint \in Hints :
            LET now == elapsed + d
                moved == query_with_buffer.checkpoint # last
                since == IF moved THEN now ELSE stale
            IN  \/ step' = "idle" /\ result' = "error" /\ UNCHANGED <<elapsed, stale>>
                \/ Reached /\ step' = "start" /\ UNCHANGED <<result, elapsed, stale>>
                \/ /\ stale' = since /\ elapsed' = now
                   /\ now - since > Timeout /\ step' = "idle" /\ result' = "timed out"
                \/ /\ stale' = since /\ elapsed' = now + PollTime(hint) + e
                   /\ UNCHANGED <<step, result>>
        BY <1>5 DEF wait_for_state, GiveUp, waiting
    <2> DEFINE now == elapsed + d
               since == IF query_with_buffer.checkpoint # last THEN now ELSE stale
    <2>2. now \in Nat /\ now <= Timeout + MaxDelay /\ since \in Nat
        BY <1>3, <1>5
    <2>3. CASE step' = "idle" /\ result' = "error" /\ UNCHANGED <<elapsed, stale>>
        BY <1>1, <1>2, <1>3, <2>3 DEF RestartInv, Sane, UnderWay, RestartHonest
    <2>4. CASE Reached /\ step' = "start" /\ UNCHANGED <<result, elapsed, stale>>
        <3>1. state = "Stopped"
            BY <2>4 DEF Reached, query_with_buffer, from_windows
        <3> QED BY <1>1, <1>2, <1>3, <2>4, <3>1 DEF RestartInv, Sane, UnderWay, RestartHonest
    <2>5. CASE /\ stale' = since /\ elapsed' = now
               /\ now - since > Timeout /\ step' = "idle" /\ result' = "timed out"
        <3>1. \A m, n \in Nat : m - n > Timeout /\ m <= Timeout + MaxDelay =>
                                m > Timeout /\ m <= Timeout + 10 + 2 * MaxDelay
            OBVIOUS
        <3>2. elapsed' \in Nat /\ elapsed' > Timeout /\ elapsed' <= Timeout + 10 + 2 * MaxDelay
            BY <2>2, <2>5, <3>1, Zenon
        <3> QED BY <1>1, <1>2, <2>2, <2>5, <3>2 DEF RestartInv, Sane, UnderWay, RestartHonest
    <2>6. CASE stale' = since /\ elapsed' = now + PollTime(hint) + e /\ UNCHANGED <<step, result>>
        <3>1. PollTime(hint) \in 1..10
            BY PollTimeBounds
        <3>2. elapsed' \in Nat /\ elapsed' <= Timeout + 10 + 2 * MaxDelay
            BY <2>2, <2>6, <3>1
        <3> QED BY <1>1, <1>2, <2>2, <2>6, <3>2 DEF RestartInv, Sane, UnderWay, RestartHonest
    <2> QED BY <2>1, <2>3, <2>4, <2>5, <2>6
<1> QED BY <1>4, <1>5

\* The service has stopped, and is started by who may do so, unless disturbed.
LEMMA RestartStartKeeps ==
    ASSUME RestartInv, RestartStart
    PROVE  RestartInv'
<1>1. step = "start" /\ step' = "idle" /\ result' \in {"restarted", "start failed"}
    BY DEF RestartStart, GiveUp
<1>2. UNCHANGED <<access, elapsed, stale, disturbed>>
    BY DEF RestartStart, waiting
<1>3. result' = "start failed" => disturbed \/ "start" \notin access
    BY <1>1 DEF RestartStart, GiveUp, CanStart, RestartInv, UnderWay
<1> QED BY <1>1, <1>2, <1>3 DEF RestartInv, Sane, UnderWay, RestartHonest

-----------------------------------------------------------------------------
\* Service::restart and wait_for_state: a restart that nobody disturbs fails to
\* start the service only for want of the right, gives up only when its time is
\* over, and is late by at most one sleep and two delays.
THEOREM RestartIsHonest ==
    ASSUME Timeout \in Nat, MaxDelay \in Nat, Hints \subseteq Nat
    PROVE  ServiceSpec => []RestartHonest
<1>1. ServiceInit => RestartInv
    BY DEF ServiceInit, RestartInv, Sane, UnderWay, RestartHonest
<1>2. RestartInv /\ [ServiceNext]_serviceVars => RestartInv'
    <2> SUFFICES ASSUME RestartInv, [ServiceNext]_serviceVars
                 PROVE  RestartInv'
        OBVIOUS
    <2>1. ASSUME NEW rights \in {{"query"}, Rights, {"query", "stop"}}, open_with_access(rights)
          PROVE  RestartInv'
        <3>1. step = "idle" /\ result = "none"
            BY <2>1 DEF open_with_access, RestartInv, Sane
        <3> QED BY <2>1, <3>1, IdleKeeps DEF open_with_access, waiting
    <2>2. CASE Drop
        BY <2>2, IdleKeeps DEF Drop, waiting
    <2>3. CASE start
        <3>1. access # {} /\ step = "idle" /\ UNCHANGED <<access, step, elapsed, stale, disturbed>>
            BY <2>3 DEF start, Request, waiting
        <3>2. result' \in {"ok", "error"}
            BY <2>3 DEF start
        <3> QED BY <3>1, <3>2, IdleKeeps
    <2>4. ASSUME NEW c, send_control(c)
          PROVE  RestartInv'
        <3>1. access # {} /\ step = "idle" /\ UNCHANGED <<access, step, elapsed, stale, disturbed>>
            BY <2>4 DEF send_control, Request, waiting
        <3>2. result' \in {"ok", "error"}
            BY <2>4 DEF send_control
        <3> QED BY <3>1, <3>2, IdleKeeps
    <2>5. CASE UNCHANGED serviceVars
        BY <2>5 DEF serviceVars, RestartInv, Sane, UnderWay, RestartHonest
    <2> QED
        BY <2>1, <2>2, <2>3, <2>4, <2>5, ProgressKeeps, OtherActsKeeps, RestartKeeps,
           WaitKeeps, RestartStartKeeps DEF ServiceNext
<1>3. RestartInv => RestartHonest
    BY DEF RestartInv
<1> QED
    BY <1>1, <1>2, <1>3, PTL DEF ServiceSpec

-----------------------------------------------------------------------------
(* Listings.                                                               *)

CallRecord == [kind : Kinds \cup {"none"}, step : 0..4, size : Nat, seen : SUBSET Items]

\* What is there all the time is there now, and what is there now has been
\* there at some time.
ListShape ==
    /\ items \subseteq Items
    /\ call \in CallRecord
    /\ always \subseteq items /\ items \subseteq ever

\* What a call c holds between its steps: entries that were there at some time;
\* after a snapshot every one that stays, also those a walk has still to visit.
Walk(c) ==
    /\ c.seen \subseteq ever
    /\ c.kind = "threads" /\ c.step = 2 => always \subseteq c.seen
    /\ c.kind = "modules" /\ c.step = 3 => always \subseteq c.seen
    /\ c.kind = "drives" /\ c.step = 2 => always \cap Wanted \subseteq listed \cup c.seen
    /\ c.kind = "disks" =>
        c.size <= N /\ (silent \/ \A i \in always \cap Wanted : i <= c.size => i \in listed)

ListInv == ListShape /\ Walk(call) /\ WholeOrError /\ OnlyThisCall

LEMMA ItemsFinite ==
    ASSUME NEW s \in SUBSET Items
    PROVE  /\ IsFiniteSet(s) /\ Cardinality(s) \in Nat
           /\ Cardinality(s) = 0 => s = {}
           /\ \A t \in SUBSET s : Cardinality(t) = Cardinality(s) => t = s
<1>1. IsFiniteSet(Items)
    BY ItemsAssumption, FS_Interval DEF Items
<1>2. IsFiniteSet(s)
    BY <1>1, FS_Subset
<1>3. Cardinality(s) \in Nat /\ (Cardinality(s) = 0 <=> s = {})
    BY <1>2, FS_CardinalityType, FS_EmptySet
<1>4. \A t \in SUBSET s : Cardinality(t) = Cardinality(s) => t = s
    BY <1>2, FS_Subset
<1> QED BY <1>2, <1>3, <1>4

\* A call goes on with another size or with the entries it has seen.
LEMMA CallGoesOn ==
    ASSUME call \in CallRecord, NEW n \in 0..4, NEW size \in Nat, NEW set \in SUBSET Items,
           call' = [kind |-> call.kind, step |-> n, size |-> size, seen |-> set]
    PROVE  /\ call' \in CallRecord /\ call'.kind = call.kind
           /\ call'.step = n /\ call'.size = size /\ call'.seen = set
<1>1. call.kind \in Kinds \cup {"none"}
    BY DEF CallRecord
<1> QED BY <1>1 DEF CallRecord

\* A call returns with the entries of set: they were there at some time and,
\* with what was listed before, everything that stayed.
LEMMA FinishKeeps ==
    ASSUME ListInv, NEW set, set \cap Wanted \subseteq ever,
           call' = Idle, listed' = listed \cup (set \cap Wanted), answer'.kind = call.kind,
           UNCHANGED <<items, always, ever>>,
           (answer'.end = "ok" /\ ~answer'.unwritten /\ ~silent') => always \cap Wanted \subseteq listed \cup set
    PROVE  ListInv'
<1>1. ListShape'
    BY DEF ListInv, ListShape, CallRecord, Idle
<1>2. Walk(call)'
    BY DEF ListInv, Walk, Idle
<1>3. WholeOrError'
    BY DEF WholeOrError
<1>4. OnlyThisCall'
    BY DEF ListInv, OnlyThisCall
<1> QED BY <1>1, <1>2, <1>3, <1>4 DEF ListInv

\* A call that ends with an error lists nothing more.
LEMMA ErrKeeps == ASSUME ListInv, Err PROVE ListInv'
<1>1. /\ call' = Idle /\ listed' = listed \cup ({} \cap Wanted) /\ answer'.kind = call.kind
      /\ answer'.end = "error" /\ UNCHANGED <<items, always, ever>>
    BY DEF Err, Finish
<1> QED BY <1>1, FinishKeeps

\* A call that found the entries of set, all that are there unless it passed
\* over a failure or over the end of its buffer.
LEMMA FoundKeeps ==
    ASSUME ListInv, NEW set, NEW unwritten, NEW refused, Finish("ok", set, unwritten, refused), set \subseteq ever,
           unwritten \/ refused \/ silent \/ always \cap Wanted \subseteq listed \cup set
    PROVE  ListInv'
<1>1. /\ call' = Idle /\ listed' = listed \cup (set \cap Wanted) /\ answer'.kind = call.kind
      /\ answer'.unwritten = unwritten /\ (refused \/ silent => silent')
      /\ UNCHANGED <<items, always, ever>>
    BY DEF Finish
<1> QED BY <1>1, FinishKeeps

LEMMA OkKeeps ==
    ASSUME ListInv, NEW set, Ok(set), set \subseteq ever,
           silent \/ always \cap Wanted \subseteq listed \cup set
    PROVE  ListInv'
BY FoundKeeps DEF Ok

\* A call goes on as c, with what it has listed so far.
LEMMA GoesOnKeeps ==
    ASSUME ListInv, call' \in CallRecord,
           Walk(call)', listed \subseteq listed', listed' \subseteq ever \cap Wanted,
           silent => silent', UNCHANGED <<items, always, ever, answer>>
    PROVE  ListInv'
<1>1. ListShape'
    BY DEF ListInv, ListShape
<1>2. WholeOrError'
    BY DEF ListInv, WholeOrError
<1>3. OnlyThisCall'
    BY DEF ListInv, OnlyThisCall
<1> QED BY <1>1, <1>2, <1>3 DEF ListInv

\* The second call with a buffer of the size asked for.
LEMMA ReadSizedKeeps == ASSUME ListInv, ReadSized PROVE ListInv'
BY OkKeeps, ErrKeeps DEF ReadSized, ListInv, ListShape

\* The system changes between any two steps.
LEMMA ChangeKeeps ==
    ASSUME ListInv, NEW i \in Items, Change(i) PROVE ListInv'
<1>1. ListShape'
    BY DEF ListInv, ListShape, Change
<1>2. always' \subseteq always /\ ever \subseteq ever' /\ UNCHANGED <<silent, call, listed, answer>>
    BY DEF Change
<1>3. Walk(call)'
    BY <1>2 DEF ListInv, Walk
<1>4. WholeOrError' /\ OnlyThisCall'
    BY <1>2 DEF ListInv, WholeOrError, OnlyThisCall
<1> QED BY <1>1, <1>3, <1>4 DEF ListInv

\* A call begins: nothing of an earlier one is left in its output.
LEMMA BeginKeeps ==
    ASSUME ListInv, NEW kind \in Kinds, Begin(kind) PROVE ListInv'
<1>1. /\ call' = [kind |-> kind, step |-> 1, seen |-> {},
                  size |-> IF kind \in TwoCall \cup {"disks"} THEN 0 ELSE Default]
      /\ listed' = {} /\ always' = items /\ ever' = items /\ answer' = NoAnswer
      /\ UNCHANGED items
    BY DEF Begin, Cleared
<1>2. ListShape'
    BY <1>1, ItemsAssumption DEF ListInv, ListShape, CallRecord
<1>3. Walk(call)'
    <2>1. kind = "disks" => call'.size = 0
        BY <1>1
    <2>2. \A i \in items : i \in Int /\ i > 0
        BY DEF ListInv, ListShape, Items
    <2> QED BY <1>1, <2>1, <2>2, ItemsAssumption DEF Walk
<1>4. WholeOrError' /\ OnlyThisCall'
    BY <1>1 DEF WholeOrError, OnlyThisCall, NoAnswer
<1> QED BY <1>2, <1>3, <1>4 DEF ListInv

\* Every step of the list functions keeps the invariant.
LEMMA StepKeeps == ASSUME ListInv, Step PROVE ListInv'
<1>1. /\ call \in CallRecord
      /\ items \in SUBSET Items /\ always \subseteq items /\ items \subseteq ever
      /\ Walk(call) /\ listed \subseteq ever \cap Wanted
    BY DEF ListInv, ListShape, OnlyThisCall
<1>2. /\ Cardinality(items) \in Nat /\ (Cardinality(items) = 0 => items = {})
      /\ \A t \in SUBSET items : Cardinality(t) = Cardinality(items) => t = items
    BY <1>1, ItemsFinite
<1>3. CASE list_with_filter \/ user_sid \/ firmware_guid_from_smbios
    <2>1. CASE ReadSized \/ Err
        BY <2>1, ReadSizedKeeps, ErrKeeps
    <2>2. ASSUME NEW refused \in BOOLEAN, Needed(refused) = 0, Finish("ok", {}, FALSE, refused)
          PROVE  ListInv'
        <3>1. refused \/ items = {}
            BY <1>2, <2>2 DEF Needed
        <3>2. {} \subseteq ever /\ (FALSE \/ refused \/ silent \/ always \cap Wanted \subseteq listed \cup {})
            BY <1>1, <3>1
        <3>3. ListInv /\ Finish("ok", {}, FALSE, refused)
            BY <2>2
        <3> DEFINE none == {}
                   no == FALSE
        <3>4. Finish("ok", none, no, refused) /\ none \subseteq ever
              /\ (no \/ refused \/ silent \/ always \cap Wanted \subseteq listed \cup none)
            BY <3>2, <3>3
        <3> HIDE DEF none, no
        <3> QED BY <3>3, <3>4, FoundKeeps
    <2>3. ASSUME NEW refused \in BOOLEAN, call.kind \in TwoCall,
                 Continue([call EXCEPT !.step = 2, !.size = Needed(refused)])
          PROVE  ListInv'
        <3>1. call'.kind = call.kind /\ call'.step = 2 /\ call'.seen = call.seen
              /\ call' \in CallRecord
            <4>1. Needed(refused) \in Nat
                BY <1>2 DEF Needed
            <4>2. call.seen \in SUBSET Items
                  /\ call' = [kind |-> call.kind, step |-> 2, size |-> Needed(refused), seen |-> call.seen]
                BY <1>1, <2>3 DEF Continue, CallRecord
            <4> QED BY <1>1, <4>1, <4>2, CallGoesOn
        <3>2. Walk(call)'
            BY <1>1, <2>3, <3>1 DEF Walk, Continue, TwoCall
        <3> QED BY <1>1, <2>3, <3>1, <3>2, GoesOnKeeps DEF Continue
    <2> QED
        BY <1>3, <2>1, <2>2, <2>3
        DEF list_with_filter, user_sid, firmware_guid_from_smbios, SizedOrEmpty, At, TwoCall
<1>4. CASE FirstModules
    <2>1. CASE Err
        BY <2>1, ErrKeeps
    <2>2. CASE /\ call' = [call EXCEPT !.step = 2, !.size = Greater(@, Cardinality(items))]
               /\ UNCHANGED <<items, listed, always, ever, silent, answer>>
        <3>1. call'.kind = "modules" /\ call'.step = 2 /\ call'.seen = call.seen
              /\ call' \in CallRecord
            <4>1. Greater(call.size, Cardinality(items)) \in Nat
                BY <1>1, <1>2 DEF Greater, CallRecord
            <4>2. call.kind = "modules" /\ call.seen \in SUBSET Items
                  /\ call' = [kind |-> call.kind, step |-> 2, size |-> Greater(call.size, Cardinality(items)),
                              seen |-> call.seen]
                BY <1>1, <1>4, <2>2 DEF FirstModules, At, CallRecord
            <4> QED BY <1>1, <4>1, <4>2, CallGoesOn
        <3>2. Walk(call)'
            BY <1>1, <2>2, <3>1 DEF Walk
        <3> QED BY <1>1, <2>2, <3>1, <3>2, GoesOnKeeps
    <2> QED BY <1>4, <2>1, <2>2 DEF FirstModules
<1>5. CASE SecondModules
    <2>1. CASE Err
        BY <2>1, ErrKeeps
    <2>2. ASSUME NEW written \in SUBSET items,
                 Cardinality(written) = IF Fits THEN Cardinality(items) ELSE call.size,
                 call' = [call EXCEPT !.step = IF Fits THEN 3 ELSE 4, !.seen = written],
                 UNCHANGED <<items, listed, always, ever, silent, answer>>
          PROVE  ListInv'
        <3>1. call'.kind = "modules" /\ call'.step = (IF Fits THEN 3 ELSE 4) /\ call'.seen = written
              /\ call' \in CallRecord
            <4>1. call.kind = "modules"
                BY <1>5 DEF SecondModules, At
            <4>2. written \in SUBSET Items /\ call.size \in Nat
                  /\ call' = [kind |-> call.kind, step |-> IF Fits THEN 3 ELSE 4, size |-> call.size,
                              seen |-> written]
                BY <1>1, <2>2 DEF CallRecord
            <4>3. (IF Fits THEN 3 ELSE 4) \in 0..4
                OBVIOUS
            <4> QED BY <1>1, <4>1, <4>2, <4>3, CallGoesOn
        <3>2. Fits => written = items
            BY <1>2, <2>2
        <3>3. Walk(call)'
            BY <1>1, <2>2, <3>1, <3>2 DEF Walk
        <3> QED BY <1>1, <2>2, <3>1, <3>3, GoesOnKeeps
    <2> QED BY <1>5, <2>1, <2>2 DEF SecondModules
<1>6. CASE ReadModules
    <2>1. PICK named \in SUBSET (call.seen \cap items) :
              Finish("ok", named, call.step = 4, named # call.seen \cap items)
        BY <1>6 DEF ReadModules
    <2>2. call.step = 4 \/ named # call.seen \cap items \/ always \subseteq named
        BY <1>1, <1>6 DEF ReadModules, Walk
    <2>3. named \subseteq ever
        BY <1>1
    <2> QED BY <2>1, <2>2, <2>3, FoundKeeps
<1>7. ASSUME NEW kind \in {"threads", "drives"}, At(kind, 1),
             Continue([call EXCEPT !.step = 2, !.seen = items])
      PROVE  ListInv'
    <2>1. call'.kind = kind /\ call'.step = 2 /\ call'.seen = items
          /\ call' \in CallRecord
        <3>1. call.kind = kind /\ call.size \in Nat
              /\ call' = [kind |-> call.kind, step |-> 2, size |-> call.size, seen |-> items]
            BY <1>1, <1>7 DEF Continue, At, CallRecord
        <3> QED BY <1>1, <3>1, CallGoesOn
    <2>2. Walk(call)'
        BY <1>1, <1>7, <2>1 DEF Walk, Continue
    <2> QED BY <1>1, <1>7, <2>1, <2>2, GoesOnKeeps DEF Continue
<1>8. CASE threads_with_filter
    <2>1. CASE At("threads", 2) /\ Ok(call.seen)
        BY <1>1, <2>1, OkKeeps DEF At, Walk
    <2>2. ASSUME NEW set \in SUBSET call.seen, Cut(set)
          PROVE  ListInv'
        BY <1>1, <2>2, FoundKeeps DEF Cut, Walk
    <2> QED BY <1>7, <1>8, <2>1, <2>2, ErrKeeps DEF threads_with_filter
<1>9. CASE query_system_process_information
    <2>1. CASE Ok(items)
        BY <1>1, <2>1, OkKeeps
    <2>2. CASE Continue(Grown)
        <3>1. call'.kind = "snapshot" /\ call'.step = 1 /\ call'.seen = call.seen
              /\ call' \in CallRecord
            BY <1>1, <1>2, <1>9, <2>2
            DEF query_system_process_information, Continue, Grown, At, CallRecord, Greater
        <3>2. Walk(call)'
            BY <1>1, <2>2, <3>1 DEF Walk, Continue
        <3> QED BY <1>1, <2>2, <3>1, <3>2, GoesOnKeeps DEF Continue
    <2> QED BY <1>9, <2>1, <2>2, ErrKeeps DEF query_system_process_information
<1>10. CASE logical_disks_with_filter
    <2>1. CASE At("drives", 2) /\ call.seen = {} /\ Ok({})
        BY <1>1, <2>1, OkKeeps DEF At, Walk
    <2>2. ASSUME NEW r, At("drives", 2), r \in items \ NotReady,
                 call' = [call EXCEPT !.seen = @ \ {r}],
                 listed' = listed \cup ({r} \cap Wanted),
                 UNCHANGED <<items, always, ever, silent, answer>>
          PROVE  ListInv'
        <3>1. call'.kind = "drives" /\ call'.step = 2 /\ call'.seen = call.seen \ {r}
              /\ call' \in CallRecord
            BY <1>1, <2>2 DEF At, CallRecord
        <3>2. always \cap Wanted \subseteq listed \cup call.seen
            BY <1>1, <2>2 DEF Walk, At
        <3>3. Walk(call)'
            BY <1>1, <2>2, <3>1, <3>2 DEF Walk
        <3> QED BY <1>1, <2>2, <3>1, <3>3, GoesOnKeeps
    <2> QED BY <1>7, <1>10, <2>1, <2>2, ErrKeeps DEF logical_disks_with_filter
<1>11. CASE physical_disks_with_filter
    <2>1. CASE call.size = N /\ Ok({})
        <3>1. \A i \in always : i <= N
            BY <1>1, ItemsAssumption DEF Items
        <3>2. silent \/ always \cap Wanted \subseteq listed
            BY <1>1, <1>11, <2>1, <3>1 DEF Walk, At, physical_disks_with_filter
        <3> QED BY <1>1, <2>1, <3>2, OkKeeps
    <2>2. ASSUME NEW disk \in SUBSET ({call.size + 1} \cap items), call.size # N,
                 call' = [call EXCEPT !.size = @ + 1],
                 listed' = listed \cup (disk \cap Wanted),
                 silent' = (silent \/ disk # {call.size + 1} \cap items),
                 UNCHANGED <<items, always, ever, answer>>
          PROVE  ListInv'
        <3>1. call'.kind = "disks" /\ call'.step = 1 /\ call'.seen = call.seen
              /\ call'.size = call.size + 1
              /\ call' \in CallRecord
            BY <1>1, <1>11, <2>2 DEF physical_disks_with_filter, At, CallRecord
        <3>2. /\ call.size \in Nat /\ call.size <= N
              /\ silent \/ \A i \in always \cap Wanted : i <= call.size => i \in listed
            BY <1>1, <1>11 DEF Walk, At, physical_disks_with_filter, CallRecord
        <3>3. \A i \in always : i \in Nat /\ i \in items
            BY <1>1 DEF Items
        <3>4. silent' \/ \A i \in always \cap Wanted : i <= call.size + 1 => i \in listed'
            <4>1. CASE silent \/ disk # {call.size + 1} \cap items
                BY <2>2, <4>1
            <4>2. CASE ~silent /\ disk = {call.size + 1} \cap items
                <5>1. listed' = listed \cup ({call.size + 1} \cap items \cap Wanted)
                    BY <2>2, <4>2
                <5>2. \A i \in always \cap Wanted : i <= call.size => i \in listed
                    BY <3>2, <4>2
                <5> QED BY <3>2, <3>3, <5>1, <5>2
            <4> QED BY <4>1, <4>2
        <3>5. Walk(call)'
            BY <1>1, <2>2, <3>1, <3>2, <3>4, ItemsAssumption DEF Walk
        <3> QED BY <1>1, <2>2, <3>1, <3>5, GoesOnKeeps
    <2> QED BY <1>11, <2>1, <2>2 DEF physical_disks_with_filter
<1>12. CASE network_interfaces_with_filter
    <2>1. CASE Ok(items)
        BY <1>1, <2>1, OkKeeps
    <2>2. CASE At("adapters", 1) /\ Continue([call EXCEPT !.step = 2, !.size = Cardinality(items)])
        <3>1. call'.kind = "adapters" /\ call'.step = 2 /\ call'.seen = call.seen
              /\ call' \in CallRecord
            <4>1. call.kind = "adapters" /\ call.seen \in SUBSET Items
                  /\ call' = [kind |-> call.kind, step |-> 2, size |-> Cardinality(items), seen |-> call.seen]
                BY <1>1, <2>2 DEF Continue, At, CallRecord
            <4> QED BY <1>1, <1>2, <4>1, CallGoesOn
        <3>2. Walk(call)'
            BY <1>1, <2>2, <3>1 DEF Walk, Continue
        <3> QED BY <1>1, <2>2, <3>1, <3>2, GoesOnKeeps DEF Continue
    <2> QED BY <1>12, <2>1, <2>2, ErrKeeps, ReadSizedKeeps DEF network_interfaces_with_filter
<1> QED BY <1>3, <1>4, <1>5, <1>6, <1>8, <1>9, <1>10, <1>11, <1>12 DEF Step

\* list functions of services, tokens, firmware, modules, threads, processes,
\* drives, disks and adapters: however much comes and goes between the steps of
\* a call, and whatever the size of its buffer, it lists all that stayed or
\* fails or has passed over a failure of the system, and lists nothing that never was there or that an earlier call left.
THEOREM ListsAreFaithful == ListSpec => []ListFaithful
<1>1. ListInit => ListInv
    BY DEF ListInit, ListInv, ListShape, CallRecord, Walk, Idle, WholeOrError, OnlyThisCall, NoAnswer
<1>2. ListInv /\ [ListNext]_listVars => ListInv'
    <2> SUFFICES ASSUME ListInv, [ListNext]_listVars PROVE ListInv'
        OBVIOUS
    <2>1. CASE UNCHANGED listVars
        BY <2>1 DEF listVars, ListInv, ListShape, Walk, WholeOrError, OnlyThisCall
    <2> QED BY <2>1, BeginKeeps, StepKeeps, ChangeKeeps DEF ListNext
<1>3. ListInv => ListFaithful
    BY DEF ListInv, ListFaithful
<1> QED
    BY <1>1, <1>2, <1>3, PTL DEF ListSpec

-----------------------------------------------------------------------------
(* What the host says of itself: the SMBIOS table.                         *)

\* Two bytes of 0 end q, and there are no two before them.
Terminated(q) ==
    /\ q \in Seq(Nat) /\ Len(q) >= 2
    /\ q[Len(q) - 1] = 0 /\ q[Len(q)] = 0
    /\ \A i \in 1..(Len(q) - 2) : ~(q[i] = 0 /\ q[i+1] = 0)

Text == Seq(Nat \ {0}) \ {<<>>}
Structures == [type : Nat, body : Seq(Nat), strings : Seq(Text)]

\* A sequence with a 0 at its end.
LEMMA WithZero ==
    ASSUME NEW x \in Seq(Nat), NEW c, c = x \o << 0 >>
    PROVE  /\ c \in Seq(Nat) /\ Len(x) \in Nat /\ Len(c) = Len(x) + 1
           /\ (\A i \in 1..Len(x) : c[i] = x[i])
           /\ c[Len(x) + 1] = 0
<1> DEFINE z == <<0>>
<1>1. z \in Seq(Nat) /\ Len(z) = 1 /\ z[1] = 0 /\ c = x \o z
    OBVIOUS
<1> HIDE DEF z
<1>2. /\ c \in Seq(Nat) /\ Len(x) \in Nat /\ Len(c) = Len(x) + Len(z)
      /\ \A i \in 1..Len(x) : c[i] = x[i]
      /\ \A i \in 1..Len(z) : c[Len(x) + i] = z[i]
    BY <1>1, ConcatTwo
<1>3. 1 \in 1..Len(z)
    BY <1>1
<1>4. c[Len(x) + 1] = z[1]
    BY <1>2, <1>3
<1> QED
    BY <1>1, <1>2, <1>4

\* Texts with a 0 after each end with one of them, and nowhere before are two.
LEMMA TextsEnd ==
    ASSUME NEW texts \in Seq(Text), texts # <<>>,
           NEW r, r = Concat([n \in DOMAIN texts |-> texts[n] \o << 0 >>])
    PROVE  /\ r \in Seq(Nat) /\ Len(r) \in Nat /\ Len(r) >= 1 /\ r[Len(r)] = 0
           /\ \A i \in 1..(Len(r) - 1) : ~(r[i] = 0 /\ r[i+1] = 0)
<1> DEFINE l == [n \in DOMAIN texts |-> texts[n] \o <<0>>]
           M == Len(texts)
<1>0. M \in Nat /\ M >= 1 /\ DOMAIN texts = 1..M
    BY EmptySeq
<1>1. ASSUME NEW n \in 1..M
      PROVE  /\ texts[n] \in Seq(Nat) /\ Len(texts[n]) \in Nat /\ Len(texts[n]) >= 1
             /\ \A i \in 1..Len(texts[n]) : texts[n][i] # 0
    <2>1. texts[n] \in Text
        BY <1>0
    <2>2. texts[n] \in Seq(Nat \ {0}) /\ texts[n] # <<>>
        BY <2>1 DEF Text
    <2> DEFINE x == texts[n]
    <2> HIDE DEF x
    <2>3. x \in Seq(Nat \ {0}) /\ x # <<>>
        BY <2>2 DEF x
    <2>4. x \in Seq(Nat) /\ Len(x) \in Nat /\ \A i \in 1..Len(x) : x[i] # 0
        BY <2>3
    <2>5. Len(x) # 0
        BY <2>3, EmptySeq
    <2> QED
        BY <2>4, <2>5 DEF x
<1>2. ASSUME NEW n \in 1..M
      PROVE  /\ l[n] \in Seq(Nat) /\ Len(l[n]) = Len(texts[n]) + 1
             /\ \A i \in 1..Len(texts[n]) : l[n][i] # 0
             /\ l[n][Len(texts[n]) + 1] = 0
    <2> DEFINE x == texts[n]
               c == l[n]
    <2>1. c = x \o <<0>>
        BY <1>0
    <2>2. x \in Seq(Nat) /\ \A i \in 1..Len(x) : x[i] # 0
        BY <1>1
    <2> HIDE DEF x, c
    <2>3. /\ c \in Seq(Nat) /\ Len(c) = Len(x) + 1
          /\ (\A i \in 1..Len(x) : c[i] = x[i])
          /\ c[Len(x) + 1] = 0
        BY <2>1, <2>2, WithZero
    <2> QED
        BY <2>2, <2>3 DEF x, c
<1>3. l \in Seq(Seq(Nat)) /\ Len(l) = M
    <2> DEFINE T == Seq(Nat)
               h(n) == texts[n] \o <<0>>
    <2>1. l = [n \in 1..M |-> h(n)]
        BY <1>0
    <2>2. \A n \in 1..M : h(n) \in T
        BY <1>0, <1>2
    <2> HIDE DEF M, T, h
    <2>3. [n \in 1..M |-> h(n)] \in Seq(T) /\ Len([n \in 1..M |-> h(n)]) = M
        BY <1>0, <2>2
    <2> HIDE DEF l
    <2>4. l \in Seq(T) /\ Len(l) = M
        BY <2>1, <2>3
    <2> QED
        BY <2>4 DEF T
<1>4. r = Concat(l)
    OBVIOUS
<1> HIDE DEF l, M
<1>5. PICK off : Rises(M, off) /\ off[0] = 0 /\ Pieces(Nat, l, off, r, M)
    BY <1>3, <1>4, ConcatPieces
<1>6. r \in Seq(Nat) /\ Len(r) = off[M] /\ \A n \in 1..M : PieceAt(l, off, r, n)
    BY <1>5 DEF Pieces
<1>7. \A n \in 0..M : off[n] \in Nat
    BY <1>5 DEF Rises
<1>8. ASSUME NEW n \in 1..M
      PROVE  /\ off[n-1] \in Nat /\ off[n] \in Nat /\ off[n-1] + 2 <= off[n]
             /\ \A i \in Nat : off[n-1] < i /\ i < off[n] => r[i] # 0
             /\ r[off[n]] = 0
    <2> DEFINE size == Len(texts[n])
    <2>1. n - 1 \in 0..M /\ n \in 0..M
        BY <1>0
    <2>2. off[n-1] \in Nat /\ off[n] \in Nat
        BY <1>7, <2>1
    <2>3. size \in Nat /\ size >= 1 /\ Len(l[n]) = size + 1 /\ (\A i \in 1..size : l[n][i] # 0)
             /\ l[n][size + 1] = 0
        BY <1>1, <1>2
    <2>4. off[n] = off[n-1] + Len(l[n]) /\ \A i \in 1..Len(l[n]) : r[off[n-1] + i] = l[n][i]
        BY <1>6 DEF PieceAt
    <2> HIDE DEF size
    <2>5. off[n] = off[n-1] + (size + 1) /\ \A i \in 1..(size + 1) : r[off[n-1] + i] = l[n][i]
        BY <2>3, <2>4
    <2>6. ASSUME NEW i \in Nat, off[n-1] < i, i < off[n]
          PROVE  r[i] # 0
        <3>1. i - off[n-1] \in 1..size /\ off[n-1] + (i - off[n-1]) = i
            BY <2>2, <2>3, <2>5, <2>6
        <3>2. r[off[n-1] + (i - off[n-1])] = l[n][i - off[n-1]]
            BY <2>3, <2>5, <3>1
        <3> QED
            BY <2>3, <3>1, <3>2
    <2>7. r[off[n]] = 0
        <3>1. size + 1 \in 1..(size + 1)
            BY <2>3
        <3> QED
            BY <2>3, <2>5, <3>1
    <2>8. off[n-1] + 2 <= off[n]
        BY <2>2, <2>3, <2>5
    <2> QED
        BY <2>2, <2>6, <2>7, <2>8
<1>9. Len(r) \in Nat /\ Len(r) >= 1 /\ r[Len(r)] = 0
    <2>1. M \in 1..M
        BY <1>0
    <2>2. off[M] \in Nat /\ off[M-1] \in Nat /\ off[M-1] + 2 <= off[M] /\ r[off[M]] = 0
        BY <1>8, <2>1
    <2>3. off[M] >= 1
        BY <2>2
    <2> QED
        BY <1>6, <2>2, <2>3
<1>10. ASSUME NEW i \in 1..(Len(r) - 1), r[i] = 0, r[i+1] = 0
       PROVE  FALSE
    <2>1. i \in 1..off[M] /\ i < off[M] /\ i \in Nat
        BY <1>6, <1>9
    <2>2. PICK n \in 1..M : n - 1 \in 0..M /\ off[n-1] \in Nat /\ off[n] \in Nat /\ off[n-1] < i /\ i <= off[n]
        BY <1>0, <1>5, <2>1, InSomePiece
    <2>3. i = off[n]
        <3>1. \A j \in Nat : off[n-1] < j /\ j < off[n] => r[j] # 0
            BY <1>8
        <3>2. ~(i < off[n])
            BY <1>10, <2>1, <2>2, <3>1
        <3> QED
            BY <2>1, <2>2, <3>2
    <2>4. n + 1 \in 1..M /\ (n + 1) - 1 = n
        <3>1. n # M
            BY <2>1, <2>3
        <3> QED
            BY <1>0, <3>1
    <2>5. /\ off[n+1] \in Nat /\ off[n] + 2 <= off[n+1]
          /\ \A j \in Nat : off[n] < j /\ j < off[n+1] => r[j] # 0
        BY <1>8, <2>4
    <2>6. i + 1 \in Nat /\ off[n] < i + 1 /\ i + 1 < off[n+1]
        BY <2>1, <2>2, <2>3, <2>5
    <2> QED
        BY <1>10, <2>5, <2>6
<1> QED
    BY <1>6, <1>9, <1>10

\* The strings of a structure end where its bytes do.
LEMMA StringsEnd ==
    ASSUME NEW texts \in Seq(Text)
    PROVE  Terminated(EncodeStrings(texts))
<1> DEFINE q == EncodeStrings(texts)
<1>1. CASE texts = <<>>
    <2>1. q = <<0, 0>>
        BY <1>1 DEF EncodeStrings
    <2> QED
        BY <2>1 DEF Terminated
<1>2. CASE texts # <<>>
    <2> DEFINE r == Concat([n \in DOMAIN texts |-> texts[n] \o <<0>>])
    <2>1. q = r \o <<0>>
        BY <1>2 DEF EncodeStrings
    <2>3. /\ r \in Seq(Nat) /\ Len(r) \in Nat /\ Len(r) >= 1 /\ r[Len(r)] = 0
          /\ \A i \in 1..(Len(r) - 1) : ~(r[i] = 0 /\ r[i+1] = 0)
        BY <1>2, TextsEnd
    <2> HIDE DEF q, r
    <2>4. /\ q \in Seq(Nat) /\ Len(q) = Len(r) + 1
          /\ (\A i \in 1..Len(r) : q[i] = r[i])
          /\ q[Len(r) + 1] = 0
        BY <2>1, <2>3, WithZero
    <2>6. q[Len(r)] = 0
        <3>1. Len(r) \in 1..Len(r)
            BY <2>3
        <3> QED
            BY <2>3, <2>4, <3>1
    <2>7. \A i \in 1..(Len(r) - 1) : ~(q[i] = 0 /\ q[i+1] = 0)
        <3>1. \A i \in 1..(Len(r) - 1) : i \in 1..Len(r) /\ i + 1 \in 1..Len(r)
            BY <2>3
        <3> QED
            BY <2>3, <2>4, <3>1
    <2>8. Len(q) - 1 = Len(r) /\ Len(q) - 2 = Len(r) - 1 /\ Len(q) >= 2
        BY <2>3, <2>4
    <2>9. Terminated(q)
        BY <2>4, <2>6, <2>7, <2>8 DEF Terminated
    <2> QED
        BY <2>9 DEF q
<1> QED
    BY <1>1, <1>2

\* The cursor passes what is terminated.
LEMMA PassesStrings ==
    ASSUME NEW b \in Seq(Nat), NEW c \in Nat, NEW q, Terminated(q), c + Len(q) <= Len(b),
           \A i \in 1..Len(q) : b[c + i] = q[i]
    PROVE  AfterStrings(b, c) = c + Len(q)
<1> DEFINE ends == {i \in c..(Len(b) - 2) : b[i+1] = 0 /\ b[i+2] = 0}
           e == c + (Len(q) - 2)
           d == CHOOSE i \in ends : \A j \in ends : i <= j
<1>1. Len(q) \in Nat /\ Len(q) >= 2 /\ Len(b) \in Nat
    BY DEF Terminated
<1>2. e \in ends
    <2>1. e \in c..(Len(b) - 2)
        BY <1>1
    <2>2. e + 1 = c + (Len(q) - 1) /\ e + 2 = c + Len(q) /\ Len(q) - 1 \in 1..Len(q) /\ Len(q) \in 1..Len(q)
        BY <1>1
    <2>3. b[e+1] = 0 /\ b[e+2] = 0
        BY <2>2 DEF Terminated
    <2> QED
        BY <2>1, <2>3
<1>3. ASSUME NEW i \in ends
      PROVE  i \in Nat /\ e <= i
    <2>1. i \in c..(Len(b) - 2) /\ b[i+1] = 0 /\ b[i+2] = 0
        OBVIOUS
    <2>2. i \in Nat /\ i >= c
        BY <1>1, <2>1
    <2>3. CASE i < e
        <3> DEFINE k == (i - c) + 1
        <3>1. k \in 1..(Len(q) - 2) /\ k \in 1..Len(q) /\ k + 1 \in 1..Len(q) /\ c + k = i + 1 /\ c + (k + 1) = i + 2
            BY <1>1, <2>2, <2>3
        <3> HIDE DEF k
        <3>2. b[c + k] = q[k] /\ b[c + (k + 1)] = q[k + 1]
            BY <3>1
        <3>3. q[k] = 0 /\ q[k + 1] = 0
            BY <2>1, <3>1, <3>2
        <3> QED
            BY <3>1, <3>3 DEF Terminated
    <2> QED
        BY <1>1, <2>2, <2>3
<1>4. AfterStrings(b, c) = IF ends = {} THEN Len(b) ELSE 2 + d
    BY DEF AfterStrings
<1> HIDE DEF ends
<1>5. d \in ends /\ \A j \in ends : d <= j
    BY <1>2, <1>3
<1> HIDE DEF d
<1>6. e \in Nat /\ d = e
    BY <1>1, <1>2, <1>3, <1>5
<1>7. AfterStrings(b, c) = 2 + d
    BY <1>2, <1>4
<1> QED
    BY <1>1, <1>6, <1>7

\* The formatted area of a structure.
LEMMA AreaLaidOut ==
    ASSUME NEW s \in Structures
    PROVE  /\ EncodeArea(s) \in Seq(Nat) /\ StructureLength(s) \in Nat
           /\ Len(EncodeArea(s)) = StructureLength(s)
           /\ StructureLength(s) >= Header /\ StructureLength(s) = Header + Len(s.body)
           /\ EncodeArea(s)[1] = s.type /\ EncodeArea(s)[2] = StructureLength(s)
           /\ \A i \in 1..Len(s.body) : EncodeArea(s)[Header + i] = s.body[i]
<1> DEFINE body == s.body
           len == StructureLength(s)
           h == <<s.type, StructureLength(s)>>
           f == [i \in 1..(Header - 2) |-> 9]
           hf == h \o f
           area == EncodeArea(s)
<1>1. s.type \in Nat /\ body \in Seq(Nat)
    BY DEF Structures
<1>2. Header \in Nat /\ Header >= 2
    BY HostAssumption
<1>3. len = Header + Len(body) /\ len \in Nat /\ len >= Header /\ Len(body) \in Nat
    <2>1. len = Header + Len(body)
        BY DEF StructureLength
    <2> HIDE DEF body, len
    <2>2. Len(body) \in Nat
        BY <1>1
    <2> QED
        BY <1>2, <2>1, <2>2
<1>4. h \in Seq(Nat) /\ Len(h) = 2 /\ h[1] = s.type /\ h[2] = len
    <2> HIDE DEF len
    <2>1. h = <<s.type, len>>
        BY DEF len
    <2> HIDE DEF h
    <2> QED
        BY <1>1, <1>3, <2>1
<1>5. f \in Seq(Nat) /\ Len(f) = Header - 2
    BY <1>2
<1>6. area = hf \o body
    BY DEF EncodeArea
<1>7. hf = h \o f
    OBVIOUS
<1> HIDE DEF h, f, hf, area, body, len
<1>8. /\ hf \in Seq(Nat) /\ Len(hf) = Len(h) + Len(f)
      /\ \A i \in 1..Len(h) : hf[i] = h[i]
    <2>1. h \in Seq(Nat) /\ f \in Seq(Nat)
        BY <1>4, <1>5
    <2> QED
        BY <1>7, <2>1, ConcatTwo
<1>9. Len(hf) = Header /\ hf[1] = s.type /\ hf[2] = len
    <2>1. 1 \in 1..Len(h) /\ 2 \in 1..Len(h)
        BY <1>4
    <2>2. hf[1] = h[1] /\ hf[2] = h[2]
        BY <1>8, <2>1
    <2>3. Len(hf) = Header
        BY <1>2, <1>4, <1>5, <1>8
    <2> QED
        BY <1>4, <2>2, <2>3
<1>10. /\ area \in Seq(Nat) /\ Len(area) = Len(hf) + Len(body)
       /\ \A i \in 1..Len(hf) : area[i] = hf[i]
       /\ \A i \in 1..Len(body) : area[Len(hf) + i] = body[i]
    <2>1. hf \in Seq(Nat) /\ body \in Seq(Nat)
        BY <1>1, <1>8
    <2> QED
        BY <1>6, <2>1, ConcatTwo
<1>11. area[1] = s.type /\ area[2] = len
    <2>1. 1 \in 1..Len(hf) /\ 2 \in 1..Len(hf)
        BY <1>2, <1>9
    <2> QED
        BY <1>9, <1>10, <2>1
<1> QED
    BY <1>3, <1>9, <1>10, <1>11 DEF area, body, len

\* Structure s in the bytes b, from c to e.
StructureAt(b, c, s, e) ==
    /\ c \in Nat /\ e \in Nat /\ c + StructureLength(s) < e /\ e <= Len(b)
    /\ b[c + 1] = s.type /\ b[c + 2] = StructureLength(s)
    /\ \A i \in 1..Len(s.body) : b[(c + Header) + i] = s.body[i]
    /\ AfterStrings(b, c + StructureLength(s)) = e

\* Where three parts end.
LEMMA Sums ==
    ASSUME NEW x \in Nat, NEW y \in Nat, NEW z \in Nat, z >= 2
    PROVE  x + y \in Nat /\ (x + y) + z = x + (y + z) /\ x + y < x + (y + z)
OBVIOUS

\* A structure where its bytes are.
LEMMA StructureEncoded ==
    ASSUME NEW s \in Structures, NEW b \in Seq(Nat), NEW c \in Nat, NEW e \in Nat, e <= Len(b),
           NEW p, p = EncodeArea(s) \o EncodeStrings(s.strings), e = c + Len(p),
           \A i \in 1..Len(p) : b[c + i] = p[i]
    PROVE  StructureAt(b, c, s, e)
<1> DEFINE a == EncodeArea(s)
           q == EncodeStrings(s.strings)
           len == StructureLength(s)
           body == s.body
<1>1. /\ a \in Seq(Nat) /\ len \in Nat /\ Len(a) = len /\ len >= Header
      /\ len = Header + Len(body) /\ a[1] = s.type /\ a[2] = len
      /\ \A i \in 1..Len(body) : a[Header + i] = body[i]
    BY AreaLaidOut
<1>2. Header \in Nat /\ Header >= 2 /\ Len(body) \in Nat
    <2>1. body \in Seq(Nat)
        BY DEF Structures
    <2> HIDE DEF body
    <2> QED
        BY <2>1, HostAssumption
<1>3. Terminated(q)
    <2>1. s.strings \in Seq(Text)
        BY DEF Structures
    <2> QED
        BY <2>1, StringsEnd
<1>4. q \in Seq(Nat) /\ Len(q) \in Nat /\ Len(q) >= 2
    BY <1>3 DEF Terminated
<1>5. p = a \o q
    OBVIOUS
<1> HIDE DEF a, q, len, body
<1>6. /\ Len(p) = len + Len(q)
      /\ \A i \in 1..len : p[i] = a[i]
      /\ \A i \in 1..Len(q) : p[len + i] = q[i]
    <2>1. /\ Len(p) = Len(a) + Len(q)
          /\ \A i \in 1..Len(a) : p[i] = a[i]
          /\ \A i \in 1..Len(q) : p[Len(a) + i] = q[i]
        <3>1. a \in Seq(Nat) /\ q \in Seq(Nat)
            BY <1>1, <1>4
        <3> QED
            BY <1>5, <3>1, ConcatTwo
    <2> QED
        BY <1>1, <2>1
<1>7. \A i \in 1..len : b[c + i] = a[i]
    <2>1. \A i \in 1..len : i \in 1..Len(p)
        BY <1>1, <1>4, <1>6
    <2> QED
        BY <1>6, <2>1
<1>8. b[c + 1] = s.type /\ b[c + 2] = len
    <2>1. 1 \in 1..len /\ 2 \in 1..len
        BY <1>1, <1>2
    <2> QED
        BY <1>1, <1>7, <2>1
<1>9. \A i \in 1..Len(body) : b[(c + Header) + i] = body[i]
    <2>1. \A i \in 1..Len(body) : Header + i \in 1..len /\ c + (Header + i) = (c + Header) + i
        BY <1>1, <1>2
    <2> QED
        BY <1>1, <1>7, <2>1
<1>10. \A i \in 1..Len(q) : b[(c + len) + i] = q[i]
    <2> DEFINE m == Len(q)
               n == Len(p)
    <2>0. len \in Nat /\ m \in Nat /\ n = len + m
        BY <1>1, <1>4, <1>6
    <2> HIDE DEF m, n
    <2>1. \A i \in 1..m : len + i \in 1..n /\ c + (len + i) = (c + len) + i
        BY <2>0
    <2> USE DEF m, n
    <2> QED
        BY <1>6, <2>1
<1>11. c + len \in Nat /\ (c + len) + Len(q) = e /\ c + len < e
    <2> DEFINE m == Len(q)
               n == Len(p)
    <2>1. len \in Nat /\ m \in Nat /\ m >= 2 /\ n = len + m /\ e = c + n
        BY <1>1, <1>4, <1>6, Zenon
    <2> HIDE DEF m, n
    <2>2. c + len \in Nat /\ (c + len) + m = c + (len + m) /\ c + len < c + (len + m)
        BY <2>1, Sums, Zenon
    <2>3. c + len \in Nat /\ (c + len) + m = e /\ c + len < e
        BY <2>1, <2>2, Zenon
    <2> QED
        BY <2>3 DEF m
<1>12. AfterStrings(b, c + len) = (c + len) + Len(q)
    BY <1>3, <1>10, <1>11, PassesStrings
<1> QED
    BY <1>8, <1>9, <1>11, <1>12 DEF StructureAt, len, body

\* The structures of a table, one after the other.
TableAt(t, b, off) ==
    /\ b \in Seq(Nat) /\ Rises(Len(t), off) /\ off[0] = 0 /\ Len(b) = off[Len(t)]
    /\ \A k \in 1..Len(t) : StructureAt(b, off[k-1], t[k], off[k])

\* Encode puts the structures one after the other.
LEMMA TableEncoded ==
    ASSUME NEW t \in Seq(Structures)
    PROVE  \E off : TableAt(t, Encode(t), off)
<1> DEFINE Nt == Len(t)
           b == Encode(t)
           h(k) == EncodeArea(t[k]) \o EncodeStrings(t[k].strings)
           l == [k \in DOMAIN t |-> h(k)]
           T == Seq(Nat)
<1>0. Nt \in Nat /\ DOMAIN t = 1..Nt /\ \A k \in 1..Nt : t[k] \in Structures
    OBVIOUS
<1>1. ASSUME NEW k \in 1..Nt
      PROVE  h(k) \in T
    <2> DEFINE x == EncodeArea(t[k])
               y == EncodeStrings(t[k].strings)
    <2>1. x \in Seq(Nat)
        BY <1>0, AreaLaidOut
    <2>2. t[k].strings \in Seq(Text)
        BY <1>0 DEF Structures
    <2>3. y \in Seq(Nat)
        BY <2>2, StringsEnd DEF Terminated
    <2> HIDE DEF x, y
    <2>4. x \o y \in Seq(Nat)
        BY <2>1, <2>3, ConcatProperties
    <2> QED
        BY <2>4 DEF x, y
<1>2. l = [k \in 1..Nt |-> h(k)]
    BY <1>0
<1>3. b = Concat(l)
    BY DEF Encode
<1> HIDE DEF h, Nt, b, T
<1>4. [k \in 1..Nt |-> h(k)] \in Seq(T) /\ Len([k \in 1..Nt |-> h(k)]) = Nt
    BY <1>0, <1>1
<1>5. \A k \in 1..Nt : l[k] = h(k)
    BY <1>2
<1> HIDE DEF l
<1>6. l \in Seq(Seq(Nat)) /\ Len(l) = Nt
    BY <1>2, <1>4 DEF T
<1>7. PICK off : Rises(Nt, off) /\ off[0] = 0 /\ Pieces(Nat, l, off, b, Nt)
    BY <1>3, <1>6, ConcatPieces
<1>8. b \in Seq(Nat) /\ Len(b) = off[Nt] /\ \A k \in 1..Nt : PieceAt(l, off, b, k)
    BY <1>7 DEF Pieces
<1>9. ASSUME NEW k \in 1..Nt
      PROVE  StructureAt(b, off[k-1], t[k], off[k])
    <2> DEFINE p == l[k]
               c == off[k-1]
               e == off[k]
               s == t[k]
    <2>1. p = EncodeArea(s) \o EncodeStrings(s.strings)
        BY <1>5 DEF h
    <2>2. e = c + Len(p) /\ \A i \in 1..Len(p) : b[c + i] = p[i]
        BY <1>8 DEF PieceAt
    <2>3. k - 1 \in 0..Nt /\ k \in 0..Nt /\ Nt \in 0..Nt /\ k <= Nt
        BY <1>0
    <2>4. c \in Nat /\ e \in Nat /\ e <= Len(b)
        BY <1>0, <1>7, <1>8, <2>3, RisesBetween DEF Rises
    <2>5. s \in Structures
        BY <1>0
    <2> HIDE DEF p, c, e, s
    <2>6. StructureAt(b, c, s, e)
        BY <1>8, <2>1, <2>2, <2>4, <2>5, StructureEncoded
    <2> QED
        BY <2>6 DEF c, e, s
<1>10. TableAt(t, b, off)
    BY <1>7, <1>8, <1>9 DEF TableAt, Nt
<1> QED
    BY <1>10 DEF b

\* A round of the loop at a structure.
LEMMA RoundAt ==
    ASSUME NEW b \in Seq(Nat), NEW s \in Structures, NEW c, NEW e, StructureAt(b, c, s, e)
    PROVE  /\ c < e /\ ~NoStructure(b, c)
           /\ SystemAt(b, c) <=> HasIdentifier(s)
           /\ HasIdentifier(s) => Round(b, c) = c
           /\ ~HasIdentifier(s) => Round(b, c) = e
<1> DEFINE len == StructureLength(s)
<1>1. len \in Nat /\ len >= Header /\ Header \in Nat /\ Header >= 2
    BY AreaLaidOut, HostAssumption
<1>2. /\ c \in Nat /\ e \in Nat /\ c + len < e /\ e <= Len(b)
      /\ b[c + 1] = s.type /\ b[c + 2] = len /\ AfterStrings(b, c + len) = e
    BY DEF StructureAt
<1>3. HasIdentifier(s) <=> s.type = 1 /\ len >= UuidLength
    BY DEF HasIdentifier
<1> HIDE DEF len
<1>4. Len(b) \in Nat
    OBVIOUS
<1>5. c < e /\ ~NoStructure(b, c)
    BY <1>1, <1>2, <1>4 DEF NoStructure
<1>6. SystemAt(b, c) <=> HasIdentifier(s)
    BY <1>2, <1>3, <1>5 DEF SystemAt
<1>7. Round(b, c) = IF SystemAt(b, c) THEN c ELSE e
    BY <1>2, <1>5 DEF Round
<1> QED
    BY <1>5, <1>6, <1>7

\* The loop stops at the first structure with an identifier, or at the end: m
\* structures come before.
LEMMA CursorStops ==
    ASSUME NEW t \in Seq(Structures), NEW b, NEW off, TableAt(t, b, off), NEW m \in 0..Len(t),
           \A k \in 1..m : ~HasIdentifier(t[k]),
           m # Len(t) => HasIdentifier(t[m+1])
    PROVE  Cursor(b) = off[m]
<1> DEFINE Nt == Len(t)
           B == Len(b)
           upTo(n) == IF n <= m THEN n ELSE m
           g == [n \in 0..B |-> off[upTo(n)]]
           after[n \in 0..Len(b)] == IF n = 0 THEN 0 ELSE Round(b, after[n-1])
<1>0. /\ Nt \in Nat /\ m \in Nat /\ m <= Nt /\ m \in 0..Nt
      /\ \A k \in 1..Nt : t[k] \in Structures
      /\ \A k \in 0..Nt : off[k] \in Nat
      /\ b \in Seq(Nat) /\ B \in Nat /\ B = off[Nt] /\ off[0] = 0
    <2>1. b \in Seq(Nat) /\ off \in [0..Len(t) -> Nat] /\ B = off[Nt] /\ off[0] = 0
        BY DEF TableAt, Rises
    <2>2. Nt \in Nat /\ m \in Nat /\ m <= Nt /\ m \in 0..Nt /\ \A k \in 1..Nt : t[k] \in Structures
        OBVIOUS
    <2>3. B \in Nat
        BY <2>1
    <2> QED
        BY <2>1, <2>2, <2>3
<1>1. ASSUME NEW k \in 1..Nt
      PROVE  /\ off[k-1] < off[k] /\ off[k-1] \in Nat /\ off[k] \in Nat
             /\ HasIdentifier(t[k]) => Round(b, off[k-1]) = off[k-1]
             /\ ~HasIdentifier(t[k]) => Round(b, off[k-1]) = off[k]
    <2>1. StructureAt(b, off[k-1], t[k], off[k])
        BY DEF TableAt
    <2>2. t[k] \in Structures
        BY <1>0
    <2>3. k - 1 \in 0..Nt /\ k \in 0..Nt
        BY <1>0
    <2> QED
        BY <1>0, <2>1, <2>2, <2>3, RoundAt
<1>2. m <= B
    <2> DEFINE A == {n \in Nat : n \in 0..Nt => n <= off[n]}
    <2> HIDE DEF Nt
    <2>1. 0 \in A
        BY <1>0
    <2>2. ASSUME NEW n \in Nat, n \in A
          PROVE  n + 1 \in A
        <3> SUFFICES ASSUME n + 1 \in 0..Nt
                     PROVE  n + 1 <= off[n+1]
            OBVIOUS
        <3>1. n \in 0..Nt /\ n + 1 \in 1..Nt /\ (n + 1) - 1 = n
            BY <1>0
        <3>2. n <= off[n]
            BY <2>2, <3>1
        <3>3. off[n] < off[n+1] /\ off[n] \in Nat /\ off[n+1] \in Nat
            BY <1>1, <3>1
        <3> QED
            BY <3>2, <3>3
    <2>3. Nat \subseteq A
        <3> HIDE DEF A
        <3> QED
            BY <2>1, <2>2, SetInduction
    <2>4. Nt \in A /\ Nt \in 0..Nt
        BY <1>0, <2>3
    <2>5. Nt <= off[Nt]
        BY <2>4
    <2> HIDE DEF B
    <2> QED
        BY <1>0, <2>5
<1>3. Round(b, off[m]) = off[m]
    <2>1. CASE m = Nt
        <3>1. off[m] = B
            BY <1>0, <2>1
        <3>2. NoStructure(b, off[m])
            <4> HIDE DEF B
            <4>1. B + Header > B
                BY <1>0, HostAssumption
            <4> QED
                BY <3>1, <4>1 DEF NoStructure, B
        <3> QED
            BY <3>2 DEF Round
    <2>2. CASE m # Nt
        <3>1. m + 1 \in 1..Nt /\ (m + 1) - 1 = m /\ HasIdentifier(t[m+1])
            BY <1>0, <2>2
        <3> QED
            BY <1>1, <3>1
    <2> QED
        BY <2>1, <2>2
<1>4. ASSUME NEW n \in 1..B
      PROVE  n # 0 /\ n - 1 \in 0..B /\ n \in 0..B /\ g[n] = Round(b, g[n-1])
    <2> HIDE DEF B, Nt
    <2>1. n \in Nat /\ n # 0 /\ n - 1 \in 0..B /\ n \in 0..B
        BY <1>0
    <2>2. g[n] = off[upTo(n)] /\ g[n-1] = off[upTo(n-1)]
        BY <2>1
    <2>3. CASE n <= m
        <3>1. upTo(n) = n /\ upTo(n-1) = n - 1 /\ n \in 1..m /\ n \in 1..Nt
            BY <1>0, <2>1, <2>3
        <3>2. Round(b, off[n-1]) = off[n]
            BY <1>1, <3>1
        <3> QED
            BY <2>1, <2>2, <3>1, <3>2
    <2>4. CASE ~(n <= m)
        <3>1. upTo(n) = m /\ upTo(n-1) = m
            BY <1>0, <2>1, <2>4
        <3> QED
            BY <1>3, <2>1, <2>2, <3>1
    <2> QED
        BY <2>3, <2>4
<1>5. g[0] = 0
    BY <1>0
<1>6. g = [n \in 0..Len(b) |-> IF n = 0 THEN 0 ELSE Round(b, g[n-1])]
    <2>1. \A n \in 0..B : n # 0 => n \in 1..B
        BY <1>0
    <2>2. \A n \in 0..B : g[n] = IF n = 0 THEN 0 ELSE Round(b, g[n-1])
        <3> HIDE DEF g, B
        <3> QED
            BY <1>4, <1>5, <2>1
    <2>3. g = [n \in 0..B |-> g[n]]
        OBVIOUS
    <2>4. [n \in 0..B |-> g[n]] = [n \in 0..B |-> IF n = 0 THEN 0 ELSE Round(b, g[n-1])]
        <3> HIDE DEF g, B
        <3> QED
            BY <2>2
    <2> HIDE DEF g
    <2> QED
        BY <2>3, <2>4
<1> HIDE DEF g
<1>7. after = [n \in 0..Len(b) |-> IF n = 0 THEN 0 ELSE Round(b, after[n-1])]
    BY <1>6
<1>8. Cursor(b) = after[B]
    BY DEF Cursor
<1> HIDE DEF after
<1>9. after[B] = g[B]
    <2> DEFINE A == {n \in Nat : n \in 0..B => after[n] = g[n]}
    <2>0. /\ after[0] = 0
          /\ \A n \in 1..B : n # 0 /\ n \in 0..B => after[n] = Round(b, after[n-1])
        BY <1>0, <1>7
    <2> HIDE DEF B
    <2>1. 0 \in A
        BY <1>5, <2>0
    <2>2. ASSUME NEW n \in Nat, n \in A
          PROVE  n + 1 \in A
        <3> SUFFICES ASSUME n + 1 \in 0..B
                     PROVE  after[n+1] = g[n+1]
            OBVIOUS
        <3>1. n \in 0..B /\ n + 1 \in 1..B /\ (n + 1) - 1 = n /\ n + 1 # 0
            BY <1>0
        <3>2. after[n] = g[n]
            BY <2>2, <3>1
        <3>3. after[n+1] = Round(b, after[n])
            BY <2>0, <3>1
        <3>4. g[n+1] = Round(b, g[n])
            BY <1>4, <3>1
        <3> QED
            BY <3>2, <3>3, <3>4
    <2>3. Nat \subseteq A
        <3> HIDE DEF A
        <3> QED
            BY <2>1, <2>2, SetInduction
    <2>4. B \in A /\ B \in 0..B
        BY <1>0, <2>3
    <2> QED
        BY <2>4
<1>10. g[B] = off[m]
    <2>1. B \in 0..B /\ upTo(B) = m
        <3> HIDE DEF B
        <3> QED
            BY <1>0, <1>2
    <2> QED
        BY <2>1 DEF g
<1> QED
    BY <1>8, <1>9, <1>10

\* The same members at another place.
LEMMA SamePart ==
    ASSUME NEW b \in Seq(Nat), NEW a \in Seq(Nat), NEW o \in Nat, NEW n \in Nat,
           n <= Len(a), o + n <= Len(b), \A i \in 1..n : b[o + i] = a[i]
    PROVE  SubSeq(b, o + 1, o + n) = SubSeq(a, 1, n)
<1> DEFINE f == o + 1
           l == o + n
           x == SubSeq(b, f, l)
           y == SubSeq(a, 1, n)
<1>0. Len(a) \in Nat /\ Len(b) \in Nat /\ f \in Int /\ l \in Int
    OBVIOUS
<1>1. \A i \in f..l : b[i] \in Nat
    <2>1. \A i \in f..l : i \in 1..Len(b)
        BY <1>0
    <2> QED
        BY <2>1
<1>2. \A i \in 1..n : a[i] \in Nat
    <2>1. \A i \in 1..n : i \in 1..Len(a)
        BY <1>0
    <2> QED
        BY <2>1
<1>3. /\ l - f + 1 = n /\ (f <= l <=> n # 0) /\ n - 1 + 1 = n /\ (1 <= n <=> n # 0)
      /\ \A i \in 1..n : f + i - 1 = o + i /\ 1 + i - 1 = i
    OBVIOUS
<1> HIDE DEF f, l
<1>4. /\ x \in Seq(Nat) /\ Len(x) = (IF f <= l THEN l - f + 1 ELSE 0)
      /\ \A i \in 1..(l - f + 1) : x[i] = b[f + i - 1]
    BY <1>0, <1>1, SubSeqProperties
<1>5. /\ y \in Seq(Nat) /\ Len(y) = (IF 1 <= n THEN n - 1 + 1 ELSE 0)
      /\ \A i \in 1..(n - 1 + 1) : y[i] = a[1 + i - 1]
    BY <1>2, SubSeqProperties
<1> HIDE DEF x, y
<1>6. Len(x) = n /\ Len(y) = n
    BY <1>3, <1>4, <1>5
<1>7. \A i \in 1..Len(x) : x[i] = y[i]
    <2>1. \A i \in 1..n : x[i] = b[o + i] /\ y[i] = a[i]
        BY <1>3, <1>4, <1>5
    <2> QED
        BY <1>6, <2>1
<1>8. x = y
    BY <1>4, <1>5, <1>6, <1>7, SeqEqual
<1> QED
    BY <1>8 DEF x, y, f, l

\* The identifier found is the one of the first structure that has one.
LEMMA IdentifierFound ==
    ASSUME table \in Seq(Structures)
    PROVE  SmbiosFaithful
<1> DEFINE t == table
           b == Encode(t)
           Nt == Len(t)
           system == {k \in DOMAIN t : HasIdentifier(t[k])}
           first == CHOOSE k \in system : \A j \in system : k <= j
           c == Cursor(b)
           parsed == parse_firmware_uuid_from_raw_smbios(b)
<1>1. PICK off : TableAt(t, b, off)
    BY TableEncoded
<1>2. /\ Nt \in Nat /\ DOMAIN t = 1..Nt /\ b \in Seq(Nat) /\ Len(b) \in Nat /\ Len(b) = off[Nt]
      /\ \A k \in 0..Nt : off[k] \in Nat
    <2>1. Nt \in Nat /\ DOMAIN t = 1..Nt
        OBVIOUS
    <2>2. b \in Seq(Nat) /\ off \in [0..Nt -> Nat] /\ Len(b) = off[Nt]
        BY <1>1 DEF TableAt, Rises
    <2> HIDE DEF b
    <2>3. Len(b) \in Nat
        BY <2>2
    <2> QED
        BY <2>1, <2>2, <2>3
<1>3. parsed = IF SystemAt(b, c) THEN SubSeq(b, c + Header + 1, c + UuidLength) ELSE <<>>
    BY DEF parse_firmware_uuid_from_raw_smbios
<1>4. SmbiosFaithful <=>
          parsed = IF system = {} THEN <<>> ELSE SubSeq(t[first].body, 1, UuidLength - Header)
    BY DEF SmbiosFaithful
<1> HIDE DEF b, parsed, c
<1>5. CASE system = {}
    <2>1. \A k \in 1..Nt : ~HasIdentifier(t[k])
        BY <1>2, <1>5
    <2>2. Nt \in 0..Nt
        BY <1>2
    <2>3. c = off[Nt]
        BY <1>1, <2>1, <2>2, CursorStops DEF c
    <2>4. NoStructure(b, c)
        <3> DEFINE B == Len(b)
        <3>1. c = B /\ B \in Nat
            BY <1>2, <2>3
        <3> HIDE DEF B
        <3>2. B + Header > B
            BY <3>1, HostAssumption
        <3> QED
            BY <3>1, <3>2 DEF NoStructure, B
    <2>5. ~SystemAt(b, c)
        BY <2>4 DEF SystemAt
    <2> QED
        BY <1>3, <1>4, <1>5, <2>5
<1>6. CASE system # {}
    <2>0. system \in SUBSET Nat /\ system \subseteq 1..Nt
        BY <1>2
    <2>1. first \in system /\ \A j \in system : first <= j
        <3> HIDE DEF system
        <3>1. \E k \in system : \A j \in system : k <= j
            BY <1>6, <2>0, NatMin
        <3> QED
            BY <3>1
    <2>2. first \in 1..Nt /\ HasIdentifier(t[first])
        BY <1>2, <2>1
    <2> DEFINE m == first - 1
               s == t[first]
               body == s.body
               len == StructureLength(s)
    <2>3. m \in 0..Nt /\ m + 1 = first /\ m \in Nat
        <3> HIDE DEF first
        <3> QED
            BY <1>2, <2>2
    <2>4. \A k \in 1..m : ~HasIdentifier(t[k])
        <3> SUFFICES ASSUME NEW k \in 1..m, HasIdentifier(t[k])
                     PROVE  FALSE
            OBVIOUS
        <3>1. k \in 1..Nt /\ ~(first <= k)
            <4> HIDE DEF first
            <4> QED
                BY <1>2, <2>2, <2>3
        <3>2. k \in system
            BY <1>2, <3>1
        <3> QED
            BY <2>1, <3>1, <3>2
    <2>5. c = off[m]
        <3>1. HasIdentifier(t[m+1])
            BY <2>2, <2>3
        <3> HIDE DEF m
        <3> QED
            BY <1>1, <2>3, <2>4, <3>1, CursorStops DEF c
    <2>6. StructureAt(b, c, s, off[first])
        <3> HIDE DEF first
        <3> QED
            BY <1>1, <2>2, <2>5 DEF TableAt
    <2>7. s \in Structures
        <3> HIDE DEF first
        <3> QED
            BY <2>2
    <2> HIDE DEF s
    <2>8. SystemAt(b, c)
        <3>1. HasIdentifier(s)
            BY <2>2 DEF s
        <3> QED
            BY <1>2, <2>6, <2>7, <3>1, RoundAt
    <2>9. /\ c \in Nat /\ c + len < off[first] /\ off[first] <= Len(b)
          /\ \A i \in 1..Len(body) : b[(c + Header) + i] = body[i]
        BY <2>6 DEF StructureAt
    <2>10. /\ len \in Nat /\ len = Header + Len(body) /\ len >= UuidLength
           /\ Header \in Nat /\ UuidLength \in Nat /\ UuidLength >= Header
        <3>1. HasIdentifier(s)
            BY <2>2 DEF s
        <3> QED
            BY <2>7, <3>1, AreaLaidOut, HostAssumption DEF HasIdentifier
    <2>11. body \in Seq(Nat)
        BY <2>7 DEF Structures
    <2>12. SubSeq(b, c + Header + 1, c + UuidLength) = SubSeq(body, 1, UuidLength - Header)
        <3> DEFINE n == UuidLength - Header
                   size == Len(body)
                   B == Len(b)
                   o == c + Header
                   e == off[first]
        <3>0. e \in Nat /\ B \in Nat /\ size \in Nat
            <4>1. first \in 0..Nt
                <5> HIDE DEF first
                <5> QED
                    BY <1>2, <2>2
            <4> HIDE DEF first, body
            <4> QED
                BY <1>2, <2>11, <4>1
        <3> HIDE DEF size, B, e, len, body
        <3>1. /\ n \in Nat /\ n <= size /\ o \in Nat /\ o + n <= B
              /\ c + Header + 1 = o + 1 /\ c + UuidLength = o + n
            <4>1. /\ c \in Nat /\ c + len < e /\ e <= B /\ len \in Nat /\ len = Header + size
                  /\ len >= UuidLength /\ Header \in Nat /\ UuidLength \in Nat /\ UuidLength >= Header
                BY <2>9, <2>10 DEF size, B, e
            <4> QED
                BY <3>0, <4>1
        <3>2. \A i \in 1..n : b[o + i] = body[i]
            <4>1. \A i \in 1..n : i \in 1..size
                BY <3>0, <3>1
            <4> QED
                BY <2>9, <4>1 DEF size
        <3> HIDE DEF n, o
        <3>3. SubSeq(b, o + 1, o + n) = SubSeq(body, 1, n)
            BY <1>2, <2>11, <3>1, <3>2, SamePart DEF B, size
        <3> QED
            BY <3>1, <3>3 DEF n
    <2> QED
        BY <1>3, <1>4, <1>6, <2>8, <2>12 DEF s
<1> QED
    BY <1>5, <1>6

-----------------------------------------------------------------------------
(* The list of users, the name of the product, power actions.              *)

\* The users are found one after the other.
LEMMA CandidatesListed ==
    ASSUME profiles \in Seq({profiles[k] : k \in DOMAIN profiles})
    PROVE  \E X : Candidates \in Seq(X)
<1> DEFINE me == [sid |-> NoSid, name |-> current]
           P == {profiles[k] : k \in DOMAIN profiles}
           X == P \cup {me}
           S == {k \in DOMAIN profiles : profiles[k].name # 0}
<1>1. S \in SUBSET (1..Len(profiles))
    OBVIOUS
<1>2. AtPlaces(profiles, S) \in Seq(P)
    <2> HIDE DEF S, P
    <2>1. profiles \in Seq(P)
        BY DEF P
    <2> QED
        BY <1>1, <2>1, Picked
<1>3. (IF current = 0 THEN <<>> ELSE <<me>>) \in Seq(X)
    <2>1. <<>> \in Seq(X) /\ me \in X
        OBVIOUS
    <2> HIDE DEF me, X
    <2>2. <<me>> \in Seq(X)
        BY <2>1
    <2> QED
        BY <2>1, <2>2
<1>4. AtPlaces(profiles, S) \in Seq(X)
    <2> HIDE DEF S, P, me
    <2> QED
        BY <1>2
<1>5. Candidates = (IF current = 0 THEN <<>> ELSE <<me>>) \o AtPlaces(profiles, S)
    BY DEF Candidates
<1> HIDE DEF X, S, P, me
<1>6. Candidates \in Seq(X)
    BY <1>3, <1>4, <1>5, ConcatProperties
<1> QED
    BY <1>6

\* Filtering while listing is filtering what is listed, and no name comes twice.
LEMMA UsersAreFiltered ==
    ASSUME profiles \in Seq({profiles[k] : k \in DOMAIN profiles})
    PROVE  UsersFiltered
<1> DEFINE C == Candidates
           first(k) == \A j \in 1..(k-1) : C[j].name # C[k].name
           S == {k \in DOMAIN C : first(k) /\ C[k] \in All}
           T == {k \in DOMAIN C : first(k) /\ C[k] \in HasSid}
           users == users_with_filter(All)
           p == InOrder(S)
<1>1. PICK X : C \in Seq(X)
    BY CandidatesListed
<1>2. users = AtPlaces(C, S) /\ users_with_filter(HasSid) = AtPlaces(C, T)
    BY DEF users_with_filter
<1>3. S \in SUBSET (1..Len(C)) /\ DOMAIN C = 1..Len(C) /\ Len(C) \in Nat
    <2> HIDE DEF C
    <2> QED
        BY <1>1
<1>4. T = {k \in S : C[k] \in HasSid}
    BY DEF HasSid
<1>5. users_with_filter(HasSid) = Filter(users, HasSid)
    <2> HIDE DEF S, T, C, users
    <2>1. Filter(AtPlaces(C, S), HasSid) = AtPlaces(C, T)
        <3>1. T \in SUBSET S /\ \A k \in S : k \in T <=> C[k] \in HasSid
            BY <1>4
        <3> QED
            BY <1>1, <1>3, <3>1, FilterPicked
    <2> QED
        BY <1>2, <2>1
<1>6. /\ p \in Seq(S) /\ Increasing(p) /\ Len(users) = Len(p) /\ users \in Seq(X)
      /\ \A i \in 1..Len(p) : p[i] \in S /\ users[i] = C[p[i]]
    <2> HIDE DEF S, C, users
    <2> QED
        BY <1>1, <1>2, <1>3, Picked
<1>7. ASSUME NEW i \in DOMAIN users, NEW j \in DOMAIN users, i < j
      PROVE  users[i].name # users[j].name
    <2> HIDE DEF users, p
    <2>1. i \in 1..Len(p) /\ j \in 1..Len(p)
        BY <1>6
    <2>2. p[i] < p[j] /\ p[i] \in S /\ p[j] \in S /\ users[i] = C[p[i]] /\ users[j] = C[p[j]]
        BY <1>6, <1>7, <2>1 DEF Increasing
    <2>3. p[i] \in 1..Len(C) /\ p[j] \in 1..Len(C) /\ first(p[j])
        <3>1. \A k \in S : first(k)
            OBVIOUS
        <3> HIDE DEF S, first
        <3> QED
            BY <1>3, <2>2, <3>1
    <2>4. p[i] \in 1..(p[j] - 1)
        <3> HIDE DEF S, C
        <3> QED
            BY <1>3, <2>2, <2>3
    <2>5. C[p[i]].name # C[p[j]].name
        <3> HIDE DEF C
        <3> QED
            BY <2>3, <2>4
    <2> HIDE DEF C
    <2> QED
        BY <2>2, <2>5
<1> QED
    BY <1>5, <1>7 DEF UsersFiltered

\* The inductive invariant: the data looked at is what Init and Look choose;
\* the token is open only between OpenProcessToken and CloseHandle, and the
\* request comes with an enabled privilege.
DataInv ==
    /\ table \in Seq(Structures)
    /\ profiles \in Seq({profiles[k] : k \in DOMAIN profiles})
    /\ version \in Versions

PowerInv ==
    /\ privilege \in [held : BOOLEAN, enabled : BOOLEAN]
    /\ power \in {"none", "open", "lookup", "adjust", "request", "direct"}
    /\ token \in BOOLEAN /\ (token = TRUE => power \in {"lookup", "adjust"})
    /\ power = "request" => privilege.enabled = TRUE
    /\ initiated \in [from : {"none", "request", "direct"}, privileged : BOOLEAN]
    /\ initiated.from = "request" => initiated.privileged = TRUE

HostInv == DataInv /\ PowerInv

\* A version to begin with.
LEMMA AVersion ==
    AnyVersion \in Versions
<1>1. PICK e \in Editions : TRUE
    BY HostAssumption
<1>2. [build |-> 19045, server |-> TRUE, edition |-> e, name |-> <<"none", "none">>] \in Versions
    BY DEF Versions, ProductNames
<1> QED
    BY <1>2 DEF AnyVersion

\* Nothing looked at yet.
LEMMA NoLists ==
    /\ <<>> \in Seq(Structures)
    /\ \A p : p = <<>> => p \in Seq({p[k] : k \in DOMAIN p})
<1>1. ASSUME NEW T
      PROVE  <<>> \in Seq(T)
    OBVIOUS
<1> QED
    BY <1>1, Zenon

\* What Look chooses from.
LEMMA TablesKnown ==
    /\ Tables \subseteq Seq(Structures)
    /\ \A p \in Profiles : p \in Seq({p[k] : k \in DOMAIN p})
BY HostAssumption DEF Structures, Text

\* The invariant holds at the beginning.
LEMMA HostInitInv ==
    ASSUME HostInit
    PROVE  HostInv
<1>1. table \in Seq(Structures) /\ profiles \in Seq({profiles[k] : k \in DOMAIN profiles})
    BY NoLists DEF HostInit
<1>2. version \in Versions
    BY AVersion DEF HostInit
<1> QED
    BY <1>1, <1>2 DEF HostInit, HostInv, DataInv, PowerInv

\* Every step keeps it.
LEMMA HostStepInv ==
    ASSUME HostInv, [HostNext]_hostVars
    PROVE  HostInv'
<1>0. DataInv /\ PowerInv
    BY DEF HostInv
<1>1. ASSUME NoData
      PROVE  DataInv'
    <2>1. table' \in Seq(Structures) /\ profiles' \in Seq({profiles'[k] : k \in DOMAIN profiles'})
        BY <1>1, NoLists DEF NoData
    <2>2. version' \in Versions
        BY <1>1, AVersion DEF NoData
    <2> QED
        BY <2>1, <2>2 DEF DataInv
<1>2. ASSUME UNCHANGED data
      PROVE  DataInv'
    BY <1>0, <1>2 DEF DataInv, data
<1>3. ASSUME Look
      PROVE  DataInv'
    <2>1. table' \in Seq(Structures)
        BY <1>3, NoLists, TablesKnown DEF Look
    <2>2. profiles' \in Seq({profiles'[k] : k \in DOMAIN profiles'})
        <3>1. profiles' = <<>> \/ profiles' \in Profiles
            BY <1>3 DEF Look
        <3> QED
            BY <3>1, NoLists, TablesKnown
    <2>3. version' \in Versions
        BY <1>3, AVersion DEF Look
    <2> QED
        BY <2>1, <2>2, <2>3 DEF DataInv
<1>4. DataInv'
    <2>1. CASE SnapshotBegin
        BY <1>1, <2>1 DEF SnapshotBegin
    <2>2. CASE \E first \in {"open", "direct"} : PowerBegin(first)
        BY <1>1, <2>2 DEF PowerBegin
    <2>3. CASE SectionRead \/ SectionFails
        BY <1>2, <2>3 DEF SectionRead, SectionFails
    <2>4. CASE PowerFails \/ OpenToken \/ LookupPrivilege \/ enable_shutdown_privilege \/ execute_power_action
        BY <1>2, <2>4 DEF PowerFails, OpenToken, LookupPrivilege, enable_shutdown_privilege, execute_power_action
    <2>5. CASE Look
        BY <1>3, <2>5
    <2>6. CASE UNCHANGED hostVars
        BY <1>2, <2>6 DEF hostVars
    <2> QED
        BY <2>1, <2>2, <2>3, <2>4, <2>5, <2>6 DEF HostNext
<1>5. PowerInv'
    <2>0. UNCHANGED powerVars => PowerInv'
        BY <1>0 DEF PowerInv, powerVars
    <2>1. CASE SnapshotBegin \/ Look
        <3>1. NoPower /\ privilege' = privilege
            BY <2>1 DEF SnapshotBegin, Look
        <3> QED
            BY <1>0, <3>1 DEF NoPower, PowerInv
    <2>2. CASE SectionRead \/ SectionFails \/ UNCHANGED hostVars
        BY <2>0, <2>2 DEF SectionRead, SectionFails, hostVars
    <2>3. ASSUME NEW first \in {"open", "direct"}, PowerBegin(first)
          PROVE  PowerInv'
        BY <1>0, <2>3 DEF PowerBegin, Quiet, PowerInv
    <2>4. CASE PowerFails
        BY <1>0, <2>4 DEF PowerFails, PowerInv
    <2>5. CASE OpenToken
        BY <1>0, <2>5 DEF OpenToken, PowerInv
    <2>6. CASE LookupPrivilege
        BY <1>0, <2>6 DEF LookupPrivilege, PowerInv
    <2>7. CASE enable_shutdown_privilege
        BY <1>0, <2>7 DEF enable_shutdown_privilege, Assigned, PowerInv
    <2>8. CASE execute_power_action
        BY <1>0, <2>8 DEF execute_power_action, PowerInv
    <2> QED
        BY <2>1, <2>2, <2>3, <2>4, <2>5, <2>6, <2>7, <2>8 DEF HostNext
<1> QED
    BY <1>4, <1>5 DEF HostInv

\* The name on Windows 11, case by case.
LEMMA NamedOnWindows11 ==
    ASSUME NEW v, NEW r, r = NameOnWindows11(v)
    PROVE  /\ v.name[1] = "Windows 10" => r[1] = "Windows 11"
           /\ v.name[1] = "none" /\ ~v.server => r[1] = "Windows 11"
<1> DEFINE other == <<IF v.server THEN "Windows Server" ELSE "Windows 11", v.edition>>
           new == <<"Windows 11", v.name[2]>>
<1>1. r = IF v.name[1] = "Windows 10" THEN new
          ELSE IF v.name[1] # "none" THEN v.name
          ELSE other
    BY Zenon DEF NameOnWindows11, is_server_installation
<1>2. new[1] = "Windows 11" /\ (~v.server => other[1] = "Windows 11")
    OBVIOUS
<1> HIDE DEF other, new
<1>3. v.name[1] = "Windows 10" => r = new
    BY <1>1, Zenon
<1>4. v.name[1] = "none" => r = other
    <2>1. "none" # "Windows 10"
        OBVIOUS
    <2> QED
        BY <1>1, <2>1, Zenon
<1> QED
    BY <1>2, <1>3, <1>4, Zenon

\* Product name and release label name the same release.
LEMMA NamesDoAgree ==
    ASSUME version \in Versions
    PROVE  NamesAgree
<1> DEFINE name == version.name
           family == name[1]
           old == version.build < 22000
           label == derive_release_label(version.build)
           r == resolve_product_name_from_registry(version)
<1>0. name \in ProductNames /\ version.build \in Int
    BY DEF Versions
<1>1. old \in BOOLEAN
    OBVIOUS
<1>2. /\ old => label = "Windows 10"
      /\ ~old => label = "Windows 11"
    BY <1>0 DEF derive_release_label
<1>3. name = <<"none", "none">> \/ name = <<"Windows 10", "Pro">> \/ name = <<"Windows Server", "Standard">>
    BY <1>0, Zenon DEF ProductNames
<1>4. /\ old => r = name
      /\ ~old => r = NameOnWindows11(version)
    BY <1>0 DEF resolve_product_name_from_registry
<1>5. NamesAgree <=> ((~version.server /\ family # "Windows Server") => r[1] \in {label, "none"})
    BY DEF NamesAgree
<1>6. family = name[1]
    OBVIOUS
<1>7. family = "none" \/ family = "Windows 10" \/ family = "Windows Server"
    <2> HIDE DEF name
    <2>1. CASE name = <<"none", "none">>
        BY <2>1
    <2>2. CASE name = <<"Windows 10", "Pro">>
        BY <2>2
    <2>3. CASE name = <<"Windows Server", "Standard">>
        BY <2>3
    <2> QED
        BY <1>3, <2>1, <2>2, <2>3
<1>8. ASSUME ~version.server, family # "Windows Server"
      PROVE  r[1] = label \/ r[1] = "none"
    <2> HIDE DEF r, label, old
    <2>1. CASE old
        <3>1. r[1] = family
            BY <1>4, <2>1
        <3> HIDE DEF family
        <3> QED
            BY <1>2, <1>7, <1>8, <2>1, <3>1
    <2>2. CASE ~old
        <3>1. /\ family = "Windows 10" => r[1] = "Windows 11"
              /\ family = "none" /\ ~version.server => r[1] = "Windows 11"
            BY <1>4, <2>2, NamedOnWindows11
        <3> HIDE DEF family
        <3> QED
            BY <1>2, <1>7, <1>8, <2>2, <3>1
    <2> QED
        BY <2>1, <2>2
<1> HIDE DEF family, old, label, r
<1> QED
    BY <1>5, <1>8

\* What the machine says of itself is read as it is written, for any firmware
\* tables, profile lists, user names and editions: the identifier of the first
\* system structure, the users filtered as they are listed, one release in
\* both names; and shutdown() and restart() ask only with the privilege
\* enabled, the token closed (system/mod.rs).
THEOREM HostIsFaithful ==
    HostSpec => []HostFaithful
<1>1. HostInit => HostInv
    BY HostInitInv
<1>2. HostInv /\ [HostNext]_hostVars => HostInv'
    BY HostStepInv
<1>3. HostInv => HostFaithful
    <2> SUFFICES ASSUME HostInv
                 PROVE  HostFaithful
        OBVIOUS
    <2>1. SmbiosFaithful
        BY IdentifierFound DEF HostInv, DataInv
    <2>2. UsersFiltered
        BY UsersAreFiltered DEF HostInv, DataInv
    <2>3. NamesAgree
        BY NamesDoAgree DEF HostInv, DataInv
    <2>4. ShutdownPrivileged
        BY DEF HostInv, PowerInv, ShutdownPrivileged
    <2> QED
        BY <2>1, <2>2, <2>3, <2>4 DEF HostFaithful
<1> QED
    BY <1>1, <1>2, <1>3, PTL DEF HostSpec
=============================================================================
