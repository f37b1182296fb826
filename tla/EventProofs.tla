---------------------------- MODULE EventProofs ----------------------------
(***************************************************************************)
(* Events: records read from event logs and trace sessions, and the        *)
(* sessions themselves.  Every record of a log is returned, refused or     *)
(* listed as corrupted exactly once and its handle closed, for any number  *)
(* of threads, any logs and any size of a batch; a record is decoded with  *)
(* the schema of its own event, for any providers and in any order of      *)
(* records and failures; a session is set up, used and torn down as a      *)
(* whole, for any set of traces and any configuration of their builders.   *)
(***************************************************************************)
EXTENDS EventLog, EtwDecode, EtwSession, NumberFacts, SequenceTheorems

-----------------------------------------------------------------------------
(* Sequences of what a call returns, and of record numbers.                *)

\* A sequence of results, each with the number of its record.
Numbered(q) == q \in Seq({q[k] : k \in DOMAIN q}) /\ \A k \in DOMAIN q : q[k].record \in Nat

\* The record numbers of a sequence of results.
Numbers(q) == [k \in DOMAIN q |-> q[k].record]

LEMMA NumberedEmpty == Numbered(<<>>) /\ Numbers(<<>>) = <<>>
BY DEF Numbered, Numbers

LEMMA NumbersType ==
    ASSUME NEW q, Numbered(q)
    PROVE  Numbers(q) \in Seq(Nat) /\ Len(Numbers(q)) = Len(q)
BY DEF Numbered, Numbers

LEMMA NumberedAppend ==
    ASSUME NEW q, Numbered(q), NEW e, e.record \in Nat
    PROVE  Numbered(Append(q, e)) /\ Numbers(Append(q, e)) = Append(Numbers(q), e.record)
<1> DEFINE S == {q[k] : k \in DOMAIN q} \cup {e}
<1>1. q \in Seq(S)
    BY DEF Numbered
<1>2. Append(q, e) \in Seq(S) /\ Len(Append(q, e)) = Len(q) + 1
    BY <1>1
<1>3. \A k \in 1..Len(q) : Append(q, e)[k] = q[k]
    BY <1>1
<1>4. Append(q, e)[Len(q) + 1] = e
    BY <1>1
<1>5. Numbered(Append(q, e))
    BY <1>1, <1>2, <1>3, <1>4 DEF Numbered
<1>6. Numbers(Append(q, e)) = Append(Numbers(q), e.record)
    <2>1. Numbers(q) \in Seq(Nat) /\ Len(Numbers(q)) = Len(q)
        BY NumbersType
    <2>2. Numbers(Append(q, e)) \in Seq(Nat) /\ Len(Numbers(Append(q, e))) = Len(q) + 1
        BY <1>2, <1>5, NumbersType
    <2>3. \A k \in 1..(Len(q) + 1) : Numbers(Append(q, e))[k] = Append(Numbers(q), e.record)[k]
        BY <1>1, <1>2, <1>3, <1>4, <2>1 DEF Numbers
    <2> QED
        BY <2>1, <2>2, <2>3
<1> QED
    BY <1>5, <1>6

\* What holds of all elements and of the one appended holds of all.
LEMMA AppendedOne ==
    ASSUME NEW q, Numbered(q), NEW e
    PROVE  \A k \in DOMAIN Append(q, e) : Append(q, e)[k] = e \/ \E l \in DOMAIN q : Append(q, e)[k] = q[l]
<1> DEFINE S == {q[k] : k \in DOMAIN q} \cup {e}
<1>1. q \in Seq(S)
    BY DEF Numbered
<1> QED
    BY <1>1

LEMMA SeqOfItsElements ==
    ASSUME NEW S, NEW r \in Seq(S)
    PROVE  r \in Seq({r[k] : k \in DOMAIN r})
<1> DEFINE T == {r[k] : k \in DOMAIN r}
<1>1. Len(r) \in Nat /\ DOMAIN r = 1..Len(r) /\ r = [k \in 1..Len(r) |-> r[k]]
    OBVIOUS
<1>2. \A k \in 1..Len(r) : r[k] \in T
    BY <1>1
<1> HIDE DEF T
<1>3. [k \in 1..Len(r) |-> r[k]] \in Seq(T)
    BY <1>1, <1>2
<1> QED
    BY <1>1, <1>3 DEF T

LEMMA NumberedConcat ==
    ASSUME NEW p, Numbered(p), NEW q, Numbered(q)
    PROVE  Numbered(p \o q)
<1> DEFINE S == {p[k] : k \in DOMAIN p} \cup {q[k] : k \in DOMAIN q}
<1>1. p \in Seq(S) /\ q \in Seq(S)
    BY DEF Numbered
<1>2. p \o q \in Seq(S) /\ Len(p \o q) = Len(p) + Len(q)
    BY <1>1
<1>3. \A k \in 1..(Len(p) + Len(q)) :
         (p \o q)[k] = IF k <= Len(p) THEN p[k] ELSE q[k - Len(p)]
    BY <1>1
<1>4. ASSUME NEW k \in DOMAIN (p \o q)
      PROVE  (p \o q)[k].record \in Nat
    <2>1. k \in 1..(Len(p) + Len(q)) /\ Len(p) \in Nat /\ Len(q) \in Nat
        BY <1>1, <1>2
    <2>2. CASE k <= Len(p)
        <3>1. k \in DOMAIN p /\ (p \o q)[k] = p[k]
            BY <1>1, <1>3, <2>1, <2>2
        <3> QED
            BY <3>1 DEF Numbered
    <2>3. CASE ~(k <= Len(p))
        <3>1. k - Len(p) \in DOMAIN q /\ (p \o q)[k] = q[k - Len(p)]
            BY <1>1, <1>3, <2>1, <2>3
        <3> QED
            BY <3>1 DEF Numbered
    <2> QED
        BY <2>2, <2>3
<1>5. p \o q \in Seq({(p \o q)[k] : k \in DOMAIN (p \o q)})
    BY <1>2, SeqOfItsElements
<1> QED
    BY <1>4, <1>5 DEF Numbered

LEMMA ConcatEmpty ==
    ASSUME NEW q, Numbered(q)
    PROVE  q \o <<>> = q
BY DEF Numbered

LEMMA ListsEmpty == Lists(<<>>, {})
BY FS_EmptySet DEF Lists

\* A number above all others extends an ordered list.
LEMMA ListsAppend ==
    ASSUME NEW q \in Seq(Nat), NEW S, IsFiniteSet(S), Lists(q, S),
           NEW n \in Nat, \A m \in S : m < n
    PROVE  Lists(Append(q, n), S \cup {n})
<1>0. n \notin S
    OBVIOUS
<1>1. Cardinality(S \cup {n}) = Cardinality(S) + 1
    BY <1>0, FS_AddElement
<1>2. Len(Append(q, n)) = Len(q) + 1 /\ \A k \in 1..Len(q) : Append(q, n)[k] = q[k]
    OBVIOUS
<1>3. Append(q, n)[Len(q) + 1] = n /\ DOMAIN Append(q, n) = 1..(Len(q) + 1)
    OBVIOUS
<1>4. {Append(q, n)[k] : k \in DOMAIN Append(q, n)} = S \cup {n}
    BY <1>2, <1>3 DEF Lists
<1>5. ASSUME NEW i \in DOMAIN Append(q, n), NEW j \in DOMAIN Append(q, n), i < j
      PROVE  Append(q, n)[i] < Append(q, n)[j]
    BY <1>2, <1>3, <1>5 DEF Lists
<1> QED
    BY <1>1, <1>2, <1>4, <1>5 DEF Lists

-----------------------------------------------------------------------------
(* The invariant of a thread's query.                                      *)

States == {"start", "idle", "ended", "failed", "channels", "items", "open", "insert"}

Tables ==
    /\ DOMAIN job = Threads /\ DOMAIN stage = Threads /\ DOMAIN pos = Threads
    /\ DOMAIN batch = Threads /\ DOMAIN out = Threads /\ DOMAIN given = Threads
    /\ DOMAIN corrupted = Threads /\ DOMAIN total = Threads

\* The batch is the last records EvtNext returned, in the log's order, without
\* those already handled.
Place(t) ==
    /\ {"kind", "log"} \subseteq DOMAIN job[t] /\ Len(job[t].log) \in Nat
    /\ pos[t] \in 0..Len(job[t].log)
    /\ batch[t] \in Seq(Nat) /\ Len(batch[t]) <= pos[t]
    /\ \A k \in 1..Len(batch[t]) : batch[t][k] = pos[t] - Len(batch[t]) + k

\* Between calls no batch is under way, and before the query nothing has
\* happened.
Phase(t) ==
    /\ stage[t] \in States
    /\ ~Busy(t) => batch[t] = <<>>
    /\ IF job[t].kind = "channels" THEN stage[t] \in {"start", "channels", "ended", "failed"}
                                   ELSE stage[t] # "channels"
    /\ stage[t] = "start" => /\ job[t].log \in Seq(DOMAIN Record) /\ pos[t] = 0
                          /\ out[t] = <<>> /\ given[t] = <<>> /\ corrupted[t] = <<>> /\ total[t] = 0

\* The handles that are open are those of the records still in the batch and
\* that of the query.
Held(t) ==
    /\ \A n \in Nat : <<t, n>> \in handles => n = 0 \/ \E k \in 1..Len(batch[t]) : n = batch[t][k]
    /\ job[t].kind = "channels" /\ stage[t] # "channels" => <<t, 0>> \notin handles

Results(t) ==
    /\ Numbered(out[t]) /\ Numbered(given[t])
    /\ corrupted[t] \in Seq(Nat) /\ total[t] \in Nat

ThreadInv(t) == Place(t) /\ Phase(t) /\ Held(t) /\ Results(t) /\ Accounted(t)

LogInv == Tables /\ \A t \in Threads : ThreadInv(t)

-----------------------------------------------------------------------------

\* What a thread knows of a record is fixed once its query is open.
LEMMA SameRecords ==
    ASSUME NEW t, job'[t] = job[t]
    PROVE  \A n : (Renders(t, Rec(t, n))' <=> Renders(t, Rec(t, n))) /\ Rec(t, n)' = Rec(t, n)
BY DEF Renders, Rec

LEMMA HandledFinite ==
    ASSUME NEW t, Place(t)
    PROVE  /\ Handled(t) = 1..(pos[t] - Len(batch[t])) /\ pos[t] - Len(batch[t]) \in Nat
           /\ IsFiniteSet(Handled(t)) /\ Cardinality(Handled(t)) = pos[t] - Len(batch[t])
           /\ IsFiniteSet(Bad(t)) /\ IsFiniteSet(Kept(t)) /\ IsFiniteSet(Want(t))
           /\ Bad(t) \subseteq Handled(t) /\ Want(t) \subseteq Handled(t)
<1>1. Handled(t) = 1..(pos[t] - Len(batch[t])) /\ pos[t] - Len(batch[t]) \in Nat
    BY DEF Handled, Place
<1>2. IsFiniteSet(Handled(t)) /\ Cardinality(Handled(t)) = pos[t] - Len(batch[t])
    BY <1>1, FS_Interval
<1>3. Bad(t) \subseteq Handled(t) /\ Kept(t) \subseteq Handled(t) /\ Want(t) \subseteq Handled(t)
    BY DEF Bad, Kept, Want
<1> QED
    BY <1>1, <1>2, <1>3, FS_Subset

\* The sets an account is about depend on the job and the place in the log.
LEMMA SameSets ==
    ASSUME NEW t, job'[t] = job[t], Handled(t)' = Handled(t)
    PROVE  Bad(t)' = Bad(t) /\ Kept(t)' = Kept(t) /\ Want(t)' = Want(t)
<1>1. Bad(t)' = Bad(t)
    BY SameRecords DEF Bad
<1>2. Kept(t)' = Kept(t)
    BY <1>1, SameRecords DEF Kept
<1> QED
    BY <1>1, <1>2 DEF Want

\* An account holds while the returned records, the corrupted ones, the count
\* and the place in the log stay.
LEMMA SameAccount ==
    ASSUME NEW t, Accounted(t), job'[t] = job[t], Handled(t)' = Handled(t),
           Returned(t)' = Returned(t), corrupted'[t] = corrupted[t], total'[t] = total[t]
    PROVE  Accounted(t)'
<1>1. Bad(t)' = Bad(t) /\ Want(t)' = Want(t)
    BY SameSets
<1>2. Delivered(t)' = Delivered(t)
    BY DEF Delivered
<1> QED
    BY <1>1, <1>2 DEF Accounted

\* A step of another thread, or of this one outside its query.
LEMMA OthersKeep ==
    ASSUME NEW t, ThreadInv(t), job'[t] = job[t], pos'[t] = pos[t], batch'[t] = batch[t],
           out'[t] = out[t], given'[t] = given[t], corrupted'[t] = corrupted[t], total'[t] = total[t],
           stage'[t] = stage[t] \/ (Busy(t) /\ Busy(t)'),
           \A n \in Nat : <<t, n>> \in handles' => <<t, n>> \in handles
    PROVE  ThreadInv(t)'
<1>1. Place(t)' /\ Results(t)'
    BY DEF ThreadInv, Place, Results
<1>2. Busy(t)' <=> Busy(t)
    BY DEF Busy
<1>3. Phase(t)'
    BY <1>2 DEF ThreadInv, Phase, Busy, States
<1>4. Held(t)'
    BY DEF ThreadInv, Held, Phase, Busy
<1>5. Accounted(t)'
    <2>1. Handled(t)' = Handled(t)
        BY DEF Handled
    <2>2. Returned(t)' = Returned(t)
        BY <1>2 DEF Returned
    <2> QED
        BY <2>1, <2>2, SameAccount DEF ThreadInv
<1> QED
    BY <1>1, <1>3, <1>4, <1>5 DEF ThreadInv

-----------------------------------------------------------------------------
(* One record is handled.                                                  *)

\* The head of the batch is the record after those already handled.
LEMMA HeadOfBatch ==
    ASSUME NEW t, Place(t), batch[t] # <<>>
    PROVE  /\ Len(batch[t]) \in Nat \ {0} /\ Head(batch[t]) = pos[t] - Len(batch[t]) + 1
           /\ Head(batch[t]) \in Nat \ {0} /\ Head(batch[t]) = batch[t][1]
           /\ Tail(batch[t]) \in Seq(Nat) /\ Len(Tail(batch[t])) = Len(batch[t]) - 1
           /\ \A k \in 1..(Len(batch[t]) - 1) : Tail(batch[t])[k] = batch[t][k + 1]
<1>1. batch[t] \in Seq(Nat) /\ Len(batch[t]) \in Nat \ {0}
    BY EmptySeq DEF Place
<1>2. Head(batch[t]) = batch[t][1]
    BY <1>1
<1>3. batch[t][1] = pos[t] - Len(batch[t]) + 1
    BY <1>1 DEF Place
<1>4. Tail(batch[t]) \in Seq(Nat) /\ Len(Tail(batch[t])) = Len(batch[t]) - 1
    BY <1>1
<1>5. \A k \in 1..(Len(batch[t]) - 1) : Tail(batch[t])[k] = batch[t][k + 1]
    BY <1>1
<1> QED
    BY <1>1, <1>2, <1>3, <1>4, <1>5 DEF Place

\* Its handle is closed and it leaves the batch.
LEMMA ItemPlace ==
    ASSUME NEW t \in Threads, Tables, ThreadInv(t), Item(t)
    PROVE  Place(t)' /\ Phase(t)' /\ Held(t)' /\ Handled(t)' = Handled(t) \cup {Head(batch[t])}
<1> DEFINE n == Head(batch[t])
           L == Len(batch[t])
<1>0. Place(t) /\ Phase(t) /\ Held(t)
    BY DEF ThreadInv
<1>1. /\ L \in Nat \ {0} /\ n = pos[t] - L + 1 /\ n \in Nat \ {0} /\ n = batch[t][1]
      /\ Tail(batch[t]) \in Seq(Nat) /\ Len(Tail(batch[t])) = L - 1
      /\ \A k \in 1..(L - 1) : Tail(batch[t])[k] = batch[t][k + 1]
    BY <1>0, HeadOfBatch DEF Item
<1>2. batch'[t] = Tail(batch[t]) /\ UNCHANGED <<job, stage, pos>> /\ handles' = handles \ {<<t, n>>}
    BY DEF Item, Tables, Closed
<1>3. stage[t] = "items"
    BY DEF Item
<1>4. \A k \in 1..L : batch[t][k] = pos[t] - L + k
    BY <1>0 DEF Place
<1>5. pos[t] \in Nat /\ L <= pos[t] /\ pos[t] <= Len(job[t].log) /\ Len(job[t].log) \in Nat
    BY <1>0 DEF Place
<1>6. \A k \in 1..(L - 1) : batch'[t][k] = pos[t] - (L - 1) + k
    BY <1>1, <1>2, <1>4, <1>5
<1>7. Place(t)'
    <2>1. batch'[t] \in Seq(Nat) /\ Len(batch'[t]) = L - 1
        BY <1>1, <1>2
    <2>2. L - 1 <= pos[t]
        BY <1>1, <1>5
    <2>3. \A k \in 1..Len(batch'[t]) : batch'[t][k] = pos[t] - Len(batch'[t]) + k
        BY <1>6, <2>1
    <2> QED
        BY <1>0, <1>2, <2>1, <2>2, <2>3 DEF Place
<1>8. Phase(t)'
    BY <1>0, <1>2, <1>3 DEF Phase, Busy
<1>9. Held(t)'
    <2>1. ASSUME NEW m \in Nat, <<t, m>> \in handles', m # 0
          PROVE  \E k \in 1..(L - 1) : m = Tail(batch[t])[k]
        <3>1. <<t, m>> \in handles /\ m # n
            BY <1>2, <2>1
        <3>2. PICK k \in 1..L : m = batch[t][k]
            BY <1>0, <2>1, <3>1 DEF Held
        <3>3. k # 1 /\ k - 1 \in 1..(L - 1)
            BY <1>1, <3>1, <3>2
        <3>4. Tail(batch[t])[k - 1] = batch[t][(k - 1) + 1]
            BY <1>1, <3>3
        <3> QED
            BY <3>2, <3>3, <3>4
    <2> QED
        BY <1>0, <1>1, <1>2, <2>1 DEF Held
<1>10. Handled(t)' = Handled(t) \cup {n}
    BY <1>1, <1>2, <1>5 DEF Handled
<1> QED
    BY <1>7, <1>8, <1>9, <1>10

\* What becomes of the sets of an account when a record is added.
LEMMA ItemSets ==
    ASSUME NEW t, NEW n, job'[t] = job[t], Handled(t)' = Handled(t) \cup {n}, n \notin Handled(t)
    PROVE  /\ Renders(t, Rec(t, n)) => Bad(t)' = Bad(t)
           /\ ~Renders(t, Rec(t, n)) => Bad(t)' = Bad(t) \cup {n} /\ Kept(t)' = Kept(t)
           /\ Renders(t, Rec(t, n)) /\ (job[t].kind # "filter" \/ Rec(t, n).kept)
                 => Kept(t)' = Kept(t) \cup {n}
           /\ Renders(t, Rec(t, n)) /\ ~(job[t].kind # "filter" \/ Rec(t, n).kept)
                 => Kept(t)' = Kept(t)
<1>1. \A m : (Renders(t, Rec(t, m))' <=> Renders(t, Rec(t, m))) /\ Rec(t, m)' = Rec(t, m)
    BY SameRecords
<1>2. Bad(t)' = {m \in Handled(t) \cup {n} : ~Renders(t, Rec(t, m))}
    BY <1>1 DEF Bad
<1>3. Kept(t)' = {m \in (Handled(t) \cup {n}) \ Bad(t)' : job[t].kind # "filter" \/ Rec(t, m).kept}
    BY <1>1 DEF Kept
<1>4. n \notin Bad(t)
    BY DEF Bad
<1>5. Renders(t, Rec(t, n)) => Bad(t)' = Bad(t)
    BY <1>2 DEF Bad
<1>6. ~Renders(t, Rec(t, n)) => Bad(t)' = Bad(t) \cup {n}
    BY <1>2 DEF Bad
<1>7. ~Renders(t, Rec(t, n)) => Kept(t)' = Kept(t)
    BY <1>3, <1>6 DEF Kept
<1>8. Renders(t, Rec(t, n)) /\ (job[t].kind # "filter" \/ Rec(t, n).kept) => Kept(t)' = Kept(t) \cup {n}
    BY <1>3, <1>4, <1>5 DEF Kept
<1>9. Renders(t, Rec(t, n)) /\ ~(job[t].kind # "filter" \/ Rec(t, n).kept) => Kept(t)' = Kept(t)
    BY <1>3, <1>5 DEF Kept
<1> QED
    BY <1>5, <1>6, <1>7, <1>8, <1>9

\* A record that is put out adds its number to what was returned.
LEMMA ItemDelivered ==
    ASSUME NEW t, Results(t), Busy(t), Busy(t)', given'[t] = given[t]
    PROVE  /\ Delivered(t) \in Seq(Nat)
           /\ out'[t] = out[t] => Delivered(t)' = Delivered(t)
           /\ \A e : e.record \in Nat /\ out'[t] = Append(out[t], e)
                       => Delivered(t)' = Append(Delivered(t), e.record) /\ Numbered(out'[t])
<1>1. Returned(t) = given[t] \o out[t] /\ Returned(t)' = given[t] \o out'[t]
    BY DEF Returned
<1>2. Delivered(t) = Numbers(Returned(t)) /\ Delivered(t)' = Numbers(Returned(t)')
    BY DEF Delivered, Numbers
<1>3. Numbered(Returned(t))
    BY <1>1, NumberedConcat DEF Results
<1>4. Delivered(t) \in Seq(Nat)
    BY <1>2, <1>3, NumbersType
<1>5. ASSUME NEW e, e.record \in Nat, out'[t] = Append(out[t], e)
      PROVE  Delivered(t)' = Append(Delivered(t), e.record) /\ Numbered(out'[t])
    <2>0. Numbered(given[t]) /\ Numbered(out[t])
        BY DEF Results
    <2>1. Returned(t)' = Append(Returned(t), e)
        <3> DEFINE S == {given[t][k] : k \in DOMAIN given[t]} \cup {out[t][k] : k \in DOMAIN out[t]} \cup {e}
        <3>1. given[t] \in Seq(S) /\ out[t] \in Seq(S) /\ e \in S
            BY <2>0 DEF Numbered
        <3> HIDE DEF S
        <3>2. ASSUME NEW p \in Seq(S), NEW q \in Seq(S)
              PROVE  p \o Append(q, e) = Append(p \o q, e)
            BY <3>1, <3>2
        <3>3. given[t] \o Append(out[t], e) = Append(given[t] \o out[t], e)
            BY <3>1, <3>2, Zenon
        <3> QED
            BY <1>1, <1>5, <3>3
    <2>2. Numbers(Append(Returned(t), e)) = Append(Numbers(Returned(t)), e.record)
        BY <1>3, <1>5, NumberedAppend
    <2>3. Numbered(Append(out[t], e))
        BY <1>5, NumberedAppend DEF Results
    <2> QED
        BY <1>2, <1>5, <2>1, <2>2, <2>3
<1> QED
    BY <1>1, <1>2, <1>4, <1>5

\* The loop's body (Item) keeps the account: next_batch_with_filter,
\* next_batch_with_results and, for the state they share, the other two.
LEMMA ItemKeeps ==
    ASSUME NEW t \in Threads, Tables, ThreadInv(t), Item(t)
    PROVE  ThreadInv(t)'
<1> DEFINE n == Head(batch[t])
           r == Rec(t, n)
           v == Verdict(t, r)
<1>0. Place(t) /\ Results(t) /\ Accounted(t)
    BY DEF ThreadInv
<1>1. Place(t)' /\ Phase(t)' /\ Held(t)' /\ Handled(t)' = Handled(t) \cup {n}
    BY ItemPlace
<1>2. n \in Nat /\ n = pos[t] - Len(batch[t]) + 1
    BY <1>0, HeadOfBatch DEF Item
<1>3. /\ Handled(t) = 1..(pos[t] - Len(batch[t])) /\ pos[t] - Len(batch[t]) \in Nat
      /\ IsFiniteSet(Handled(t)) /\ IsFiniteSet(Bad(t)) /\ IsFiniteSet(Want(t))
      /\ Bad(t) \subseteq Handled(t) /\ Want(t) \subseteq Handled(t)
    BY <1>0, HandledFinite
<1>4. n \notin Handled(t) /\ \A m \in Handled(t) : m < n
    BY <1>2, <1>3
<1>5. UNCHANGED <<job, stage, given>> /\ Busy(t) /\ Busy(t)'
    BY DEF Item, Busy
<1> DEFINE put == v \in {"event", "error"}
<1>6. put => \E e : e.record = n /\ out'[t] = Append(out[t], e)
    <2>1. CASE v = "event"
        <3>1. out'[t] = Append(out[t], [record |-> n, data |-> render_event(t, n).data])
            BY <2>1 DEF Item, Tables
        <3> QED
            BY <3>1
    <2>2. CASE v = "error"
        <3>1. out'[t] = Append(out[t], [record |-> n, data |-> {}])
            BY <2>2 DEF Item, Tables
        <3> QED
            BY <3>1
    <2> QED
        BY <2>1, <2>2
<1>7. ~put => out'[t] = out[t]
    BY DEF Item
<1>8. IF v = "corrupted" THEN corrupted'[t] = Append(corrupted[t], n) ELSE corrupted'[t] = corrupted[t]
    BY DEF Item, Tables, Corrupted
<1>9. total'[t] \in Nat /\ (job[t].kind # "deserialize" => total'[t] = total[t] + 1)
    BY <1>0 DEF Item, Tables, Results
<1>10. /\ Delivered(t) \in Seq(Nat) /\ Numbered(out'[t])
       /\ Delivered(t)' = IF put THEN Append(Delivered(t), n) ELSE Delivered(t)
    <2>1. CASE put
        <3>1. PICK e : e.record = n /\ out'[t] = Append(out[t], e)
            BY <1>6, <2>1
        <3> QED
            BY <1>0, <1>2, <1>5, <2>1, <3>1, ItemDelivered
    <2>2. CASE ~put
        BY <1>0, <1>5, <1>7, <2>2, ItemDelivered DEF Results
    <2> QED
        BY <2>1, <2>2
<1>11. Results(t)'
    <2>1. Numbered(given'[t]) /\ corrupted[t] \in Seq(Nat)
        BY <1>0, <1>5 DEF Results
    <2>2. corrupted'[t] \in Seq(Nat)
        <3>1. Append(corrupted[t], n) \in Seq(Nat)
            BY <1>2, <2>1, AppendProperties
        <3> QED
            BY <1>8, <2>1, <3>1
    <2> QED
        BY <1>9, <1>10, <2>1, <2>2 DEF Results
<1>12. ASSUME job[t].kind \in {"query", "filter", "results"}
       PROVE  /\ total'[t] = Cardinality(Handled(t)')
              /\ Lists(Delivered(t)', Want(t)')
              /\ job[t].kind # "results" => Lists(corrupted'[t], Bad(t)')
    <2>0. /\ total[t] = Cardinality(Handled(t)) /\ Lists(Delivered(t), Want(t))
          /\ job[t].kind # "results" => Lists(corrupted[t], Bad(t))
        BY <1>0, <1>12 DEF Accounted
    <2>1. total'[t] = Cardinality(Handled(t)')
        <3>1. Cardinality(Handled(t) \cup {n}) = Cardinality(Handled(t)) + 1
            BY <1>3, <1>4, FS_AddElement
        <3> QED
            BY <1>1, <1>9, <1>12, <2>0, <3>1
    <2>2. Lists(Append(Delivered(t), n), Want(t) \cup {n})
        BY <1>2, <1>3, <1>4, <1>10, <2>0, ListsAppend
    <2>3. job[t].kind # "results" => Lists(Append(corrupted[t], n), Bad(t) \cup {n})
        BY <1>0, <1>2, <1>3, <1>4, <2>0, ListsAppend DEF Results
    <2>4. /\ Renders(t, r) => Bad(t)' = Bad(t)
          /\ ~Renders(t, r) => Bad(t)' = Bad(t) \cup {n} /\ Kept(t)' = Kept(t)
          /\ Renders(t, r) /\ (job[t].kind # "filter" \/ r.kept) => Kept(t)' = Kept(t) \cup {n}
          /\ Renders(t, r) /\ ~(job[t].kind # "filter" \/ r.kept) => Kept(t)' = Kept(t)
        BY <1>1, <1>4, <1>5, ItemSets
    <2>5. CASE job[t].kind = "results"
        <3>1. put
            BY <2>5 DEF Verdict, next_batch_with_results
        <3>2. Want(t)' = Want(t) \cup {n}
            BY <1>5, <2>4, <2>5 DEF Want
        <3> QED
            BY <1>10, <2>1, <2>2, <2>5, <3>1, <3>2
    <2>6. CASE job[t].kind # "results"
        <3>1. Want(t) = Kept(t) /\ Want(t)' = Kept(t)'
            BY <1>5, <2>6 DEF Want
        <3>2. v = next_batch_with_filter(t, r)
            BY <1>12, <2>6 DEF Verdict
        <3>3. CASE ~Renders(t, r)
            <4>1. v = "corrupted"
                BY <3>2, <3>3 DEF next_batch_with_filter
            <4> QED
                BY <1>8, <1>10, <2>0, <2>1, <2>3, <2>4, <2>6, <3>1, <3>3, <4>1
        <3>4. CASE Renders(t, r) /\ (job[t].kind # "filter" \/ r.kept)
            <4>1. v = "event"
                BY <1>12, <2>6, <3>2, <3>4 DEF next_batch_with_filter
            <4> QED
                BY <1>8, <1>10, <2>0, <2>1, <2>2, <2>4, <2>6, <3>1, <3>4, <4>1
        <3>5. CASE Renders(t, r) /\ ~(job[t].kind # "filter" \/ r.kept)
            <4>1. v = "skip"
                BY <3>2, <3>5 DEF next_batch_with_filter
            <4> QED
                BY <1>8, <1>10, <2>0, <2>1, <2>4, <2>6, <3>1, <3>5, <4>1
        <3> QED
            BY <3>3, <3>4, <3>5
    <2> QED
        BY <2>5, <2>6
<1>13. Accounted(t)'
    BY <1>5, <1>12 DEF Accounted
<1> QED
    BY <1>1, <1>11, <1>13 DEF ThreadInv

-----------------------------------------------------------------------------
(* The other steps of a thread.                                            *)

\* The records an expression selects are records.
LEMMA SelectedIn ==
    ASSUME NEW S, NEW log \in Seq(S), NEW b
    PROVE  Selected(log, b) \in Seq(S)
<1> DEFINE hits == {k \in DOMAIN log : build_xpath(b, Record[log[k]])}
           nth(i) == CHOOSE k \in hits : Cardinality({j \in hits : j <= k}) = i
<1>1. DOMAIN log = 1..Len(log) /\ Len(log) \in Nat
    OBVIOUS
<1>2. Cardinality(hits) \in Nat
    <2>1. IsFiniteSet(DOMAIN log)
        BY <1>1, FS_Interval
    <2> QED
        BY <2>1, FS_Subset, FS_CardinalityType
<1>3. ASSUME NEW i \in 1..Cardinality(hits)
      PROVE  log[nth(i)] \in S
    <2>1. hits \in SUBSET (0..Len(log))
        BY <1>1
    <2> HIDE DEF hits
    <2>2. \E k \in hits : Cardinality({j \in hits : j <= k}) = i
        BY <1>1, <1>3, <2>1, RankOnto
    <2>3. nth(i) \in hits
        BY <2>2
    <2> HIDE DEF nth
    <2>4. nth(i) \in 1..Len(log)
        BY <1>1, <2>3 DEF hits
    <2>5. \A k \in 1..Len(log) : log[k] \in S
        OBVIOUS
    <2> QED
        BY <2>4, <2>5
<1>4. Selected(log, b) = [i \in 1..Cardinality(hits) |-> log[nth(i)]]
    BY DEF Selected
<1> HIDE DEF hits, nth
<1> QED
    BY <1>2, <1>3, <1>4

\* query_stream opens the query over the records the expression selects.
LEMMA QueryKeeps ==
    ASSUME NEW t \in Threads, Tables, ThreadInv(t), query_stream(t)
    PROVE  ThreadInv(t)'
<1>0. /\ Place(t) /\ Phase(t) /\ Held(t) /\ Results(t)
      /\ stage[t] = "start" /\ job[t].kind # "channels" /\ batch[t] = <<>> /\ pos[t] = 0
      /\ job[t].log \in Seq(DOMAIN Record)
      /\ out[t] = <<>> /\ given[t] = <<>> /\ corrupted[t] = <<>> /\ total[t] = 0
    BY DEF ThreadInv, query_stream, Phase, Busy
<1>1. UNCHANGED <<pos, batch, out, given, corrupted, total>>
    BY DEF query_stream
<1>2. job'[t].kind = job[t].kind /\ {"kind", "log"} \subseteq DOMAIN job'[t] /\ Len(job'[t].log) \in Nat
    <2>1. CASE job' = job
        BY <1>0, <2>1 DEF Place
    <2>2. CASE job' = [job EXCEPT ![t].log = Selected(@, job[t].builder)]
        <3>1. job'[t] = [job[t] EXCEPT !.log = Selected(job[t].log, job[t].builder)]
            BY <2>2 DEF Tables
        <3>2. {"kind", "log"} \subseteq DOMAIN job[t]
            BY <1>0 DEF Place
        <3>3. job'[t].log = Selected(job[t].log, job[t].builder)
            BY <3>1, <3>2
        <3>4. job'[t].kind = job[t].kind /\ DOMAIN job'[t] = DOMAIN job[t]
            BY <3>1, <3>2
        <3> QED
            BY <1>0, <3>2, <3>3, <3>4, SelectedIn
    <2> QED
        BY <2>1, <2>2 DEF query_stream
<1>3. stage'[t] \in {"idle", "failed"}
    BY DEF query_stream, Tables
<1>4. \A n \in Nat : <<t, n>> \in handles' => n = 0 \/ <<t, n>> \in handles
    BY DEF query_stream
<1>5. Place(t)'
    <2>1. pos'[t] = 0 /\ batch'[t] = <<>>
        BY <1>0, <1>1
    <2>2. batch'[t] \in Seq(Nat) /\ Len(batch'[t]) = 0
        BY <2>1
    <2> QED
        BY <1>2, <2>1, <2>2 DEF Place
<1>6. Phase(t)'
    BY <1>0, <1>1, <1>2, <1>3 DEF Phase, Busy, States
<1>7. Held(t)'
    BY <1>0, <1>1, <1>2, <1>4 DEF Held
<1>8. Results(t)'
    BY <1>0, <1>1 DEF Results
<1>9. Accounted(t)'
    <2>1. Handled(t)' = {}
        BY <1>0, <1>1 DEF Handled
    <2>2. Bad(t)' = {} /\ Kept(t)' = {} /\ Want(t)' = {}
        BY <2>1 DEF Bad, Kept, Want
    <2>3. Returned(t)' = <<>>
        BY <1>0, <1>1 DEF Returned
    <2>4. Delivered(t)' = <<>>
        BY <2>3 DEF Delivered
    <2> QED
        BY <1>0, <1>1, <2>1, <2>2, <2>4, ListsEmpty, FS_EmptySet DEF Accounted
<1> QED
    BY <1>5, <1>6, <1>7, <1>8, <1>9 DEF ThreadInv

\* Outside a batch a call may end, be cancelled or dropped: what was returned
\* before stays.
LEMMA RestKeeps ==
    ASSUME NEW t \in Threads, Tables, ThreadInv(t), Cancelled(t) \/ DropQuery(t)
    PROVE  ThreadInv(t)'
<1>0. Place(t) /\ Phase(t) /\ Held(t) /\ Results(t) /\ Accounted(t)
    BY DEF ThreadInv
<1>1. UNCHANGED <<job, pos, batch, given, corrupted, total>> /\ (out'[t] = out[t] \/ out'[t] = <<>>)
    BY DEF Cancelled, DropQuery, Tables
<1>2. /\ stage[t] \in {"idle", "ended", "failed"} /\ stage'[t] \in {"ended", "failed"}
      /\ job[t].kind # "channels"
    BY <1>0 DEF Cancelled, MayCall, DropQuery, Tables, Phase
<1>3. \A n \in Nat : <<t, n>> \in handles' => <<t, n>> \in handles
    BY DEF Cancelled, DropQuery
<1>4. Place(t)' /\ Results(t)'
    BY <1>0, <1>1, NumberedEmpty DEF Place, Results
<1>5. Phase(t)'
    BY <1>0, <1>1, <1>2 DEF Phase, Busy, States
<1>6. Held(t)'
    BY <1>0, <1>1, <1>2, <1>3 DEF Held
<1>7. Handled(t)' = Handled(t) /\ Returned(t)' = Returned(t)
    BY <1>1, <1>2 DEF Handled, Returned, Busy
<1>8. Accounted(t)'
    BY <1>0, <1>1, <1>7, SameAccount
<1> QED
    BY <1>4, <1>5, <1>6, <1>8 DEF ThreadInv

\* The listing of the channels has an enumeration handle and no batch.
LEMMA ChannelsKeep ==
    ASSUME NEW t \in Threads, Tables, ThreadInv(t), list_channels(t) \/ NextChannel(t)
    PROVE  ThreadInv(t)'
<1>0. Place(t) /\ Phase(t) /\ Held(t) /\ Results(t) /\ job[t].kind = "channels"
    BY DEF ThreadInv, list_channels, NextChannel, Phase
<1>1. UNCHANGED <<job, batch, out, corrupted, total>> /\ batch[t] = <<>>
    BY <1>0 DEF list_channels, NextChannel, Phase, Busy
<1>2. /\ stage[t] \in {"start", "channels"} /\ stage'[t] \in {"channels", "ended", "failed"}
      /\ pos'[t] \in 0..Len(job[t].log)
    BY <1>0 DEF list_channels, NextChannel, Tables, Place
<1>3. Numbered(given'[t])
    <2>1. CASE given'[t] = given[t]
        BY <1>0, <2>1 DEF Results
    <2>2. CASE given'[t] = Append(given[t], [record |-> pos[t] + 1, data |-> {}])
        BY <1>0, <2>2, NumberedAppend DEF Results, Place
    <2> QED
        BY <2>1, <2>2 DEF list_channels, NextChannel, Tables
<1>4. /\ \A n \in Nat : <<t, n>> \in handles' => n = 0 \/ <<t, n>> \in handles
      /\ stage'[t] # "channels" => <<t, 0>> \notin handles'
    BY <1>0 DEF list_channels, NextChannel, Tables, Held
<1>5. Place(t)'
    BY <1>0, <1>1, <1>2 DEF Place
<1>6. Phase(t)'
    BY <1>0, <1>1, <1>2 DEF Phase, Busy, States
<1>7. Held(t)'
    BY <1>0, <1>1, <1>4 DEF Held
<1>8. Results(t)'
    BY <1>0, <1>1, <1>3 DEF Results
<1>9. Accounted(t)'
    BY <1>0, <1>1 DEF Accounted
<1> QED
    BY <1>5, <1>6, <1>7, <1>8, <1>9 DEF ThreadInv

\* EvtNext: the next records become the batch, each with a handle.
LEMMA FetchKeeps ==
    ASSUME NEW t \in Threads, Tables, ThreadInv(t), Fetch(t)
    PROVE  ThreadInv(t)'
<1> DEFINE left == Len(job[t].log) - pos[t]
           n == IF left < BatchSize THEN left ELSE BatchSize
<1>0. /\ Place(t) /\ Phase(t) /\ Held(t) /\ Results(t) /\ Accounted(t)
      /\ stage[t] \in {"idle", "ended", "failed"} /\ batch[t] = <<>> /\ job[t].kind # "channels"
    BY DEF ThreadInv, Fetch, MayCall, Phase, Busy
<1>1. /\ UNCHANGED <<job, given, corrupted, total>> /\ out'[t] = <<>>
    BY DEF Fetch, Tables
<1>2. pos[t] \in Nat /\ Len(job[t].log) \in Nat /\ n \in Nat /\ pos[t] + n <= Len(job[t].log)
    BY <1>0, LogAssumption DEF Place
<1>3. Results(t)'
    BY <1>0, <1>1, NumberedEmpty DEF Results
<1>4. Returned(t)' = Returned(t)
    <2>1. Numbered(given[t])
        BY <1>0 DEF Results
    <2> QED
        BY <1>0, <1>1 DEF Returned, Busy
<1>5. CASE stage' = [stage EXCEPT ![t] = NoMoreItems(n)] /\ UNCHANGED <<pos, batch, handles>>
    <2>1. stage'[t] \in {"ended", "failed"}
        BY <1>5 DEF NoMoreItems, Tables
    <2>2. Place(t)' /\ Handled(t)' = Handled(t)
        BY <1>0, <1>1, <1>5 DEF Place, Handled
    <2>3. Phase(t)' /\ Held(t)'
        BY <1>0, <1>1, <1>5, <2>1 DEF Phase, Held, Busy, States
    <2> QED
        BY <1>0, <1>1, <1>3, <1>4, <2>2, <2>3, SameAccount DEF ThreadInv
<1>6. CASE /\ n > 0
           /\ pos' = [pos EXCEPT ![t] = @ + n]
           /\ batch' = [batch EXCEPT ![t] = [k \in 1..n |-> pos[t] + k]]
           /\ handles' = handles \cup {<<t, [k \in 1..n |-> pos[t] + k][i]>> : i \in 1..n}
           /\ stage' = [stage EXCEPT ![t] = "items"]
    <2>1. pos'[t] = pos[t] + n /\ batch'[t] = [k \in 1..n |-> pos[t] + k] /\ stage'[t] = "items"
        BY <1>6 DEF Tables
    <2>2. batch'[t] \in Seq(Nat) /\ Len(batch'[t]) = n /\ \A k \in 1..n : batch'[t][k] = pos[t] + k
        <3>1. n \in Nat /\ pos[t] \in Nat
            BY <1>2
        <3> HIDE DEF n
        <3>2. [k \in 1..n |-> pos[t] + k] \in Seq(Nat) /\ Len([k \in 1..n |-> pos[t] + k]) = n
            BY <3>1
        <3> QED
            BY <2>1, <3>2
    <2>3. Place(t)'
        <3> HIDE DEF n
        <3>1. pos'[t] \in 0..Len(job[t].log) /\ n <= pos'[t] /\ pos'[t] - n = pos[t]
            BY <1>2, <2>1
        <3>2. \A k \in 1..n : batch'[t][k] = pos'[t] - n + k
            BY <2>2, <3>1
        <3> QED
            BY <1>0, <1>1, <2>2, <3>1, <3>2 DEF Place
    <2>4. Handled(t)' = Handled(t)
        BY <1>0, <1>2, <2>1, <2>2 DEF Handled
    <2>5. Phase(t)'
        BY <1>0, <1>1, <2>1 DEF Phase, Busy, States
    <2>6. Held(t)'
        <3>1. ASSUME NEW m \in Nat, <<t, m>> \in handles'
              PROVE  m = 0 \/ \E k \in 1..n : m = batch'[t][k]
            <4>1. CASE <<t, m>> \in handles
                BY <1>0, <4>1 DEF Held
            <4>2. CASE \E i \in 1..n : m = pos[t] + i
                BY <2>2, <4>2
            <4> QED
                BY <1>6, <3>1, <4>1, <4>2
        <3> QED
            BY <1>0, <1>1, <2>2, <3>1 DEF Held
    <2> QED
        BY <1>0, <1>1, <1>3, <1>4, <2>3, <2>4, <2>5, <2>6, SameAccount DEF ThreadInv
<1> QED
    BY <1>5, <1>6 DEF Fetch

\* The call hands over what it has put out.
LEMMA ReturnKeeps ==
    ASSUME NEW t \in Threads, Tables, ThreadInv(t), Return(t)
    PROVE  ThreadInv(t)'
<1>0. /\ Place(t) /\ Phase(t) /\ Held(t) /\ Results(t) /\ Accounted(t)
      /\ stage[t] = "items" /\ batch[t] = <<>> /\ job[t].kind # "channels"
    BY DEF ThreadInv, Return, Phase
<1>1. /\ UNCHANGED <<job, pos, batch, handles, out, corrupted, total>>
      /\ given'[t] = given[t] \o out[t] /\ stage'[t] \in {"ended", "idle"}
    BY DEF Return, Tables
<1>2. Numbered(given'[t])
    BY <1>0, <1>1, NumberedConcat DEF Results
<1>3. Returned(t)' = given'[t] \o <<>> /\ Returned(t) = given[t] \o out[t]
    BY <1>0, <1>1 DEF Returned, Busy
<1>4. Returned(t)' = Returned(t) /\ Handled(t)' = Handled(t)
    BY <1>1, <1>2, <1>3, ConcatEmpty DEF Handled
<1>5. Place(t)' /\ Results(t)'
    BY <1>0, <1>1, <1>2 DEF Place, Results
<1>6. Phase(t)' /\ Held(t)'
    BY <1>0, <1>1 DEF Phase, Held, Busy, States
<1> QED
    BY <1>0, <1>1, <1>4, <1>5, <1>6, SameAccount DEF ThreadInv

\* Formatting a message changes nothing of the query.
LEMMA MessageKeeps ==
    ASSUME NEW t \in Threads, Tables, ThreadInv(t),
           FastPath(t) \/ OpenMetadata(t) \/ InsertMetadata(t) \/ FormatMessage(t)
    PROVE  ThreadInv(t)'
<1>1. UNCHANGED <<job, query>>
    BY DEF FastPath, OpenMetadata, InsertMetadata, FormatMessage
<1>2. Busy(t) /\ Busy(t)'
    BY DEF FastPath, OpenMetadata, InsertMetadata, FormatMessage, Busy, Tables
<1> QED
    BY <1>1, <1>2, OthersKeep DEF query

\* A step of one thread keeps the invariant of that thread, the tables, and
\* everything of the other threads.
LEMMA StepKeeps ==
    ASSUME NEW t \in Threads, Tables, ThreadInv(t), Step(t)
    PROVE  ThreadInv(t)'
BY ItemKeeps, QueryKeeps, RestKeeps, ChannelsKeep, FetchKeeps, ReturnKeeps, MessageKeeps DEF Step

LEMMA StepLeavesOthers ==
    ASSUME NEW t \in Threads, Tables, Step(t)
    PROVE  /\ Tables'
           /\ \A s \in Threads \ {t} :
                 /\ job'[s] = job[s] /\ stage'[s] = stage[s] /\ pos'[s] = pos[s] /\ batch'[s] = batch[s]
                 /\ out'[s] = out[s] /\ given'[s] = given[s]
                 /\ corrupted'[s] = corrupted[s] /\ total'[s] = total[s]
                 /\ \A n \in Nat : <<s, n>> \in handles' => <<s, n>> \in handles
<1> USE DEF Tables
<1>1. CASE query_stream(t)
    BY <1>1 DEF query_stream
<1>2. CASE DropQuery(t)
    BY <1>2 DEF DropQuery
<1>3. CASE list_channels(t) \/ NextChannel(t)
    BY <1>3 DEF list_channels, NextChannel
<1>4. CASE Cancelled(t)
    BY <1>4 DEF Cancelled
<1>5. CASE Fetch(t)
    BY <1>5 DEF Fetch
<1>6. CASE Item(t)
    BY <1>6 DEF Item, Closed, Corrupted
<1>7. CASE Return(t)
    BY <1>7 DEF Return
<1>8. CASE FastPath(t) \/ OpenMetadata(t) \/ InsertMetadata(t) \/ FormatMessage(t)
    BY <1>8 DEF FastPath, OpenMetadata, InsertMetadata, FormatMessage, query
<1> QED
    BY <1>1, <1>2, <1>3, <1>4, <1>5, <1>6, <1>7, <1>8 DEF Step

LEMMA LogBegins ==
    ASSUME LogInit
    PROVE  LogInv
<1>1. Tables
    BY LogAssumption DEF LogInit, Tables
<1>2. ASSUME NEW t \in Threads
      PROVE  ThreadInv(t)
    <2>1. /\ {"kind", "log"} \subseteq DOMAIN job[t] /\ job[t].log \in Seq(DOMAIN Record)
          /\ stage[t] = "start" /\ pos[t] = 0 /\ batch[t] = <<>> /\ handles = {}
          /\ out[t] = <<>> /\ given[t] = <<>> /\ corrupted[t] = <<>> /\ total[t] = 0
        BY <1>2, LogAssumption DEF LogInit
    <2>2. Place(t)
        <3>1. Len(job[t].log) \in Nat
            BY <2>1
        <3>2. batch[t] \in Seq(Nat) /\ Len(batch[t]) = 0
            BY <2>1
        <3> QED
            BY <2>1, <3>1, <3>2 DEF Place
    <2>3. Phase(t) /\ Held(t) /\ Results(t)
        BY <2>1, NumberedEmpty DEF Phase, Held, Results, Busy, States
    <2>4. Handled(t) = {}
        BY <2>1 DEF Handled
    <2>5. Bad(t) = {} /\ Want(t) = {}
        BY <2>4 DEF Bad, Kept, Want
    <2>6. Returned(t) = <<>>
        BY <2>1 DEF Returned
    <2>7. Delivered(t) = <<>>
        BY <2>6 DEF Delivered
    <2>8. Accounted(t)
        BY <2>1, <2>4, <2>5, <2>7, ListsEmpty, FS_EmptySet DEF Accounted
    <2> QED
        BY <2>2, <2>3, <2>8 DEF ThreadInv
<1> QED
    BY <1>1, <1>2 DEF LogInv

LEMMA LogStep ==
    ASSUME LogInv, [LogNext]_logVars
    PROVE  LogInv'
<1>0. Tables /\ \A t \in Threads : ThreadInv(t)
    BY DEF LogInv
<1>1. CASE Signal \/ UNCHANGED logVars
    <2>1. UNCHANGED <<job, stage, query>>
        BY <1>1 DEF Signal, logVars
    <2>2. Tables'
        BY <1>0, <2>1 DEF Tables, query
    <2>3. ASSUME NEW t \in Threads
          PROVE  ThreadInv(t)'
        BY <1>0, <2>1, <2>3, OthersKeep DEF query
    <2> QED
        BY <2>2, <2>3 DEF LogInv
<1>2. ASSUME NEW t \in Threads, Step(t)
      PROVE  LogInv'
    <2>1. Tables' /\ ThreadInv(t)'
        BY <1>0, <1>2, StepKeeps, StepLeavesOthers
    <2>2. ASSUME NEW s \in Threads \ {t}
          PROVE  ThreadInv(s)'
        <3>1. /\ job'[s] = job[s] /\ stage'[s] = stage[s] /\ pos'[s] = pos[s] /\ batch'[s] = batch[s]
              /\ out'[s] = out[s] /\ given'[s] = given[s]
              /\ corrupted'[s] = corrupted[s] /\ total'[s] = total[s]
              /\ \A n \in Nat : <<s, n>> \in handles' => <<s, n>> \in handles
            BY <1>0, <1>2, <2>2, StepLeavesOthers
        <3>2. ThreadInv(s)
            BY <1>0, <2>2
        <3> QED
            BY <3>1, <3>2, OthersKeep
    <2> QED
        BY <2>1, <2>2 DEF LogInv
<1> QED
    BY <1>1, <1>2 DEF LogNext

\* What the account says of a state.
LEMMA LogInvAccounts ==
    ASSUME LogInv
    PROVE  RecordsAccounted /\ NoHandleLeaked
<1>1. RecordsAccounted
    BY DEF LogInv, ThreadInv, RecordsAccounted
<1>2. ASSUME NEW t \in Threads, stage[t] \in {"start", "idle", "ended", "failed"},
             NEW n \in 0..Len(job[t].log), <<t, n>> \in handles
      PROVE  n = 0 /\ job[t].kind # "channels"
    <2>1. Place(t) /\ Phase(t) /\ Held(t)
        BY <1>2 DEF LogInv, ThreadInv
    <2>2. batch[t] = <<>> /\ n \in Nat
        BY <1>2, <2>1 DEF Phase, Busy, Place
    <2>3. n = 0
        BY <1>2, <2>1, <2>2 DEF Held
    <2> QED
        BY <1>2, <2>1, <2>3 DEF Held, Phase
<1> QED
    BY <1>1, <1>2 DEF NoHandleLeaked

-----------------------------------------------------------------------------
(* The data of an event.                                                   *)

\* What lies in an element at its start lies in it after it: a start tag ends
\* nothing.
LEMMA InsideNext ==
    ASSUME NEW xml, NEW j \in Nat, NEW tag, Inside(xml, j, tag), xml[j].type = "Start"
    PROVE  Inside(xml, j + 1, tag)
<1>1. PICK s \in 1..(j-1) :
         /\ xml[s].tag = tag /\ xml[s].type = "Start"
         /\ \A k \in (s+1)..(j-1) : ~(xml[k].tag = tag /\ xml[k].type = "End")
    BY DEF Inside
<1>2. s \in 1..((j+1)-1)
    OBVIOUS
<1>3. \A k \in (s+1)..((j+1)-1) : ~(xml[k].tag = tag /\ xml[k].type = "End")
    <2> TAKE k \in (s+1)..((j+1)-1)
    <2>1. k = j \/ k \in (s+1)..(j-1)
        OBVIOUS
    <2> QED
        BY <1>1, <2>1
<1> QED
    BY <1>1, <1>2, <1>3 DEF Inside

\* extract_event_data_from_xml gives the XML's own named values.
LEMMA ExtractOwn ==
    ASSUME NEW E, NEW xml \in Seq(E)
    PROVE  OwnData(xml, extract_event_data(xml))
<1> DEFINE data == extract_event_data(xml)
           size == Len(xml)
           texts == NamedTexts(xml)
           lasts == {q \in texts : \A l \in texts : xml[l[1]].name = xml[q[1]].name => l[2] <= q[2]}
<1>0. size \in Nat /\ DOMAIN xml = 1..size
    OBVIOUS
<1>1. ASSUME NEW q \in texts
      PROVE  /\ q[1] \in 1..size /\ q[2] \in 1..size /\ q[1] \in 1..(q[2]-1)
             /\ xml[q[2]].type = "Text" /\ NamedData(xml, q[1])
             /\ \A k \in (q[1]+1)..(q[2]-1) :
                   /\ ~(xml[k].type = "Start" /\ xml[k].tag = "Data")
                   /\ ~(xml[k].type = "Text" /\ Inside(xml, k, "EventData"))
    BY DEF NamedTexts, CurrentName
<1>2. ASSUME NEW d \in data
      PROVE  \E q \in lasts : d = <<xml[q[1]].name, xml[q[2]].text>>
    BY DEF extract_event_data
<1>3. ASSUME NEW q \in lasts
      PROVE  <<xml[q[1]].name, xml[q[2]].text>> \in data
    BY DEF extract_event_data
<1> HIDE DEF data
<1>4. ASSUME NEW d \in data
      PROVE  \E j \in 1..(size-1) :
                /\ NamedData(xml, j) /\ xml[j].name = d[1]
                /\ IF WholeText(xml, j) THEN xml[j+1].text = d[2]
                   ELSE \E i \in (j+1)..size :
                           /\ xml[i].type = "Text" /\ xml[i].text = d[2]
                           /\ \A k \in (j+1)..(i-1) : ~(xml[k].type = "Start" /\ xml[k].tag = "Data")
    <2>1. PICK q \in lasts : d = <<xml[q[1]].name, xml[q[2]].text>>
        BY <1>2, <1>4
    <2>2. q \in texts /\ d[1] = xml[q[1]].name /\ d[2] = xml[q[2]].text
        BY <2>1
    <2> HIDE DEF texts, lasts
    <2> DEFINE j == q[1]
               i == q[2]
    <2>3. /\ j \in Nat /\ i \in Nat /\ j \in 1..(size-1) /\ i \in (j+1)..size
          /\ NamedData(xml, j) /\ xml[j].name = d[1] /\ xml[i].type = "Text" /\ xml[i].text = d[2]
          /\ \A k \in (j+1)..(i-1) :
                /\ ~(xml[k].type = "Start" /\ xml[k].tag = "Data")
                /\ ~(xml[k].type = "Text" /\ Inside(xml, k, "EventData"))
        BY <1>0, <1>1, <2>2
    <2> HIDE DEF i, j
    <2>4. CASE WholeText(xml, j)
        <3>1. Inside(xml, j+1, "EventData") /\ xml[j+1].type = "Text"
            BY <2>3, <2>4, InsideNext DEF NamedData, WholeText
        <3>2. i = j+1
            BY <2>3, <3>1
        <3> QED
            BY <2>3, <2>4, <3>2
    <2> QED
        BY <2>3, <2>4
<1>5. ASSUME NEW d \in data, NEW e \in data, d[1] = e[1]
      PROVE  d[2] = e[2]
    <2>1. PICK p \in lasts : d = <<xml[p[1]].name, xml[p[2]].text>>
        BY <1>2, <1>5
    <2>2. PICK q \in lasts : e = <<xml[q[1]].name, xml[q[2]].text>>
        BY <1>2, <1>5
    <2>3. xml[p[1]].name = xml[q[1]].name
        BY <1>5, <2>1, <2>2
    <2>4. p[2] <= q[2] /\ q[2] <= p[2] /\ p \in texts /\ q \in texts
        BY <2>3
    <2>5. p[2] = q[2]
        BY <1>0, <1>1, <2>4
    <2> QED
        BY <2>1, <2>2, <2>5
<1>6. ASSUME NEW j \in 1..(size-1), NamedData(xml, j), WholeText(xml, j)
      PROVE  \/ <<xml[j].name, xml[j+1].text>> \in data
             \/ \E k \in (j+1)..size : NamedData(xml, k) /\ xml[k].name = xml[j].name
    <2>0. /\ j \in Nat /\ j \in 1..size /\ j+1 \in 1..size /\ j \in 1..((j+1)-1)
          /\ xml[j+1].type = "Text"
        BY <1>0, <1>6 DEF WholeText
    <2>1. Inside(xml, j, "EventData") /\ xml[j].type = "Start" /\ xml[j].tag = "Data"
        BY <1>6 DEF NamedData
    <2>2. Inside(xml, j+1, "EventData")
        BY <2>0, <2>1, InsideNext
    <2>3. j \in CurrentName(xml, j+1)
        <3>1. \A k : k \notin (j+1)..((j+1)-1)
            BY <2>0
        <3> QED
            BY <1>6, <2>0, <3>1 DEF CurrentName
    <2> DEFINE q == <<j, j+1>>
    <2>4. q \in texts /\ q[1] = j /\ q[2] = j+1
        BY <1>6, <2>0, <2>2, <2>3 DEF NamedTexts
    <2>5. CASE q \in lasts
        BY <1>3, <2>4, <2>5
    <2>6. CASE q \notin lasts
        <3>1. PICK l \in texts : xml[l[1]].name = xml[j].name /\ ~(l[2] <= j+1)
            BY <2>4, <2>6
        <3>2. /\ l[1] \in 1..size /\ l[2] \in 1..size /\ l[1] < l[2] /\ NamedData(xml, l[1])
              /\ \A k \in (l[1]+1)..(l[2]-1) :
                    /\ ~(xml[k].type = "Start" /\ xml[k].tag = "Data")
                    /\ ~(xml[k].type = "Text" /\ Inside(xml, k, "EventData"))
            BY <1>0, <1>1, <3>1
        <3>3. ~(l[1] < j)
            BY <2>0, <2>1, <3>1, <3>2
        <3>4. l[1] # j
            <4> SUFFICES ASSUME l[1] = j PROVE FALSE
                OBVIOUS
            <4>1. j+1 \in (l[1]+1)..(l[2]-1)
                BY <2>0, <3>1, <3>2
            <4> QED
                BY <2>0, <2>2, <3>2, <4>1
        <3>5. l[1] \in (j+1)..size
            BY <1>0, <2>0, <3>2, <3>3, <3>4
        <3> QED
            BY <3>1, <3>2, <3>5
    <2> QED
        BY <2>5, <2>6
<1> QED
    BY <1>4, <1>5, <1>6 DEF OwnData, data

\* What is put out carries the number of a record of the log, and its data.
CarriesOwn(t, e) ==
    /\ e.record \in 1..Len(job[t].log)
    /\ Renders(t, Rec(t, e.record)) =>
           e.data = IF job[t].data /\ job[t].format = "Xml"
                    THEN extract_event_data(Rec(t, e.record).xml) ELSE {}

AllCarry(t) ==
    job[t].log \in Seq(DOMAIN Record) /\ \A k \in DOMAIN out[t] : CarriesOwn(t, out[t][k])

DataInv == \A t \in Threads : AllCarry(t)

\* What a result carries is judged by the job alone.
LEMMA SameCarries ==
    ASSUME NEW t, job'[t] = job[t], AllCarry(t), \A k \in DOMAIN out'[t] : CarriesOwn(t, out'[t][k])
    PROVE  AllCarry(t)'
BY DEF AllCarry, CarriesOwn, Renders, Rec

\* One record: the event has its own record's data, an error none.
LEMMA ItemCarries ==
    ASSUME NEW t \in Threads, LogInv, DataInv, Item(t)
    PROVE  \A k \in DOMAIN out'[t] : CarriesOwn(t, out'[t][k])
<1> DEFINE n == Head(batch[t])
           v == Verdict(t, Rec(t, n))
<1>0. Tables /\ Place(t) /\ Numbered(out[t]) /\ job[t].log \in Seq(DOMAIN Record)
    BY DEF LogInv, ThreadInv, Results, DataInv, AllCarry
<1>1. n \in 1..Len(job[t].log)
    BY <1>0, HeadOfBatch DEF Item, Place
<1>2. job[t].log[n] \in DOMAIN Record
    BY <1>0, <1>1
<1>3. CASE v = "event"
    <2> DEFINE e == [record |-> n, data |-> render_event(t, n).data]
    <2>1. out'[t] = Append(out[t], e)
        BY <1>0, <1>3 DEF Item, Tables
    <2>2. e.data = IF job[t].data /\ job[t].format = "Xml" THEN extract_event_data(Rec(t, n).xml) ELSE {}
        BY <1>2 DEF render_event, Rendered, Rec
    <2>3. e.record = n
        OBVIOUS
    <2> HIDE DEF e
    <2>4. CarriesOwn(t, e)
        BY <1>1, <2>2, <2>3 DEF CarriesOwn
    <2> QED
        BY <1>0, <2>1, <2>4, AppendedOne DEF DataInv, AllCarry
<1>4. CASE v = "error"
    <2> DEFINE e == [record |-> n, data |-> {}]
    <2>1. out'[t] = Append(out[t], e)
        BY <1>0, <1>4 DEF Item, Tables
    <2>2. ~Renders(t, Rec(t, n))
        BY <1>4 DEF Verdict, next_batch_with_filter, next_batch_with_results,
                    next_batch_raw_with_filter, next_batch_deserialize
    <2>3. CarriesOwn(t, e)
        BY <1>1, <2>2 DEF CarriesOwn
    <2> HIDE DEF e
    <2> QED
        BY <1>0, <2>1, <2>3, AppendedOne DEF DataInv, AllCarry
<1>5. CASE v \notin {"event", "error"}
    <2>1. out' = out
        BY <1>5 DEF Item
    <2> QED
        BY <2>1 DEF DataInv, AllCarry
<1> QED
    BY <1>3, <1>4, <1>5

LEMMA DataStep ==
    ASSUME LogInv, DataInv, [LogNext]_logVars
    PROVE  DataInv'
<1>0. Tables
    BY DEF LogInv
<1>1. ASSUME NEW s \in Threads, job'[s] = job[s], out'[s] = out[s]
      PROVE  AllCarry(s)'
    BY <1>1, SameCarries DEF DataInv, AllCarry
<1>2. ASSUME NEW t \in Threads, Step(t)
      PROVE  DataInv'
    <2>1. ASSUME NEW s \in Threads \ {t}
          PROVE  AllCarry(s)'
        BY <1>0, <1>1, <1>2, <2>1, StepLeavesOthers
    <2> SUFFICES AllCarry(t)'
        BY <2>1 DEF DataInv
    <2>2. CASE query_stream(t)
        <3>1. out[t] = <<>> /\ {"kind", "log"} \subseteq DOMAIN job[t] /\ job[t].log \in Seq(DOMAIN Record)
            BY <2>2 DEF LogInv, ThreadInv, Phase, Place, query_stream
        <3>2. out'[t] = <<>>
            BY <2>2, <3>1 DEF query_stream
        <3>3. CASE job' = job
            BY <3>1, <3>2, <3>3 DEF AllCarry
        <3>4. CASE job' = [job EXCEPT ![t].log = Selected(@, job[t].builder)]
            <4>1. job'[t] = [job[t] EXCEPT !.log = Selected(job[t].log, job[t].builder)]
                BY <1>0, <3>4 DEF Tables
            <4>2. job'[t].log = Selected(job[t].log, job[t].builder)
                BY <3>1, <4>1
            <4> QED
                BY <3>1, <3>2, <4>2, SelectedIn DEF AllCarry
        <3> QED
            BY <2>2, <3>3, <3>4 DEF query_stream
    <2>3. CASE Fetch(t) \/ Cancelled(t)
        <3>1. UNCHANGED job /\ out'[t] = <<>>
            BY <1>0, <2>3 DEF Fetch, Cancelled, Tables
        <3> QED
            BY <3>1 DEF DataInv, AllCarry
    <2>4. CASE Item(t)
        <3>1. UNCHANGED job
            BY <2>4 DEF Item
        <3> QED
            BY <2>4, <3>1, ItemCarries, SameCarries DEF DataInv
    <2>5. CASE UNCHANGED <<job, out>>
        BY <1>1, <2>5
    <2> QED
        BY <1>2, <2>2, <2>3, <2>4, <2>5 DEF Step, DropQuery, list_channels, NextChannel, Return,
            FastPath, OpenMetadata, InsertMetadata, FormatMessage, query
<1> QED
    BY <1>1, <1>2 DEF LogNext, Signal, logVars, query, DataInv

\* next_batch_with_filter, next_batch_with_results, next_batch_raw_with_filter,
\* next_batch_deserialize and query(): every record fetched is returned,
\* refused by the caller's filter or listed as corrupted, once and in the
\* log's order, total_processed is their number, an event in the Xml format has
\* the named values of its own record (OwnData says what becomes of a text in
\* pieces) and one in the default format none, and no call leaves a record
\* handle open, for any number of threads, any logs and records and any size
\* of a batch.
THEOREM RecordsAreFaithful == LogSpec => []RecordsFaithful
<1>1. LogInit => LogInv /\ DataInv
    <2>1. ASSUME LogInit, NEW t \in Threads
          PROVE  job[t].log \in Seq(DOMAIN Record) /\ out[t] = <<>>
        BY <2>1, LogAssumption DEF LogInit
    <2> QED
        BY <2>1, LogBegins DEF DataInv, AllCarry
<1>2. LogInv /\ DataInv /\ [LogNext]_logVars => LogInv' /\ DataInv'
    BY LogStep, DataStep
<1>3. ASSUME LogInv, DataInv
      PROVE  RecordsFaithful
    <2>1. ASSUME NEW t \in Threads, NEW k \in DOMAIN out[t], Renders(t, Rec(t, out[t][k].record))
          PROVE  IF job[t].data /\ job[t].format = "Xml"
                 THEN OwnData(Rec(t, out[t][k].record).xml, out[t][k].data) ELSE out[t][k].data = {}
        <3> DEFINE n == out[t][k].record
        <3>1. /\ n \in 1..Len(job[t].log)
              /\ out[t][k].data = IF job[t].data /\ job[t].format = "Xml"
                                 THEN extract_event_data(Rec(t, n).xml) ELSE {}
            BY <1>3, <2>1 DEF DataInv, AllCarry, CarriesOwn
        <3>2. job[t].log[n] \in DOMAIN Record
            BY <1>3, <2>1, <3>1 DEF DataInv, AllCarry
        <3>3. Rec(t, n).xml \in Seq({Rec(t, n).xml[i] : i \in DOMAIN Rec(t, n).xml})
            BY <3>2, LogAssumption DEF Rec
        <3>4. OwnData(Rec(t, n).xml, extract_event_data(Rec(t, n).xml))
            BY <3>3, ExtractOwn
        <3> QED
            BY <3>1, <3>4
    <2>2. DataFaithful
        BY <2>1 DEF DataFaithful, Events
    <2> QED
        BY <1>3, <2>2, LogInvAccounts DEF RecordsFaithful
<1> QED
    BY <1>1, <1>2, <1>3, PTL DEF LogSpec

-----------------------------------------------------------------------------
(* The schema cache of a trace session.                                    *)

\* Under a key the cache holds the schema of an event that has this key.
OfEvent(k, schema) ==
    \E d \in Described : /\ d[2] \in DOMAIN Manifest /\ k = SchemaKey(d[1])
                         /\ schema = build_schema(Manifest[d[2]])
CacheTrue == \A k \in DOMAIN schemaCache : OfEvent(k, schemaCache[k])

\* What is delivered is described.
PendingDescribed == pending # None => <<pending.key, pending.event>> \in Described

\* The entry is made with what TDH answers for this record, and is left vacant
\* when TDH does not answer (build_schema's early return).
LEMMA RememberTrue ==
    ASSUME CacheTrue, NEW r, <<r.key, r.event>> \in Described, NEW answered \in Answers(r)
    PROVE  /\ \A k \in DOMAIN Remember(r, answered) : OfEvent(k, Remember(r, answered)[k])
           /\ answered => SchemaKey(r.key) \in DOMAIN Remember(r, answered)
<1> DEFINE key == SchemaKey(r.key)
           own == build_schema(Manifest[r.event])
<1>1. answered => OfEvent(key, own)
    <2> DEFINE d == <<r.key, r.event>>
    <2> SUFFICES ASSUME answered PROVE OfEvent(key, own)
        OBVIOUS
    <2>1. r.event \in DOMAIN Manifest
        BY DEF Answers
    <2>2. d \in Described /\ d[2] \in DOMAIN Manifest /\ key = SchemaKey(d[1]) /\ own = build_schema(Manifest[d[2]])
        BY <2>1
    <2> HIDE DEF d, key, own
    <2> QED
        BY <2>2 DEF OfEvent
<1> HIDE DEF key, own
<1>2. CASE key \in DOMAIN schemaCache \/ ~answered
    BY <1>2 DEF Remember, key, CacheTrue
<1>3. CASE ~(key \in DOMAIN schemaCache \/ ~answered)
    <2>1. Remember(r, answered) =
            [k \in DOMAIN schemaCache \cup {key} |-> IF k = key THEN own ELSE schemaCache[k]]
        BY <1>3 DEF Remember, key, own
    <2> QED
        BY <1>1, <1>3, <2>1 DEF CacheTrue, key
<1> QED
    BY <1>2, <1>3

\* apply_map_values caches only maps that were there or that TDH has.
LEMMA LoadedMapsKnown ==
    ASSUME NEW maps \in KnownMaps, NEW key, NEW props, NEW fields
    PROVE  apply_map_values(maps, key, props, fields).maps \in KnownMaps
<1> DEFINE map(i) == get_or_load_map(maps, key, props[i].map)
           names == {props[i].map : i \in {j \in DOMAIN fields : props[j].map # "" /\ map(j) # None}}
           loaded == [n \in DOMAIN maps \cup names |-> get_or_load_map(maps, key, n)]
           all == {MapsOf[k] : k \in DOMAIN MapsOf}
           allNames == {k[2] : k \in DOMAIN MapsOf}
<1>1. apply_map_values(maps, key, props, fields).maps = loaded
    BY DEF apply_map_values
<1>2. ASSUME NEW n \in DOMAIN maps
      PROVE  get_or_load_map(maps, key, n) = maps[n]
    BY <1>2 DEF get_or_load_map
<1>3. ASSUME NEW n \in names, n \notin DOMAIN maps
      PROVE  /\ <<key.provider, n>> \in DOMAIN MapsOf
             /\ get_or_load_map(maps, key, n) = MapsOf[<<key.provider, n>>]
    <2>1. get_or_load_map(maps, key, n) # None
        BY <1>3
    <2> QED
        BY <1>3, <2>1 DEF get_or_load_map
<1> HIDE DEF names
<1>4. ASSUME NEW n \in DOMAIN maps \cup names
      PROVE  \E k \in DOMAIN MapsOf : k[2] = n /\ get_or_load_map(maps, key, n) = MapsOf[k]
    <2>1. CASE n \in DOMAIN maps
        BY <1>2, <2>1 DEF KnownMaps
    <2>2. CASE n \notin DOMAIN maps
        BY <1>3, <1>4, <2>2
    <2> QED
        BY <2>1, <2>2
<1>5. DOMAIN loaded = DOMAIN maps \cup names /\ DOMAIN loaded \in SUBSET allNames
    BY <1>4
<1>6. loaded \in [DOMAIN maps \cup names -> all]
    BY <1>4
<1>7. \A n \in DOMAIN loaded : \E k \in DOMAIN MapsOf : k[2] = n /\ loaded[n] = MapsOf[k]
    BY <1>4
<1> HIDE DEF loaded
<1>8. loaded \in KnownMaps
    BY <1>5, <1>6, <1>7 DEF KnownMaps
<1> QED
    BY <1>1, <1>8

LEMMA CallbackReadsOwn ==
    ASSUME CacheTrue, mapCache \in KnownMaps, PendingDescribed, Callback
    PROVE  CacheTrue' /\ (mapCache \in KnownMaps)' /\ PendingDescribed' /\ CacheSound'
<1> DEFINE r == pending
           key == SchemaKey(r.key)
           schemas(a) == Remember(r, a)
           known(a) == key \in DOMAIN schemas(a)
           props(a) == schemas(a)[key]
           parsed(a) == IF known(a)
                        THEN apply_map_values(mapCache, r.key, props(a),
                                              parse_values(props(a), r.wrote, r.len))
                        ELSE [fields |-> None, maps |-> mapCache]
<1>1. PICK a \in Answers(r) :
         /\ schemaCache' = schemas(a) /\ mapCache' = parsed(a).maps
         /\ last' = [record |-> r, answered |-> a, fields |-> parsed(a).fields,
                     decoded |-> decode_from_record_parts(r, parsed(a).fields)]
    BY DEF Callback
<1>2. /\ \A k \in DOMAIN schemas(a) : OfEvent(k, schemas(a)[k])
      /\ a => known(a)
    <2>1. <<r.key, r.event>> \in Described
        BY DEF PendingDescribed, Callback
    <2> QED
        BY <2>1, RememberTrue
<1>3. CacheTrue' /\ PendingDescribed'
    BY <1>1, <1>2 DEF CacheTrue, OfEvent, PendingDescribed, Callback
<1>4. /\ last'.record = r /\ last'.fields = parsed(a).fields /\ (last'.answered <=> a)
    BY <1>1
<1> DEFINE Same(event) ==
               \E maps \in KnownMaps :
                   last'.fields = apply_map_values(maps, last'.record.key, build_schema(Manifest[event]),
                                      parse_values(build_schema(Manifest[event]), last'.record.wrote,
                                                   last'.record.len)).fields
<1>5. ASSUME last'.answered \/ last'.fields # None
      PROVE  /\ \E d \in Described : SameKey(d[1], last'.record.key) /\ d[2] \in DOMAIN Manifest /\ Same(d[2])
             /\ Determined(last'.record) => last'.record.event \in DOMAIN Manifest /\ Same(last'.record.event)
    <2>1. known(a)
        BY <1>2, <1>4, <1>5
    <2>2. PICK d \in Described : /\ d[2] \in DOMAIN Manifest /\ key = SchemaKey(d[1])
                                 /\ props(a) = build_schema(Manifest[d[2]])
        BY <1>2, <2>1 DEF OfEvent
    <2>3. SameKey(d[1], last'.record.key)
        BY <1>4, <2>2 DEF SchemaKey, SameKey
    <2>4. parsed(a).fields = apply_map_values(mapCache, r.key, props(a), parse_values(props(a), r.wrote, r.len)).fields
        BY <2>1
    <2>5. Same(d[2])
        BY <1>4, <2>2, <2>4
    <2>6. Determined(last'.record) => d[2] = last'.record.event
        BY <2>3 DEF Determined
    <2> HIDE DEF Same
    <2> QED
        BY <2>2, <2>3, <2>5, <2>6
<1>6. CacheSound'
    <2>1. CacheSound' <=>
             (last'.answered \/ last'.fields # None =>
                 /\ \E d \in Described : SameKey(d[1], last'.record.key) /\ d[2] \in DOMAIN Manifest /\ Same(d[2])
                 /\ Determined(last'.record) => last'.record.event \in DOMAIN Manifest /\ Same(last'.record.event))
        BY DEF CacheSound, ReadAs, Determined
    <2> HIDE DEF Same
    <2> QED
        BY <1>5, <2>1
<1>7. mapCache' \in KnownMaps
    <2>1. CASE known(a)
        BY <1>1, <2>1, LoadedMapsKnown
    <2>2. CASE ~known(a)
        BY <1>1, <2>2
    <2> QED
        BY <2>1, <2>2
<1> QED
    BY <1>3, <1>6, <1>7

\* parse_event_fields over SchemaCache: whatever was decoded, or refused by
\* TDH, before, a record TDH answers for is read, and read as if there were no
\* cache with the schema of an event of its own provider, id, opcode, version
\* and level, which is its own event where these determine it: for any
\* manifest, records and value maps.
THEOREM SchemaCacheInvisible == DecodeSpec => []CacheSound
<1>1. DecodeInit => CacheTrue /\ mapCache \in KnownMaps /\ PendingDescribed /\ CacheSound
    <2> SUFFICES ASSUME DecodeInit
                 PROVE  CacheTrue /\ mapCache \in KnownMaps /\ PendingDescribed /\ CacheSound
        OBVIOUS
    <2> DEFINE all == {MapsOf[k] : k \in DOMAIN MapsOf}
               names == {k[2] : k \in DOMAIN MapsOf}
    <2>1. mapCache = [n \in {} |-> None] /\ DOMAIN mapCache = {}
        BY DEF DecodeInit
    <2>2. mapCache \in [{} -> all]
        BY <2>1
    <2>3. mapCache \in UNION {[N -> all] : N \in SUBSET names}
        <3> HIDE DEF all, names
        <3>1. {} \in SUBSET names
            OBVIOUS
        <3> QED
            BY <2>2, <3>1
    <2>4. mapCache \in KnownMaps
        BY <2>1, <2>3 DEF KnownMaps
    <2>5. CacheTrue /\ PendingDescribed /\ CacheSound
        BY DEF DecodeInit, CacheTrue, PendingDescribed, CacheSound
    <2> QED
        BY <2>4, <2>5
<1>2. ASSUME CacheTrue, mapCache \in KnownMaps, PendingDescribed, CacheSound, [DecodeNext]_decodeVars
      PROVE  CacheTrue' /\ (mapCache \in KnownMaps)' /\ PendingDescribed' /\ CacheSound'
    <2>1. CASE Callback
        BY <1>2, <2>1, CallbackReadsOwn
    <2>2. CASE /\ UNCHANGED <<schemaCache, mapCache, last>>
               /\ \/ UNCHANGED pending
                  \/ \E r \in Records : pending' = r
                  \/ \E e \in Written : pending'.key = e.key /\ pending'.event = e.event
        <3>1. CacheTrue' /\ (mapCache \in KnownMaps)'
            BY <1>2, <2>2 DEF CacheTrue
        <3>2. CacheSound'
            BY <1>2, <2>2 DEF CacheSound, ReadAs
        <3>3. PendingDescribed'
            BY <1>2, <2>2 DEF PendingDescribed, Described
        <3> QED
            BY <3>1, <3>2, <3>3
    <2>3. ASSUME NEW e \in Written, Write(e)
          PROVE  UNCHANGED pending \/ (pending'.key = e.key /\ pending'.event = e.event)
        BY <2>3 DEF Write
    <2>4. CASE \E e \in Written : Write(e)
        BY <2>2, <2>3, <2>4 DEF Write
    <2> QED
        BY <1>2, <2>1, <2>2, <2>4 DEF DecodeNext, Register, DropProvider, Deliver, decodeVars
<1>3. CacheTrue /\ mapCache \in KnownMaps /\ PendingDescribed /\ CacheSound => CacheSound
    OBVIOUS
<1> QED
    BY <1>1, <1>2, <1>3, PTL DEF DecodeSpec

-----------------------------------------------------------------------------
(* What a record is decoded to.                                            *)

\* Declared sizes are numbers.
LEMMA DeclaredSizes ==
    ASSUME NEW p, NEW length \in Nat
    PROVE  /\ \A left, f : OutSize(p, length, left, f) \in Nat
           /\ ScalarSize(p.in) \in Nat /\ element_size_hint(p) \in Nat
<1>1. \A left, f : OutSize(p, length, left, f) \in Nat
    BY DEF OutSize
<1>2. \A in : ScalarSize(in) \in Nat
    BY DEF ScalarSize
<1>3. element_size_hint(p) \in Nat
    BY <1>2 DEF element_size_hint
<1> QED
    BY <1>1, <1>2, <1>3

\* Resolved lengths and counts are numbers (resolve_length, resolve_count).
LEMMA ResolvedNumbers ==
    ASSUME NEW p, p.length \in Nat, p.count \in Nat, NEW nums
    PROVE  resolve_length(p, nums) \in Nat /\ resolve_count(p, nums) \in Nat
<1>1. \A x \in U16 : x \in Nat
    BY DEF U16
<1> QED
    BY <1>1 DEF resolve_length, resolve_count

\* The size of an element as parse_counted_value takes it.
Element(p, length, count) ==
    IF length = 0 THEN element_size_hint(p) ELSE IF length < count THEN length ELSE 0

\* An array that arrived whole is taken whole, and none takes more than is left
\* (parse_counted_value).
LEMMA CountedFits ==
    ASSUME NEW p, NEW length \in Nat, NEW count \in Nat, NEW left \in Nat
    PROVE  /\ parse_counted_value(p, length, count, left) \in 0..left
           /\ \A size \in Nat : size > 0 /\ Element(p, length, count) * count = size /\ size <= left =>
                 parse_counted_value(p, length, count, left) = size
<1> DEFINE e == element_size_hint(p)
           x == length * count
           y == e * count
           t == parse_counted_value(p, length, count, left)
<1>1. e \in Nat
    BY DeclaredSizes
<1>2. x \in Nat /\ y \in Nat /\ (e = 0 => y = 0)
    BY <1>1
<1>3. t = LET declared == IF length >= count THEN length ELSE x
          IN  IF length > 0 /\ declared <= left THEN declared
              ELSE IF e > 0 /\ y <= left THEN y ELSE 0
    BY DEF parse_counted_value
<1>4. ASSUME NEW size \in Nat, size > 0, Element(p, length, count) * count = size, size <= left
      PROVE  (length = 0 /\ size = y) \/ (length > 0 /\ length < count /\ size = x)
    <2>1. CASE length = 0
        BY <1>4, <2>1 DEF Element
    <2>2. CASE length # 0 /\ length < count
        BY <1>4, <2>2 DEF Element
    <2>3. CASE length # 0 /\ ~(length < count)
        BY <1>4, <2>3 DEF Element
    <2> QED
        BY <2>1, <2>2, <2>3
<1> HIDE DEF x, y, e, t
<1>5. t \in 0..left
    BY <1>1, <1>2, <1>3
<1>6. ASSUME NEW size \in Nat, size > 0, Element(p, length, count) * count = size, size <= left
      PROVE  t = size
    BY <1>1, <1>2, <1>3, <1>4, <1>6
<1> QED
    BY <1>5, <1>6 DEF t

\* A value of any in-type takes at most what is left.
LEMMA InTypeFits ==
    ASSUME NEW p, NEW length \in Nat, NEW left \in Nat, NEW f, f.size \in Nat
    PROVE  parse_in_type(p, length, left, f) \in 0..left
<1> DEFINE s == ScalarSize(p.in)
           c == parse_cstr(p.in, left, f)
           d == parse_sid(left, f.size)
           blob == p.in \in MayBeBlob /\ length > s /\ length <= left
           x == parse_in_type(p, length, left, f)
<1>1. s \in Nat
    BY DeclaredSizes
<1>2. c \in 0..left
    <2>1. left % 2 \in 0..1
        OBVIOUS
    <2> QED
        BY <2>1 DEF parse_cstr
<1>3. d \in 0..left
    BY DEF parse_sid
<1>4. p.in \in {"POINTER", "SID", "UNICODESTRING", "ANSISTRING"} => s = 0 /\ p.in \notin MayBeBlob
    BY DEF ScalarSize, MayBeBlob
<1>5. CASE blob
    <2>1. x = length
        BY <1>4, <1>5 DEF parse_in_type
    <2> QED
        BY <1>5, <2>1
<1>6. CASE ~blob /\ s > 0
    <2>1. x = IF s <= left THEN s ELSE 0
        BY <1>4, <1>6 DEF parse_in_type
    <2> QED
        BY <1>1, <2>1
<1>7. CASE ~blob /\ ~(s > 0)
    <2> HIDE DEF c, d, s
    <2> QED
        BY <1>2, <1>3, <1>7 DEF parse_in_type, c, d, s
<1> QED
    BY <1>5, <1>6, <1>7

\* So does one of any out-type (parse_one_value).
LEMMA OneFits ==
    ASSUME NEW p, NEW length \in Nat, NEW left \in Nat, NEW f, f.size \in Nat
    PROVE  parse_one_value(p, length, left, f) \in 0..left
<1> DEFINE o == OutSize(p, length, left, f)
           v == parse_out_type_override(p, length, left, f)
<1>1. o \in Nat
    BY DeclaredSizes
<1>2. v \in 0..left
    <2> HIDE DEF o
    <2>1. v = IF o <= left THEN o ELSE 0
        BY DEF parse_out_type_override, o
    <2> HIDE DEF v
    <2> QED
        BY <1>1, <2>1
<1>3. parse_in_type(p, length, left, f) \in 0..left
    BY InTypeFits
<1> QED
    BY <1>2, <1>3 DEF parse_one_value

\* One value as TDH's rules lay it out: of its length if it has one.
OneLaid(p, length, f) ==
    /\ f.size \in Nat /\ f.size > 0
    /\ p.in # "POINTER" /\ length > 0 => f.size = length
    /\ p.in = "POINTER" => f.size \in {4, 8}
    /\ p.in = "UNICODESTRING" /\ length = 0 => f.size % 2 = 0

\* A value of an in-type that arrived whole is taken whole.
LEMMA InTypeWhole ==
    ASSUME NEW p, NEW length \in Nat, NEW left \in Nat, NEW f, OneLaid(p, length, f), f.size <= left,
           ~OneMisread(p, length, f), OutSize(p, length, f.size, f) = 0
    PROVE  parse_in_type(p, length, left, f) = f.size
<1> DEFINE s == ScalarSize(p.in)
           long == p.in \in MayBeBlob /\ length > s
           others == {"POINTER", "SID", "UNICODESTRING", "ANSISTRING"}
<1>1. s \in Nat
    BY DeclaredSizes
<1>2. p.in \in others => s = 0 /\ p.in \notin MayBeBlob
    BY DEF ScalarSize, MayBeBlob
<1>3. f.size \in Nat /\ (p.in # "POINTER" /\ length > 0 => f.size = length)
    BY DEF OneLaid
<1>4. /\ p.in = "ANSISTRING" => f.utf8
      /\ p.in = "UNICODESTRING" => length % 2 = 0
      /\ p.in = "POINTER" => f.size = IF length = 4 THEN 4 ELSE 8
      /\ s > 0 /\ ~long => f.size = s
      /\ s = 0 /\ length = 0 => p.in \in others
    BY DEF OneMisread
<1> HIDE DEF s
<1>5. CASE long
    <2>1. f.size = length
        BY <1>1, <1>2, <1>3, <1>5
    <2> QED
        BY <1>2, <1>5, <2>1 DEF parse_in_type, s
<1>6. CASE ~long /\ s > 0
    <2>1. f.size = s
        BY <1>4, <1>6
    <2> QED
        BY <1>1, <1>2, <1>6, <2>1 DEF parse_in_type, s
<1>7. CASE ~long /\ ~(s > 0)
    <2>1. CASE p.in = "POINTER"
        BY <1>4, <1>7, <2>1 DEF parse_in_type, s
    <2>2. CASE p.in = "SID"
        BY <1>7, <2>2 DEF parse_in_type, s, parse_sid
    <2>3. CASE p.in = "UNICODESTRING"
        <3>1. parse_in_type(p, length, left, f) =
                IF length >= 2 /\ length <= left
                THEN (IF length % 2 = 0 THEN length ELSE 0)
                ELSE parse_cstr(p.in, left, f)
            BY <1>7, <2>3 DEF parse_in_type, s
        <3>2. length = 0 => f.size % 2 = 0
            BY <2>3 DEF OneLaid
        <3>3. length % 2 = 0
            BY <1>4, <2>3
        <3>4. CASE length = 0
            BY <1>3, <2>3, <3>1, <3>2, <3>4 DEF parse_cstr
        <3>5. CASE length > 0
            <4>1. length >= 2 /\ f.size = length
                BY <1>3, <2>3, <3>3, <3>5
            <4> QED
                BY <3>1, <3>3, <4>1
        <3> QED
            BY <3>4, <3>5
    <2>4. CASE p.in = "ANSISTRING"
        <3>1. parse_in_type(p, length, left, f) =
                IF length > 0 /\ length <= left THEN (IF f.utf8 THEN length ELSE 0)
                ELSE parse_cstr(p.in, left, f)
            BY <1>7, <2>4 DEF parse_in_type, s
        <3> QED
            BY <1>3, <1>4, <2>4, <3>1 DEF parse_cstr
    <2>5. CASE p.in \notin others
        <3>1. length > 0 /\ f.size = length
            BY <1>1, <1>3, <1>4, <1>7, <2>5
        <3> QED
            BY <1>7, <2>5, <3>1 DEF parse_in_type, s
    <2> QED
        BY <2>1, <2>2, <2>3, <2>4, <2>5
<1> QED
    BY <1>5, <1>6, <1>7

\* So is one of an out-type, and it is not garbled.
LEMMA OneWhole ==
    ASSUME NEW p, NEW length \in Nat, NEW left \in Nat, NEW f, OneLaid(p, length, f), f.size <= left,
           ~OneMisread(p, length, f)
    PROVE  parse_one_value(p, length, left, f) = f.size /\ ~Garbled(p, length, left, f)
<1> DEFINE size == f.size
           whole == OutSize(p, length, size, f)
           o == OutSize(p, length, left, f)
           v == parse_out_type_override(p, length, left, f)
<1>1. whole \in Nat /\ o \in Nat /\ size \in Nat /\ size > 0
    BY DeclaredSizes DEF OneLaid
<1>2. whole \in {0, size}
    BY DEF OneMisread
<1>3. p.out # "BOOLEAN" => o = whole
    BY DEF OutSize
<1>4. p.out = "BOOLEAN" => o = whole
    <2> SUFFICES ASSUME p.out = "BOOLEAN" PROVE o = whole
        OBVIOUS
    <2>1. /\ whole = IF length >= 4 /\ length <= size THEN 4 ELSE 1
          /\ o = IF length >= 4 /\ length <= left THEN 4 ELSE 1
        BY DEF OutSize, TextOuts
    <2>2. length > 0 => size = length \/ size \in {4, 8}
        BY DEF OneLaid
    <2> HIDE DEF whole, o, size
    <2>3. size <= left
        BY DEF size
    <2> QED
        BY <1>1, <1>2, <2>1, <2>2, <2>3
<1>5. v = IF o <= left THEN o ELSE 0
    BY DEF parse_out_type_override
<1>6. o = whole
    BY <1>3, <1>4
<1>7. p.out \in TextOuts /\ length = 0 => o = 0
    BY DEF OutSize, TextOuts
<1>8. p.in = "UNICODESTRING" /\ p.out \in TextOuts => ~(length > 0)
    BY DEF OneMisread
<1>9. size <= left
    OBVIOUS
<1>10. whole = 0 => parse_in_type(p, length, left, f) = size
    BY InTypeWhole
<1>11. parse_one_value(p, length, left, f) = IF v > 0 THEN v ELSE parse_in_type(p, length, left, f)
    BY DEF parse_one_value
<1>12. Garbled(p, length, left, f) => p.in = "UNICODESTRING" /\ p.out \in TextOuts /\ v > 0
    BY DEF Garbled
<1> HIDE DEF v, o, whole, size
<1>13. parse_one_value(p, length, left, f) = size
    BY <1>1, <1>2, <1>5, <1>6, <1>9, <1>10, <1>11
<1>14. ~Garbled(p, length, left, f)
    BY <1>1, <1>5, <1>7, <1>8, <1>12
<1> QED
    BY <1>13, <1>14 DEF size

\* Where fields start: each where the one before it ends.
LEMMA StartFacts ==
    ASSUME NEW w \in Seq(Field)
    PROVE  /\ Start(w, 1) = 0
           /\ \A i \in 1..Len(w) + 1 : Start(w, i) \in Nat
           /\ \A i \in 1..Len(w) : w[i].size \in Nat /\ Start(w, i + 1) = Start(w, i) + w[i].size
<1> DEFINE N == Len(w)
           sum[n \in 0..Len(w)] == IF n = 0 THEN 0 ELSE sum[n-1] + w[n].size
           step == [n \in 1..N |-> [x \in Nat |-> x + w[n].size]]
<1>0. N \in Nat /\ \A n \in 1..N : w[n].size \in Nat
    <2> DEFINE F == Field
    <2> HIDE DEF F
    <2>1. w \in Seq(F)
        BY DEF F
    <2>2. N \in Nat /\ \A n \in 1..N : w[n] \in F
        BY <2>1
    <2> QED
        BY <2>2 DEF F, Field
<1>1. StepMaps(N, Nat, step)
    <2>1. ASSUME NEW n \in 1..N
          PROVE  [x \in Nat |-> x + w[n].size] \in [Nat -> Nat]
        <3>1. w[n].size \in Nat
            BY <1>0
        <3> QED
            BY <3>1
    <2> QED
        BY <2>1, Zenon DEF StepMaps
<1>2. PICK g : StepByStep(N, Nat, 0, step, g)
    <2> HIDE DEF step, N, sum
    <2> QED
        BY <1>0, <1>1, Recursion
<1>3. g \in [0..N -> Nat] /\ g[0] = 0
    BY <1>2 DEF StepByStep
<1>4. ASSUME NEW n \in 1..N
      PROVE  g[n] = g[n-1] + w[n].size
    <2>1. n - 1 \in 0..N
        BY <1>0
    <2>2. g[n-1] \in Nat
        BY <1>3, <2>1
    <2>3. step[n][g[n-1]] = g[n-1] + w[n].size
        BY <2>2
    <2>4. g[n] = step[n][g[n-1]]
        BY <1>2 DEF StepByStep
    <2> QED
        BY <2>3, <2>4
<1>5. g = [n \in 0..Len(w) |-> IF n = 0 THEN 0 ELSE g[n-1] + w[n].size]
    <2>1. \A n \in 0..N : n # 0 => n \in 1..N
        BY <1>0
    <2>2. \A n \in 0..N : g[n] = IF n = 0 THEN 0 ELSE g[n-1] + w[n].size
        BY <1>3, <1>4, <2>1
    <2> QED
        BY <1>3, <2>2
<1>6. sum = [n \in 0..Len(w) |-> IF n = 0 THEN 0 ELSE sum[n-1] + w[n].size]
    BY <1>5
<1>7. \A i : Start(w, i) = sum[i-1]
    BY DEF Start
<1> HIDE DEF sum, N, step
<1>8. sum[0] = 0 /\ \A n \in 1..N : sum[n] = sum[n-1] + w[n].size
    <2>1. 0 \in 0..N /\ \A n \in 1..N : n \in 0..N /\ n # 0
        BY <1>0
    <2> QED
        BY <1>6, <2>1 DEF N
<1> DEFINE A == {n \in Nat : n \in 0..N => sum[n] \in Nat}
<1>9. 0 \in A
    BY <1>8
<1>10. ASSUME NEW n \in Nat, n \in A
       PROVE  n + 1 \in A
    <2> SUFFICES ASSUME n + 1 \in 0..N
                 PROVE  sum[n+1] \in Nat
        OBVIOUS
    <2>1. n \in 0..N /\ n + 1 \in 1..N /\ (n + 1) - 1 = n
        BY <1>0
    <2>2. sum[n] \in Nat /\ sum[n+1] = sum[n] + w[n+1].size /\ w[n+1].size \in Nat
        BY <1>0, <1>8, <1>10, <2>1
    <2> QED
        BY <2>2
<1>11. \A n \in 0..N : sum[n] \in Nat
    <2>1. Nat \subseteq A
        <3> HIDE DEF A
        <3> QED
            BY <1>9, <1>10, SetInduction
    <2> QED
        BY <1>0, <2>1
<1>12. Start(w, 1) = 0
    BY <1>7, <1>8
<1>13. ASSUME NEW i \in 1..N + 1
       PROVE  Start(w, i) \in Nat
    <2>1. i - 1 \in 0..N
        BY <1>0
    <2> QED
        BY <1>7, <1>11, <2>1
<1>14. ASSUME NEW i \in 1..N
       PROVE  w[i].size \in Nat /\ Start(w, i + 1) = Start(w, i) + w[i].size
    <2>1. (i + 1) - 1 = i
        BY <1>0
    <2> QED
        BY <1>0, <1>7, <1>8, <2>1
<1> QED
    BY <1>12, <1>13, <1>14 DEF N

\* A payload and the schema its description is made into.
Schema(e, props, w, ptr) == props = build_schema(e) /\ Conforms(e, w, ptr)

\* A schema has a property for each field.
LEMMA SchemaFacts ==
    ASSUME NEW e, NEW props, NEW w, NEW ptr, Schema(e, props, w, ptr)
    PROVE  /\ w \in Seq(Field) /\ Len(props) = Len(w) /\ DOMAIN props = DOMAIN w
           /\ \A i \in DOMAIN w : /\ props[i].length \in Nat /\ props[i].count \in Nat
                                   /\ props[i].in = e[i].in
<1>1. props = build_schema(e) /\ w \in Seq(Field) /\ Len(props) = Len(w) /\ DOMAIN e = DOMAIN w
    BY DEF Schema, Conforms
<1>2. DOMAIN props = DOMAIN w
    BY <1>1 DEF build_schema
<1>3. ASSUME NEW i \in DOMAIN w
      PROVE  props[i].length \in Nat /\ props[i].count \in Nat /\ props[i].in = e[i].in
    <2>1. e[i].length \in Nat /\ e[i].count \in Nat
        BY DEF Schema, Conforms, Laid
    <2> QED
        BY <1>1, <2>1 DEF build_schema
<1> QED
    BY <1>1, <1>2, <1>3

\* The fields are fields, the description's too.
LEMMA FieldFacts ==
    ASSUME NEW w \in Seq(Field)
    PROVE  /\ DOMAIN w = 1..Len(w) /\ Len(w) \in Nat
           /\ \A i \in 1..Len(w) : w[i] \in Field /\ w[i].size \in Nat /\ w[i].num \in Int
<1> DEFINE F == Field
<1> HIDE DEF F
<1>1. w \in Seq(F)
    BY DEF F
<1>2. DOMAIN w = 1..Len(w) /\ Len(w) \in Nat /\ \A i \in 1..Len(w) : w[i] \in F
    BY <1>1
<1>3. \A f \in F : f.size \in Nat /\ f.num \in Int
    BY DEF F, Field
<1> QED
    BY <1>2, <1>3 DEF F

\* What the walk keeps: fields of these places, names and values.
Found(props, w) ==
    [at : Nat, name : {props[i].name : i \in 1..Len(w)}, num : Int,
     value : {w[i] : i \in 1..Len(w)} \cup {Garbage}]
Acc(props, w) == [offset : Nat, done : BOOLEAN, nums : Seq(Int), fields : Seq(Found(props, w))]
NoneYet == [offset |-> 0, done |-> FALSE, nums |-> <<>>, fields |-> <<>>]

\* How many bytes a round takes, and what it makes of them.
Taken(props, w, len, acc, i) ==
    LET p == props[i]
        left == len - acc.offset
        count == resolve_count(p, acc.nums)
        length == resolve_length(p, acc.nums)
    IN  IF count > 1 THEN parse_counted_value(p, length, count, left)
        ELSE parse_one_value(p, length, left, At(w, i, acc.offset))
Value(props, w, len, acc, i) ==
    IF /\ resolve_count(props[i], acc.nums) <= 1
       /\ Garbled(props[i], resolve_length(props[i], acc.nums), len - acc.offset, At(w, i, acc.offset))
    THEN Garbage
    ELSE Read(w, i, acc.offset, Taken(props, w, len, acc, i))
Number(props, w, len, acc, i) ==
    extract_numeric_value(props[i], resolve_length(props[i], acc.nums),
                          resolve_count(props[i], acc.nums), Value(props, w, len, acc, i))
Stops(props, w, len, acc, i) ==
    acc.done \/ len - acc.offset <= 0 \/ Taken(props, w, len, acc, i) = 0
Entry(props, w, len, acc, i) ==
    [at |-> acc.offset, name |-> props[i].name, num |-> Number(props, w, len, acc, i),
     value |-> Value(props, w, len, acc, i)]

\* A round in these words.
LEMMA RoundIs ==
    ASSUME NEW props, NEW w, NEW len, NEW acc, NEW i
    PROVE  parse_next(props, w, len, acc, i) =
              IF Stops(props, w, len, acc, i) THEN [acc EXCEPT !.done = TRUE]
              ELSE [offset |-> acc.offset + Taken(props, w, len, acc, i), done |-> FALSE,
                    nums |-> Append(acc.nums, Number(props, w, len, acc, i)),
                    fields |-> Append(acc.fields, Entry(props, w, len, acc, i))]
BY DEF parse_next, Stops, Taken, Number, Value, Entry

\* Records of four.
LEMMA AccRecord ==
    ASSUME NEW O, NEW B, NEW N, NEW F, NEW acc \in [offset : O, done : B, nums : N, fields : F], NEW b \in B
    PROVE  LET r == [acc EXCEPT !.done = b]
           IN  /\ r \in [offset : O, done : B, nums : N, fields : F]
               /\ r.done = b /\ r.offset = acc.offset /\ r.nums = acc.nums /\ r.fields = acc.fields
               /\ acc.offset \in O /\ acc.done \in B /\ acc.nums \in N /\ acc.fields \in F
OBVIOUS

\* The bounds of what a round takes.
LEMMA TakenBounded ==
    ASSUME NEW e, NEW props, NEW w, NEW ptr, Schema(e, props, w, ptr), NEW len \in Nat, NEW i \in 1..Len(w),
           NEW acc \in Acc(props, w), len - acc.offset > 0
    PROVE  /\ acc.offset \in Nat
           /\ Taken(props, w, len, acc, i) \in Nat
           /\ acc.offset + Taken(props, w, len, acc, i) <= len
<1> DEFINE p == props[i]
           left == len - acc.offset
           count == resolve_count(p, acc.nums)
           length == resolve_length(p, acc.nums)
           f == At(w, i, acc.offset)
           t == Taken(props, w, len, acc, i)
<1>1. acc.offset \in Nat
    BY DEF Acc
<1>2. left \in Nat
    BY <1>1
<1>3. w \in Seq(Field) /\ p.length \in Nat /\ p.count \in Nat
    BY SchemaFacts, FieldFacts
<1>4. count \in Nat /\ length \in Nat
    BY <1>3, ResolvedNumbers
<1>5. f.size \in Nat
    <2>1. w[i].size \in Nat /\ Stray.size \in Nat
        BY <1>3, FieldFacts, StrayAssumption DEF Field
    <2> QED
        BY <2>1 DEF At
<1> HIDE DEF p, left, count, length, f
<1>6. parse_counted_value(p, length, count, left) \in 0..left
    BY <1>2, <1>4, CountedFits
<1>7. parse_one_value(p, length, left, f) \in 0..left
    BY <1>2, <1>4, <1>5, OneFits
<1>8. t = IF count > 1 THEN parse_counted_value(p, length, count, left)
          ELSE parse_one_value(p, length, left, f)
    BY DEF Taken, p, left, count, length, f
<1>9. t \in 0..left
    BY <1>6, <1>7, <1>8
<1> HIDE DEF t
<1>10. t \in Nat /\ acc.offset + t <= len
    BY <1>1, <1>2, <1>9 DEF left
<1> QED
    BY <1>1, <1>10 DEF t

\* A value that is not garbage is a whole field, read where it was written.
LEMMA ValueIs ==
    ASSUME NEW e, NEW props, NEW w, NEW ptr, Schema(e, props, w, ptr), NEW len \in Nat, NEW i \in 1..Len(w),
           NEW acc \in Acc(props, w)
    PROVE  /\ Value(props, w, len, acc, i) \in {w[k] : k \in 1..Len(w)} \cup {Garbage}
           /\ (Value(props, w, len, acc, i) # Garbage /\ ~Stops(props, w, len, acc, i)) =>
                 Start(w, i + 1) <= len
           /\ Number(props, w, len, acc, i) \in Int
<1> DEFINE v == Value(props, w, len, acc, i)
           t == Taken(props, w, len, acc, i)
<1>0. w \in Seq(Field)
    BY SchemaFacts
<1>1. v = Garbage \/ (acc.offset = Start(w, i) /\ t = w[i].size /\ v = w[i])
    BY DEF Value, Read
<1>2. v \in {w[k] : k \in 1..Len(w)} \cup {Garbage}
    BY <1>1
<1>3. ASSUME v # Garbage, ~Stops(props, w, len, acc, i)
      PROVE  Start(w, i + 1) <= len
    <2>1. acc.offset = Start(w, i) /\ t = w[i].size
        BY <1>1, <1>3
    <2>2. len - acc.offset > 0
        <3>1. ~(len - acc.offset <= 0) /\ acc.offset \in Nat
            BY <1>3 DEF Stops, Acc
        <3> QED
            BY <3>1
    <2>3. acc.offset + t <= len
        BY <2>2, TakenBounded
    <2>4. Start(w, i + 1) = Start(w, i) + w[i].size
        BY <1>0, StartFacts
    <2> QED
        BY <2>1, <2>3, <2>4
<1>4. Number(props, w, len, acc, i) \in Int
    <2> DEFINE length == resolve_length(props[i], acc.nums)
               count == resolve_count(props[i], acc.nums)
               n == Number(props, w, len, acc, i)
    <2> HIDE DEF v
    <2>1. v # Garbage => v.num \in Int
        BY <1>0, <1>2, FieldFacts
    <2>2. n = extract_numeric_value(props[i], length, count, v)
        BY DEF Number, v
    <2> HIDE DEF n, length, count
    <2>3. extract_numeric_value(props[i], length, count, v) \in {-1} \cup {x \in Int : v # Garbage /\ x = v.num}
        BY <2>1 DEF extract_numeric_value
    <2> QED
        BY <2>2, <2>3 DEF n
<1> QED
    BY <1>2, <1>3, <1>4

\* A round stops, or appends what it has read.
RoundStops(acc, r) == r.done = TRUE /\ r.fields = acc.fields
RoundReads(props, w, len, acc, i, r) ==
    /\ ~Stops(props, w, len, acc, i) /\ acc.done = FALSE /\ r.done = FALSE
    /\ r.offset = acc.offset + Taken(props, w, len, acc, i)
    /\ r.nums = Append(acc.nums, Number(props, w, len, acc, i))
    /\ r.fields = Append(acc.fields, Entry(props, w, len, acc, i))

\* A round keeps the type of what the walk keeps.
LEMMA RoundTyped ==
    ASSUME NEW e, NEW props, NEW w, NEW ptr, Schema(e, props, w, ptr), NEW len \in Nat, NEW i \in 1..Len(w),
           NEW acc \in Acc(props, w), NEW r, r = parse_next(props, w, len, acc, i)
    PROVE  /\ r \in Acc(props, w)
           /\ RoundStops(acc, r) \/ RoundReads(props, w, len, acc, i, r)
           /\ ~Stops(props, w, len, acc, i) => RoundReads(props, w, len, acc, i, r)
<1> DEFINE F == Found(props, w)
           t == Taken(props, w, len, acc, i)
           n == Number(props, w, len, acc, i)
           f == Entry(props, w, len, acc, i)
           stops == Stops(props, w, len, acc, i)
<1>1. r = IF stops THEN [acc EXCEPT !.done = TRUE]
          ELSE [offset |-> acc.offset + t, done |-> FALSE, nums |-> Append(acc.nums, n),
                fields |-> Append(acc.fields, f)]
    BY RoundIs
<1>2. /\ acc \in [offset : Nat, done : BOOLEAN, nums : Seq(Int), fields : Seq(F)]
    BY DEF Acc
<1> HIDE DEF F
<1>3. acc.offset \in Nat /\ acc.done \in BOOLEAN /\ acc.nums \in Seq(Int) /\ acc.fields \in Seq(F)
    BY <1>2
<1>4. CASE stops
    <2> DEFINE b == TRUE
    <2>1. r = [acc EXCEPT !.done = b]
        BY <1>1, <1>4
    <2> DEFINE O == Nat
               B == BOOLEAN
               N == Seq(Int)
               G == Seq(F)
    <2>2. acc \in [offset : O, done : B, nums : N, fields : G] /\ b \in B
        BY <1>2
    <2> HIDE DEF O, B, N, G, b
    <2>3. r \in [offset : O, done : B, nums : N, fields : G] /\ r.done = b /\ r.fields = acc.fields
        BY <2>1, <2>2, AccRecord
    <2>4. r \in Acc(props, w)
        BY <2>3 DEF Acc, O, B, N, G, F
    <2> QED
        BY <1>4, <2>3, <2>4 DEF RoundStops, b
<1>5. CASE ~stops
    <2>1. len - acc.offset > 0 /\ acc.done = FALSE
        <3>1. ~(len - acc.offset <= 0) /\ ~acc.done
            BY <1>5 DEF Stops
        <3> QED
            BY <1>3, <3>1
    <2>2. t \in Nat
        BY <2>1, TakenBounded
    <2>3. n \in Int
        BY ValueIs
    <2>4. f \in F
        BY <1>3, <2>3, ValueIs DEF F, Found, Entry
    <2> HIDE DEF f, n, t, stops
    <2>5. r = [offset |-> acc.offset + t, done |-> FALSE, nums |-> Append(acc.nums, n),
               fields |-> Append(acc.fields, f)]
        BY <1>1, <1>5
    <2>6. acc.offset + t \in Nat /\ Append(acc.nums, n) \in Seq(Int) /\ Append(acc.fields, f) \in Seq(F)
        BY <1>3, <2>2, <2>3, <2>4
    <2>7. r \in [offset : Nat, done : BOOLEAN, nums : Seq(Int), fields : Seq(F)]
        BY <2>5, <2>6
    <2>8. /\ r.done = FALSE /\ r.offset = acc.offset + t /\ r.nums = Append(acc.nums, n)
          /\ r.fields = Append(acc.fields, f)
        BY <2>5
    <2>9. RoundReads(props, w, len, acc, i, r)
        BY <1>5, <2>1, <2>8 DEF RoundReads, t, n, f, stops
    <2> QED
        BY <2>7, <2>9 DEF Acc, F
<1> QED
    BY <1>4, <1>5

\* The walk is a walk: a round for each property.
WalkOf(props, w, len, g) ==
    /\ g \in [0..Len(w) -> Acc(props, w)]
    /\ g[0] = NoneYet
    /\ \A n \in 1..Len(w) : g[n] = parse_next(props, w, len, g[n-1], n)

\* parse_values is the last of the walk's rounds.
LEMMA WalkUnfolds ==
    ASSUME NEW e, NEW props, NEW w, NEW ptr, Schema(e, props, w, ptr), NEW len \in Nat
    PROVE  \E g : WalkOf(props, w, len, g) /\ parse_values(props, w, len) = g[Len(w)].fields
<1> DEFINE N == Len(w)
           T == Acc(props, w)
           next(x, n) == parse_next(props, w, len, x, n)
           walk[n \in 0..Len(props)] ==
              IF n = 0 THEN [offset |-> 0, done |-> FALSE, nums |-> <<>>, fields |-> <<>>]
              ELSE parse_next(props, w, len, walk[n-1], n)
           step == [n \in 1..N |-> [x \in T |-> next(x, n)]]
<1>0. N \in Nat /\ Len(props) = N /\ w \in Seq(Field)
    <2>1. w \in Seq(Field) /\ Len(props) = N
        BY SchemaFacts
    <2> QED
        BY <2>1, FieldFacts
<1>1. ASSUME NEW n \in 1..N, NEW x \in T
      PROVE  next(x, n) \in T
    BY RoundTyped
<1>2. NoneYet \in T
    <2> DEFINE F == Found(props, w)
    <2> HIDE DEF F
    <2>1. <<>> \in Seq(Int) /\ <<>> \in Seq(F) /\ 0 \in Nat /\ FALSE \in BOOLEAN
        OBVIOUS
    <2>2. NoneYet \in [offset : Nat, done : BOOLEAN, nums : Seq(Int), fields : Seq(F)]
        BY <2>1 DEF NoneYet
    <2> QED
        BY <2>2 DEF Acc, F
<1> HIDE DEF T
<1>3. StepMaps(N, T, step)
    <2> HIDE DEF next, N
    <2>1. ASSUME NEW n \in 1..N
          PROVE  [x \in T |-> next(x, n)] \in [T -> T]
        BY <1>1
    <2> QED
        BY <2>1, Zenon DEF StepMaps
<1>4. PICK g : StepByStep(N, T, NoneYet, step, g)
    <2> HIDE DEF step, N, walk
    <2> QED
        BY <1>0, <1>2, <1>3, Recursion
<1>5. g \in [0..N -> T] /\ g[0] = NoneYet
    BY <1>4 DEF StepByStep
<1> HIDE DEF next
<1>6. ASSUME NEW n \in 1..N
      PROVE  g[n] = next(g[n-1], n)
    <2>1. n - 1 \in 0..N
        BY <1>0
    <2>2. g[n-1] \in T
        BY <1>5, <2>1
    <2>3. step[n][g[n-1]] = next(g[n-1], n)
        BY <2>2
    <2>4. g[n] = step[n][g[n-1]]
        BY <1>4 DEF StepByStep
    <2> QED
        BY <2>3, <2>4
<1>7. g = [n \in 0..Len(props) |-> IF n = 0 THEN NoneYet ELSE next(g[n-1], n)]
    <2>1. \A n \in 0..N : n # 0 => n \in 1..N
        BY <1>0
    <2>2. \A n \in 0..N : g[n] = IF n = 0 THEN NoneYet ELSE next(g[n-1], n)
        BY <1>5, <1>6, <2>1
    <2> QED
        BY <1>0, <1>5, <2>2
<1>8. walk = [n \in 0..Len(props) |-> IF n = 0 THEN NoneYet ELSE next(walk[n-1], n)]
    BY <1>7 DEF NoneYet, next
<1>9. parse_values(props, w, len) = walk[Len(props)].fields
    BY DEF parse_values
<1> HIDE DEF walk, N, step
<1> DEFINE A == {n \in Nat : n \in 0..N => walk[n] = g[n]}
<1>10. 0 \in A
    <2>1. 0 \in 0..Len(props)
        BY <1>0
    <2> QED
        BY <1>5, <1>8, <2>1
<1>11. ASSUME NEW n \in Nat, n \in A
       PROVE  n + 1 \in A
    <2> SUFFICES ASSUME n + 1 \in 0..N
                 PROVE  walk[n+1] = g[n+1]
        OBVIOUS
    <2>1. n \in 0..N /\ n + 1 \in 1..N /\ n + 1 \in 0..Len(props) /\ (n + 1) - 1 = n /\ n + 1 # 0
        BY <1>0
    <2>2. walk[n] = g[n]
        BY <1>11, <2>1
    <2>3. walk[n+1] = next(walk[n], n + 1)
        BY <1>8, <2>1
    <2>4. g[n+1] = next(g[n], n + 1)
        BY <1>6, <2>1
    <2> QED
        BY <2>2, <2>3, <2>4
<1>12. walk[N] = g[N]
    <2>1. Nat \subseteq A
        <3> HIDE DEF A
        <3> QED
            BY <1>10, <1>11, SetInduction
    <2> QED
        BY <1>0, <2>1
<1>13. WalkOf(props, w, len, g)
    BY <1>5, <1>6 DEF WalkOf, N, T, next
<1> QED
    BY <1>0, <1>9, <1>12, <1>13 DEF N

\* A field that arrived whole, with no misread one up to it.
Arrived(e, w, len, j) == Start(w, j + 1) <= len /\ Clean(e, w, j)
NumsAre(e, w, n, nums) ==
    nums \in Seq(Int) /\ Len(nums) = n /\ \A j \in 1..n : nums[j] = NumberOf(e, w, j)
InPlace(w, f, j) == f.at = Start(w, j) /\ f.value = w[j]

\* After n rounds: the fields that arrived have been read where they were
\* written, and none that was cut has given a value.
Progress(e, props, w, len, n, acc) ==
    /\ Len(acc.fields) <= n
    /\ acc.done = FALSE => Len(acc.fields) = n
    /\ Arrived(e, w, len, n) =>
          acc.done = FALSE /\ acc.offset = Start(w, n + 1) /\ NumsAre(e, w, n, acc.nums)
    /\ \A j \in 1..n : Arrived(e, w, len, j) => j <= Len(acc.fields) /\ InPlace(w, acc.fields[j], j)
    /\ \A j \in 1..Len(acc.fields) :
          /\ acc.fields[j].name = props[j].name
          /\ acc.fields[j].value # Garbage => Start(w, j + 1) <= len

\* The walk stands at a field that arrived, and takes it.
StandsAt(e, w, len, acc, i) ==
    /\ acc.done = FALSE /\ acc.offset = Start(w, i) /\ NumsAre(e, w, i - 1, acc.nums)
    /\ Arrived(e, w, len, i)
TakesIt(e, props, w, len, acc, i) ==
    /\ ~Stops(props, w, len, acc, i)
    /\ Taken(props, w, len, acc, i) = w[i].size
    /\ Value(props, w, len, acc, i) = w[i]
    /\ NumsAre(e, w, i, Append(acc.nums, Number(props, w, len, acc, i)))

\* With the numbers of the fields before it, a property resolves to the same.
LEMMA SameNumbers ==
    ASSUME NEW e, NEW w, NEW n \in Nat, NEW nums, NumsAre(e, w, n, nums), NEW p
    PROVE  /\ resolve_count(p, nums) = resolve_count(p, NumbersTo(e, w, n))
           /\ resolve_length(p, nums) = resolve_length(p, NumbersTo(e, w, n))
<1> DEFINE f == NumbersTo(e, w, n)
<1>1. DOMAIN nums = 1..n /\ \A j \in 1..n : nums[j] = NumberOf(e, w, j)
    BY DEF NumsAre
<1>2. DOMAIN f = 1..n /\ \A j \in 1..n : f[j] = NumberOf(e, w, j)
    BY DEF NumbersTo
<1> HIDE DEF f
<1>3. DOMAIN nums = DOMAIN f /\ \A j \in DOMAIN f : nums[j] = f[j]
    BY <1>1, <1>2
<1>4. resolve_count(p, nums) = resolve_count(p, f)
    BY <1>3 DEF resolve_count
<1>5. resolve_length(p, nums) = resolve_length(p, f)
    BY <1>3 DEF resolve_length
<1> QED
    BY <1>4, <1>5 DEF f

\* A single value is laid out as its length says.
LEMMA LaidOne ==
    ASSUME NEW e, NEW props, NEW w, NEW ptr, Schema(e, props, w, ptr), NEW i \in DOMAIN w,
           w[i].size \in Nat, w[i].size # 0, ~(CountOf(e, w, i) > 1)
    PROVE  OneLaid(props[i], LengthOf(e, w, i), w[i])
<1> DEFINE p == props[i]
           count == CountOf(e, w, i)
           length == LengthOf(e, w, i)
           size == w[i].size
           each == IF e[i].in = "POINTER" THEN ptr ELSE IF length > 0 THEN length ELSE TdhSize(e[i].in)
           empty == count = 0 \/ (Refers(e[i], "ParamLength", "FixedLength") /\ length = 0)
<1> HIDE DEF p
<1>1. p.in = e[i].in /\ ptr \in {4, 8}
    <2>1. p.in = e[i].in
        BY SchemaFacts DEF p
    <2> QED
        BY <2>1 DEF Schema, Conforms
<1>2. /\ count \in Nat /\ length \in Nat
      /\ IF empty THEN size = 0
         ELSE IF each > 0 THEN size = count * each
         ELSE size > 0 /\ (e[i].in = "UNICODESTRING" => size % 2 = 0)
    BY DEF Schema, Conforms, Laid
<1>3. TdhSize("UNICODESTRING") = 0
    BY DEF TdhSize
<1>4. count = 1 /\ ~empty
    BY <1>2
<1>5. each \in Nat /\ (IF each > 0 THEN size = each ELSE size > 0 /\ (e[i].in = "UNICODESTRING" => size % 2 = 0))
    <2>1. each \in Nat
        BY <1>1, <1>2 DEF TdhSize
    <2>2. count * each = each
        BY <1>4, <2>1
    <2> HIDE DEF each, size, count
    <2> QED
        BY <1>2, <1>4, <2>1, <2>2
<1>6. size \in Nat /\ size > 0
    OBVIOUS
<1> HIDE DEF count, size, empty, length
<1>7. p.in # "POINTER" /\ length > 0 => size = length
    BY <1>1, <1>2, <1>5
<1>8. p.in = "POINTER" => size \in {4, 8}
    BY <1>1, <1>5
<1>9. p.in = "UNICODESTRING" /\ length = 0 => size % 2 = 0
    BY <1>1, <1>3, <1>5
<1> QED
    BY <1>6, <1>7, <1>8, <1>9 DEF OneLaid, p, size, length

\* A field that arrived is taken whole.
LEMMA RoundWhole ==
    ASSUME NEW e, NEW props, NEW w, NEW ptr, Schema(e, props, w, ptr), NEW len \in Nat, NEW i \in 1..Len(w),
           NEW acc \in Acc(props, w), StandsAt(e, w, len, acc, i)
    PROVE  TakesIt(e, props, w, len, acc, i)
<1> DEFINE p == props[i]
           left == len - acc.offset
           count == resolve_count(p, acc.nums)
           length == resolve_length(p, acc.nums)
           size == w[i].size
           f == At(w, i, acc.offset)
           t == Taken(props, w, len, acc, i)
<1>0. /\ acc.done = FALSE /\ acc.offset = Start(w, i) /\ NumsAre(e, w, i - 1, acc.nums)
      /\ Start(w, i + 1) <= len /\ Clean(e, w, i)
    BY DEF StandsAt, Arrived
<1>1. /\ w \in Seq(Field) /\ i \in DOMAIN w /\ p.length \in Nat /\ p.count \in Nat /\ i - 1 \in Nat
      /\ props = build_schema(e)
    BY SchemaFacts, FieldFacts DEF Schema
<1>2. count \in Nat /\ length \in Nat
    BY <1>1, ResolvedNumbers
<1>3. /\ size \in Nat /\ Start(w, i) \in Nat /\ Start(w, i + 1) = Start(w, i) + size
    <2>1. i \in 1..Len(w) + 1
        BY <1>1, FieldFacts
    <2> QED
        BY <1>1, <2>1, StartFacts
<1>4. /\ size # 0 /\ count = CountOf(e, w, i) /\ length = LengthOf(e, w, i)
      /\ IF count > 1 THEN Element(p, length, count) * count = size ELSE ~OneMisread(p, length, w[i])
    <2>1. ~Misread(e, w, i)
        BY <1>0 DEF Clean
    <2> DEFINE n == i - 1
    <2>2. n \in Nat /\ NumsAre(e, w, n, acc.nums)
        BY <1>0, <1>1
    <2> HIDE DEF n
    <2>3. count = resolve_count(p, NumbersTo(e, w, n)) /\ length = resolve_length(p, NumbersTo(e, w, n))
        BY <2>2, SameNumbers
    <2>4. size # 0 /\ count = CountOf(e, w, i) /\ length = LengthOf(e, w, i)
        BY <1>1, <2>1, <2>3 DEF Misread, n
    <2>5. IF CountOf(e, w, i) > 1
          THEN Element(p, LengthOf(e, w, i), CountOf(e, w, i)) * CountOf(e, w, i) = size
          ELSE ~OneMisread(p, LengthOf(e, w, i), w[i])
        BY <1>1, <2>1 DEF Misread, Element
    <2> HIDE DEF count, length, p, size
    <2> QED
        BY <2>4, <2>5
<1>5. left \in Nat /\ size <= left /\ size > 0
    <2> HIDE DEF size
    <2> QED
        BY <1>0, <1>3, <1>4
<1>6. f = w[i]
    BY <1>0, <1>1, <1>5 DEF At
<1>7. t = IF count > 1 THEN parse_counted_value(p, length, count, left)
          ELSE parse_one_value(p, length, left, f)
    BY DEF Taken
<1>8. ~(count > 1) => OneLaid(p, length, w[i])
    BY <1>1, <1>3, <1>4, LaidOne
<1>9. Value(props, w, len, acc, i) =
        IF count <= 1 /\ Garbled(p, length, left, f) THEN Garbage ELSE Read(w, i, acc.offset, t)
    BY DEF Value
<1>10. Number(props, w, len, acc, i) = extract_numeric_value(p, length, count, Value(props, w, len, acc, i))
    BY DEF Number
<1> HIDE DEF p, left, count, length, size, t, f
<1>11. count > 1 => parse_counted_value(p, length, count, left) = size
    BY <1>2, <1>3, <1>4, <1>5, CountedFits
<1>12. ~(count > 1) => parse_one_value(p, length, left, f) = size /\ ~Garbled(p, length, left, f)
    BY <1>2, <1>4, <1>5, <1>6, <1>8, OneWhole DEF size
<1>13. t = size /\ ~(count <= 1 /\ Garbled(p, length, left, f))
    BY <1>2, <1>7, <1>11, <1>12
<1>14. ~Stops(props, w, len, acc, i)
    BY <1>0, <1>3, <1>5, <1>13 DEF Stops, left, t
<1>15. Value(props, w, len, acc, i) = w[i]
    <2>1. i <= Len(w)
        BY <1>1, FieldFacts
    <2> QED
        BY <1>0, <1>9, <1>13, <2>1 DEF Read, size
<1>16. NumsAre(e, w, i, Append(acc.nums, Number(props, w, len, acc, i)))
    <2> DEFINE n == Number(props, w, len, acc, i)
               nums == acc.nums
               g(j) == NumberOf(e, w, j)
    <2>1. n = g(i)
        BY <1>1, <1>4, <1>10, <1>15 DEF NumberOf, p
    <2>2. n \in Int
        BY ValueIs
    <2>3. nums \in Seq(Int) /\ Len(nums) = i - 1 /\ \A j \in 1..(i-1) : nums[j] = g(j)
        BY <1>0 DEF NumsAre
    <2> HIDE DEF n, g, nums
    <2>4. /\ Append(nums, n) \in Seq(Int) /\ Len(Append(nums, n)) = i
          /\ \A j \in 1..i : Append(nums, n)[j] = g(j)
        BY <2>1, <2>2, <2>3
    <2> QED
        BY <2>4 DEF NumsAre, n, g, nums
<1> QED
    BY <1>13, <1>14, <1>15, <1>16 DEF size, t, TakesIt

\* A round makes progress.
LEMMA ProgressStep ==
    ASSUME NEW e, NEW props, NEW w, NEW ptr, Schema(e, props, w, ptr), NEW len \in Nat, NEW i \in 1..Len(w),
           NEW acc \in Acc(props, w), Progress(e, props, w, len, i - 1, acc),
           NEW r, r = parse_next(props, w, len, acc, i)
    PROVE  Progress(e, props, w, len, i, r)
<1> DEFINE F == Found(props, w)
           a == acc.fields
           b == r.fields
           whole(j) == Start(w, j + 1) <= len
           there(j) == Arrived(e, w, len, j)
           fits(j, f) == InPlace(w, f, j)
           f0 == Entry(props, w, len, acc, i)
<1>0. i \in Nat /\ i >= 1 /\ Len(w) \in Nat /\ (i - 1) + 1 = i /\ i - 1 \in Nat /\ w \in Seq(Field)
    <2>1. w \in Seq(Field) /\ Len(w) \in Nat
        BY SchemaFacts, FieldFacts
    <2> QED
        BY <2>1
<1>1. /\ r \in Acc(props, w)
      /\ RoundStops(acc, r) \/ RoundReads(props, w, len, acc, i, r)
      /\ ~Stops(props, w, len, acc, i) => RoundReads(props, w, len, acc, i, r)
    BY RoundTyped
<1>2. a \in Seq(F) /\ b \in Seq(F) /\ acc.done \in BOOLEAN /\ r.done \in BOOLEAN /\ acc.offset \in Nat
    <2>1. \A x \in Acc(props, w) : x \in [offset : Nat, done : BOOLEAN, nums : Seq(Int), fields : Seq(F)]
        BY DEF Acc
    <2> HIDE DEF F
    <2>2. \A x \in [offset : Nat, done : BOOLEAN, nums : Seq(Int), fields : Seq(F)] :
              x.fields \in Seq(F) /\ x.done \in BOOLEAN /\ x.offset \in Nat
        OBVIOUS
    <2> QED
        BY <1>1, <2>1, <2>2
<1>3. /\ Len(a) <= i - 1 /\ (acc.done = FALSE => Len(a) = i - 1)
      /\ Arrived(e, w, len, i - 1) => acc.done = FALSE /\ acc.offset = Start(w, i) /\ NumsAre(e, w, i - 1, acc.nums)
      /\ \A j \in 1..(i-1) : there(j) => j <= Len(a) /\ fits(j, a[j])
      /\ \A j \in 1..Len(a) : a[j].name = props[j].name /\ (a[j].value # Garbage => whole(j))
    BY <1>0 DEF Progress
<1> HIDE DEF F
<1>4. Len(a) \in Nat
    BY <1>2
<1>5. ASSUME there(i)
      PROVE  /\ RoundReads(props, w, len, acc, i, r) /\ r.offset = Start(w, i + 1)
             /\ NumsAre(e, w, i, r.nums) /\ fits(i, f0)
    <2>1. Start(w, i) \in Nat /\ w[i].size \in Nat /\ Start(w, i + 1) = Start(w, i) + w[i].size
        <3>1. i \in 1..Len(w) + 1
            BY <1>0
        <3> QED
            BY <1>0, <3>1, StartFacts
    <2>2. Start(w, i) <= len
        BY <1>5, <2>1 DEF Arrived
    <2>3. Clean(e, w, i - 1)
        BY <1>0, <1>5 DEF Arrived, Clean
    <2>4. acc.done = FALSE /\ acc.offset = Start(w, i) /\ NumsAre(e, w, i - 1, acc.nums)
        BY <1>0, <1>3, <2>2, <2>3 DEF Arrived
    <2>5. TakesIt(e, props, w, len, acc, i)
        <3>1. StandsAt(e, w, len, acc, i)
            BY <1>5, <2>4 DEF StandsAt
        <3> QED
            BY <3>1, RoundWhole
    <2>6. RoundReads(props, w, len, acc, i, r)
        BY <1>1, <2>5 DEF TakesIt
    <2>7. r.offset = Start(w, i + 1) /\ NumsAre(e, w, i, r.nums)
        BY <2>1, <2>4, <2>5, <2>6 DEF RoundReads, TakesIt
    <2>8. fits(i, f0)
        BY <2>4, <2>5 DEF Entry, InPlace, TakesIt
    <2> QED
        BY <2>6, <2>7, <2>8
<1>6. CASE RoundStops(acc, r)
    <2>1. b = a /\ r.done = TRUE
        BY <1>6 DEF RoundStops
    <2>2. ~there(i)
        BY <1>5, <2>1 DEF RoundReads
    <2> HIDE DEF there, fits
    <2>3. ASSUME NEW j \in 1..i, there(j)
          PROVE  j \in 1..(i-1)
        BY <1>0, <2>2, <2>3
    <2>4. Len(b) <= i
        BY <1>0, <1>3, <1>4, <2>1
    <2>5. \A j \in 1..i : there(j) => j <= Len(b) /\ fits(j, b[j])
        BY <1>3, <2>1, <2>3
    <2> QED
        BY <1>3, <2>1, <2>2, <2>4, <2>5 DEF Progress, fits, there
<1>7. CASE RoundReads(props, w, len, acc, i, r)
    <2> DEFINE f == f0
    <2>1. b = Append(a, f) /\ r.done = FALSE /\ acc.done = FALSE /\ ~Stops(props, w, len, acc, i)
        BY <1>7 DEF RoundReads
    <2>2. f.name = props[i].name /\ (f.value # Garbage => whole(i))
        BY <2>1, ValueIs DEF Entry
    <2>3. f \in F
        <3>1. /\ acc.offset \in Nat /\ Value(props, w, len, acc, i) \in {w[k] : k \in 1..Len(w)} \cup {Garbage}
              /\ Number(props, w, len, acc, i) \in Int
            BY ValueIs DEF Acc
        <3> QED
            BY <3>1 DEF F, Found, Entry
    <2> HIDE DEF f, f0, there, fits
    <2>4. Len(a) = i - 1
        BY <1>3, <2>1
    <2>5. /\ Len(b) = i /\ b[i] = f /\ \A j \in 1..(i-1) : b[j] = a[j]
        <3>1. /\ Len(Append(a, f)) = Len(a) + 1 /\ Append(a, f)[Len(a) + 1] = f
              /\ \A j \in 1..Len(a) : Append(a, f)[j] = a[j]
            BY <1>2, <2>3, AppendProperties
        <3> QED
            BY <1>0, <2>1, <2>4, <3>1
    <2>6. \A j \in 1..i : j \in 1..(i-1) \/ j = i
        BY <1>0
    <2>7. there(i) => fits(i, f) /\ r.offset = Start(w, i + 1) /\ NumsAre(e, w, i, r.nums)
        BY <1>5 DEF f
    <2>8. \A j \in 1..i : there(j) => j <= Len(b) /\ fits(j, b[j])
        <3> TAKE j \in 1..i
        <3>1. CASE j = i
            BY <1>0, <2>5, <2>7, <3>1
        <3>2. CASE j \in 1..(i-1)
            <4>1. b[j] = a[j] /\ j <= Len(b)
                BY <1>0, <2>5, <3>2
            <4> QED
                BY <1>3, <3>2, <4>1
        <3> QED
            BY <2>6, <3>1, <3>2
    <2>9. \A j \in 1..Len(b) : b[j].name = props[j].name /\ (b[j].value # Garbage => whole(j))
        BY <1>0, <1>3, <2>2, <2>4, <2>5, <2>6
    <2>10. Len(b) <= i /\ (r.done = FALSE => Len(b) = i)
        BY <1>0, <2>5
    <2> QED
        BY <2>1, <2>7, <2>8, <2>9, <2>10 DEF Progress, fits, there
<1> QED
    BY <1>1, <1>6, <1>7

\* What the walk makes of a payload that its schema describes.
WalkRead(e, props, w, len, fields) ==
    /\ fields \in Seq(Found(props, w)) /\ Len(fields) <= Len(w)
    /\ \A j \in 1..Len(w) : Arrived(e, w, len, j) => j <= Len(fields) /\ InPlace(w, fields[j], j)
    /\ \A j \in 1..Len(fields) :
          /\ fields[j].name = props[j].name
          /\ fields[j].value # Garbage => Start(w, j + 1) <= len

\* The walk starts at the first field.
LEMMA NothingReadYet ==
    ASSUME NEW e, NEW props, NEW w, NEW ptr, Schema(e, props, w, ptr), NEW len \in Nat
    PROVE  Progress(e, props, w, len, 0, NoneYet)
<1> DEFINE z == NoneYet
<1>1. z.offset = 0 /\ z.done = FALSE /\ z.nums = <<>> /\ z.fields = <<>>
    BY DEF NoneYet
<1>2. Start(w, 1) = 0
    BY SchemaFacts, StartFacts
<1>3. Len(z.fields) = 0 /\ 0 + 1 = 1
    BY <1>1
<1>4. NumsAre(e, w, 0, z.nums)
    <2> DEFINE q == << >>
    <2>1. q \in Seq(Int) /\ Len(q) = 0
        OBVIOUS
    <2> HIDE DEF q
    <2>2. NumsAre(e, w, 0, q)
        BY <2>1 DEF NumsAre
    <2> QED
        BY <1>1, <2>2 DEF q
<1> HIDE DEF z
<1> QED
    BY <1>1, <1>2, <1>3, <1>4 DEF Progress, z

\* The walk reads what was written: by induction over its rounds.
LEMMA WalkFaithful ==
    ASSUME NEW e, NEW props, NEW w, NEW ptr, Schema(e, props, w, ptr), NEW len \in Nat
    PROVE  WalkRead(e, props, w, len, parse_values(props, w, len))
<1> DEFINE N == Len(w)
<1>0. w \in Seq(Field) /\ N \in Nat
    BY SchemaFacts, FieldFacts
<1>1. PICK g : WalkOf(props, w, len, g) /\ parse_values(props, w, len) = g[N].fields
    BY WalkUnfolds
<1>2. /\ g \in [0..N -> Acc(props, w)] /\ g[0] = NoneYet
      /\ \A n \in 1..N : g[n] = parse_next(props, w, len, g[n-1], n)
    BY <1>1 DEF WalkOf
<1> DEFINE A == {n \in Nat : n \in 0..N => Progress(e, props, w, len, n, g[n])}
<1>3. 0 \in A
    BY <1>2, NothingReadYet
<1>4. ASSUME NEW n \in Nat, n \in A
      PROVE  n + 1 \in A
    <2> SUFFICES ASSUME n + 1 \in 0..N
                 PROVE  Progress(e, props, w, len, n + 1, g[n+1])
        OBVIOUS
    <2> HIDE DEF N
    <2>1. n \in 0..N /\ n + 1 \in 1..N /\ (n + 1) - 1 = n
        BY <1>0
    <2>2. Progress(e, props, w, len, (n + 1) - 1, g[n]) /\ g[n] \in Acc(props, w)
        BY <1>2, <1>4, <2>1
    <2>3. g[n+1] = parse_next(props, w, len, g[n], n + 1)
        BY <1>2, <2>1
    <2>4. n + 1 \in 1..Len(w)
        BY <2>1 DEF N
    <2> QED
        BY <2>2, <2>3, <2>4, ProgressStep
<1>5. Progress(e, props, w, len, N, g[N])
    <2>1. Nat \subseteq A
        <3> HIDE DEF A
        <3> QED
            BY <1>3, <1>4, SetInduction
    <2> QED
        BY <1>0, <2>1
<1>6. g[N].fields \in Seq(Found(props, w))
    <2> DEFINE F == Found(props, w)
    <2>1. g[N] \in Acc(props, w)
        BY <1>0, <1>2
    <2>2. g[N] \in [offset : Nat, done : BOOLEAN, nums : Seq(Int), fields : Seq(F)]
        BY <2>1 DEF Acc
    <2> HIDE DEF F
    <2>3. g[N].fields \in Seq(F)
        BY <2>2
    <2> QED
        BY <2>3 DEF F
<1> QED
    BY <1>1, <1>5, <1>6 DEF Progress, WalkRead

\* Fields start one behind the other.
LEMMA StartsRise ==
    ASSUME NEW w \in Seq(Field), NEW i \in 1..Len(w) + 1,
           \A k \in 1..Len(w) + 1 : Start(w, k) \in Nat,
           \A k \in 1..Len(w) : w[k].size \in Nat /\ Start(w, k + 1) = Start(w, k) + w[k].size
    PROVE  Start(w, i) <= Total(w)
<1> DEFINE N == Len(w)
           A == {d \in Nat : i + d \in 1..N + 1 => Start(w, i) <= Start(w, i + d)}
<1>0. N \in Nat
    <2> DEFINE F == Field
    <2> HIDE DEF F
    <2>1. w \in Seq(F)
        BY DEF F
    <2> QED
        BY <2>1
<1>1. 0 \in A
    <2>1. i + 0 = i /\ Start(w, i) \in Nat
        OBVIOUS
    <2> QED
        BY <2>1
<1> HIDE DEF N
<1>2. ASSUME NEW d \in Nat, d \in A
      PROVE  d + 1 \in A
    <2> SUFFICES ASSUME i + (d + 1) \in 1..N + 1
                 PROVE  Start(w, i) <= Start(w, i + (d + 1))
        OBVIOUS
    <2>1. i \in Nat /\ i >= 1
        BY <1>0 DEF N
    <2>2. i + d \in 1..N /\ i + d \in 1..N + 1 /\ i + (d + 1) = (i + d) + 1
        BY <1>0, <2>1
    <2>3. Start(w, i) <= Start(w, i + d)
        BY <1>2, <2>2
    <2>4. /\ Start(w, (i + d) + 1) = Start(w, i + d) + w[i+d].size /\ w[i+d].size \in Nat
          /\ Start(w, i + d) \in Nat /\ Start(w, i) \in Nat
        BY <2>2 DEF N
    <2>5. Start(w, i) <= Start(w, (i + d) + 1)
        <3> DEFINE x == Start(w, i)
                   y == Start(w, i + d)
                   z == w[i+d].size
        <3>1. x \in Nat /\ y \in Nat /\ z \in Nat /\ x <= y
            BY <2>3, <2>4
        <3> HIDE DEF x, y, z
        <3>2. x <= y + z
            BY <3>1
        <3> QED
            BY <2>4, <3>2 DEF x, y, z
    <2> QED
        BY <2>2, <2>5
<1>3. (N + 1) - i \in A
    <2>1. Nat \subseteq A
        <3> HIDE DEF A
        <3> QED
            BY <1>1, <1>2, SetInduction
    <2>2. (N + 1) - i \in Nat
        BY <1>0 DEF N
    <2> HIDE DEF A
    <2> QED
        BY <2>1, <2>2
<1>4. i + ((N + 1) - i) = N + 1 /\ N + 1 \in 1..N + 1
    BY <1>0 DEF N
<1>5. Start(w, i) <= Start(w, N + 1)
    BY <1>3, <1>4
<1> QED
    BY <1>5 DEF Total, N

\* A field with another text.
Texted(x, l) == [x EXCEPT !.text = l]

\* It is a field, the same in all else.
LEMMA Retexted ==
    ASSUME NEW x \in Field, NEW l \in SUBSET STRING
    PROVE  Texted(x, l) \in Field /\ Texted(x, l) # Garbage /\ Texted(Texted(x, l), x.text) = x
<1> DEFINE y == Texted(x, l)
           S == Nat
           N == Int
           T == SUBSET STRING
           B == SUBSET Nat
           U == BOOLEAN
<1>1. x \in [size : S, num : N, text : T, bits : B, utf8 : U, family : S] /\ l \in T
    BY DEF Field
<1> HIDE DEF S, N, T, B, U
<1>2. y \in [size : S, num : N, text : T, bits : B, utf8 : U, family : S] /\ Texted(y, x.text) = x
    BY <1>1 DEF Texted
<1>3. y \in Field
    BY <1>2 DEF Field, S, N, T, B, U
<1> QED
    BY <1>2, <1>3, GarbageAssumption

\* What a map says of a value is a set of strings.
LEMMA LabelsAreStrings ==
    ASSUME NEW maps \in KnownMaps, NEW key, NEW name, NEW num, NEW value,
           get_or_load_map(maps, key, name) # None
    PROVE  Label(get_or_load_map(maps, key, name), num, value) \in SUBSET STRING
<1> DEFINE m == get_or_load_map(maps, key, name)
<1>1. \E k \in DOMAIN MapsOf : m = MapsOf[k]
    <2>1. CASE name \in DOMAIN maps
        <3>1. m = maps[name]
            BY <2>1 DEF get_or_load_map
        <3>2. \A n \in DOMAIN maps : \E k \in DOMAIN MapsOf : k[2] = n /\ maps[n] = MapsOf[k]
            BY DEF KnownMaps
        <3> QED
            BY <2>1, <3>1, <3>2
    <2>2. CASE name \notin DOMAIN maps
        BY <2>2 DEF get_or_load_map
    <2> QED
        BY <2>1, <2>2
<1>2. \A e \in m.entries : e.label \in STRING
    BY <1>1, LabelsAssumption
<1> HIDE DEF m
<1>3. \A v : render_numeric(m, v) \in SUBSET STRING
    BY <1>2 DEF render_numeric
<1>4. \A v : render_text(m, v) \in SUBSET STRING
    BY <1>2 DEF render_text
<1>5. Label(m, num, value) \in SUBSET STRING
    BY <1>3, <1>4 DEF Label
<1> QED
    BY <1>5 DEF m

\* A map changes nothing but the text of a value.
Maybe(own, f, m) ==
    /\ m.at = f.at /\ m.name = f.name
    /\ \/ m.value = f.value
       \/ /\ f.value # Garbage /\ own.map # ""
          /\ \E l \in SUBSET STRING : m.value = Texted(f.value, l)

\* Fields under the names of their properties.
Named(props, fields) ==
    \A i \in DOMAIN fields : \E V : fields[i] \in [at : Nat, name : {props[i].name}, num : Int, value : V]

\* apply_map_values labels values and changes nothing else.
LEMMA MapsLabel ==
    ASSUME NEW maps \in KnownMaps, NEW key, NEW props, NEW fields,
           Named(props, fields), NEW m, m = apply_map_values(maps, key, props, fields).fields
    PROVE  DOMAIN m = DOMAIN fields /\ \A i \in DOMAIN fields : Maybe(props[i], fields[i], m[i])
<1> DEFINE map(i) == get_or_load_map(maps, key, props[i].map)
           mapped == {i \in DOMAIN fields : props[i].map # "" /\ map(i) # None}
           label(i) == IF fields[i].value = Garbage THEN {}
                       ELSE Label(map(i), fields[i].num, fields[i].value)
<1>1. m = [i \in DOMAIN fields |-> IF i \in mapped /\ label(i) # {}
                                   THEN [fields[i] EXCEPT !.value.text = label(i)] ELSE fields[i]]
    BY DEF apply_map_values
<1>2. ASSUME NEW i \in DOMAIN fields
      PROVE  Maybe(props[i], fields[i], m[i])
    <2>1. CASE i \in mapped /\ label(i) # {}
        <3>1. m[i] = [fields[i] EXCEPT !.value = [fields[i].value EXCEPT !.text = label(i)]]
            BY <1>1, <2>1
        <3>2. fields[i].value # Garbage /\ props[i].map # "" /\ label(i) \in SUBSET STRING
            <4>1. fields[i].value # Garbage
                BY <2>1
            <4> QED
                BY <2>1, <4>1, LabelsAreStrings
        <3>3. PICK V : fields[i] \in [at : Nat, name : {props[i].name}, num : Int, value : V]
            BY DEF Named
        <3> DEFINE l == label(i)
                   f == fields[i]
                   v == [f.value EXCEPT !.text = l]
                   P == Nat
                   Q == {props[i].name}
                   I == Int
        <3>4. m[i] = [f EXCEPT !.value = v] /\ f \in [at : P, name : Q, num : I, value : V]
            BY <3>1, <3>3
        <3> HIDE DEF v, f, P, Q, I, label
        <3>5. m[i].at = f.at /\ m[i].name = f.name /\ m[i].value = v
            BY <3>4
        <3> QED
            BY <3>2, <3>5 DEF Maybe, Texted, v, f
    <2>2. CASE ~(i \in mapped /\ label(i) # {})
        <3>1. m[i] = fields[i]
            BY <1>1, <2>2
        <3> QED
            BY <3>1 DEF Maybe
    <2> QED
        BY <2>1, <2>2
<1> QED
    BY <1>1, <1>2

\* What is known of the fields of a record whose payload its schema describes.
FieldsAre(e, props, w, len, m) ==
    /\ \A i \in DOMAIN w : Arrived(e, w, len, i) =>
          /\ i \in DOMAIN m
          /\ m[i].at = Start(w, i) /\ m[i].value # Garbage
          /\ [m[i].value EXCEPT !.text = w[i].text] = w[i]
          /\ props[i].map = "" => m[i].value = w[i]
    /\ \A i \in DOMAIN m :
          /\ i \in DOMAIN w /\ m[i].name = props[i].name
          /\ m[i].value # Garbage => Start(w, i + 1) <= len

\* Behind the maps, the fields are those that were written.
LEMMA FieldsAreFaithful ==
    ASSUME NEW maps \in KnownMaps, NEW key, NEW e, NEW props, NEW w, NEW ptr, Schema(e, props, w, ptr),
           NEW len \in Nat,
           NEW m, m = apply_map_values(maps, key, props, parse_values(props, w, len)).fields
    PROVE  FieldsAre(e, props, w, len, m)
<1> DEFINE f == parse_values(props, w, len)
           whole(i) == Start(w, i + 1) <= len
           there(i) == Arrived(e, w, len, i)
           G == {w[i] : i \in 1..Len(w)} \cup {Garbage}
           N == {props[i].name : i \in 1..Len(w)}
<1>1. WalkRead(e, props, w, len, f)
    BY WalkFaithful
<1> HIDE DEF f
<1>2. /\ f \in Seq(Found(props, w)) /\ Len(f) <= Len(w)
      /\ \A j \in 1..Len(w) : there(j) => j <= Len(f) /\ f[j].at = Start(w, j) /\ f[j].value = w[j]
      /\ \A j \in 1..Len(f) : f[j].name = props[j].name /\ (f[j].value # Garbage => whole(j))
    BY <1>1 DEF WalkRead, InPlace
<1> HIDE DEF there
<1>3. DOMAIN w = 1..Len(w) /\ Len(w) \in Nat /\ \A i \in 1..Len(w) : w[i] \in Field
    BY SchemaFacts, FieldFacts
<1>4. /\ DOMAIN f = 1..Len(f) /\ Len(f) \in Nat
      /\ \A i \in 1..Len(f) : f[i] \in [at : Nat, name : N, num : Int, value : G]
    <2> DEFINE H == Found(props, w)
    <2> HIDE DEF H
    <2>1. f \in Seq(H)
        BY <1>2 DEF H
    <2>2. DOMAIN f = 1..Len(f) /\ Len(f) \in Nat /\ \A i \in 1..Len(f) : f[i] \in H
        BY <2>1
    <2> QED
        BY <2>2 DEF H, Found
<1> HIDE DEF N, G
<1>5. Named(props, f)
    <2> SUFFICES ASSUME NEW i \in DOMAIN f
                 PROVE  \E V : f[i] \in [at : Nat, name : {props[i].name}, num : Int, value : V]
        BY DEF Named
    <2>1. f[i] \in [at : Nat, name : N, num : Int, value : G] /\ f[i].name = props[i].name
        BY <1>2, <1>4
    <2>2. f[i] \in [at : Nat, name : {props[i].name}, num : Int, value : G]
        BY <2>1
    <2> QED
        BY <2>2
<1>6. DOMAIN m = DOMAIN f /\ \A i \in DOMAIN f : Maybe(props[i], f[i], m[i])
    <2>1. m = apply_map_values(maps, key, props, f).fields
        BY DEF f
    <2> QED
        BY <1>5, <2>1, MapsLabel
<1>7. ASSUME NEW i \in DOMAIN w, there(i)
      PROVE  /\ i \in DOMAIN m
             /\ m[i].at = Start(w, i) /\ m[i].value # Garbage
             /\ [m[i].value EXCEPT !.text = w[i].text] = w[i]
             /\ props[i].map = "" => m[i].value = w[i]
    <2>1. i \in 1..Len(f) /\ w[i] \in Field
        BY <1>2, <1>3, <1>4, <1>7
    <2>2. f[i].at = Start(w, i) /\ f[i].value = w[i]
        BY <1>2, <1>3, <1>7
    <2>3. i \in DOMAIN m /\ Maybe(props[i], f[i], m[i])
        BY <1>4, <1>6, <2>1
    <2>4. CASE m[i].value = f[i].value
        <3>1. w[i] # Garbage /\ [w[i] EXCEPT !.text = w[i].text] = w[i]
            BY <2>1, GarbageAssumption DEF Field
        <3> QED
            BY <2>2, <2>3, <2>4, <3>1 DEF Maybe
    <2>5. CASE m[i].value # f[i].value
        <3>1. PICK l \in SUBSET STRING : m[i].value = Texted(w[i], l)
            BY <2>2, <2>3, <2>5 DEF Maybe
        <3>2. m[i].value # Garbage /\ Texted(m[i].value, w[i].text) = w[i]
            BY <2>1, <3>1, Retexted
        <3>3. props[i].map # "" /\ m[i].at = f[i].at
            BY <2>3, <2>5 DEF Maybe
        <3> QED
            BY <2>2, <2>3, <3>2, <3>3 DEF Texted
    <2> QED
        BY <2>4, <2>5
<1>8. ASSUME NEW i \in DOMAIN m
      PROVE  /\ i \in DOMAIN w /\ m[i].name = props[i].name
             /\ m[i].value # Garbage => whole(i)
    <2>1. i \in 1..Len(f) /\ i \in DOMAIN w
        BY <1>2, <1>3, <1>4, <1>6
    <2>2. Maybe(props[i], f[i], m[i])
        BY <1>6
    <2>3. m[i].name = f[i].name /\ (m[i].value # Garbage => f[i].value # Garbage)
        BY <2>2 DEF Maybe
    <2> QED
        BY <1>2, <2>1, <2>3
<1> QED
    BY <1>7, <1>8 DEF FieldsAre, there

\* A payload that was not cut gives every field.
AllThere(props, w, m) ==
    /\ DOMAIN m = DOMAIN w /\ DOMAIN props = DOMAIN w /\ DOMAIN w \subseteq Nat
    /\ \A i \in DOMAIN w : m[i].name = props[i].name /\ m[i].value # Garbage

\* A payload that was not cut, with no misread field, gives all its fields.
LEMMA WholeGivesAll ==
    ASSUME NEW e, NEW props, NEW w, NEW ptr, Schema(e, props, w, ptr), Clean(e, w, Len(w)),
           NEW m, FieldsAre(e, props, w, Total(w), m)
    PROVE  AllThere(props, w, m)
<1>1. w \in Seq(Field) /\ DOMAIN props = DOMAIN w
    BY SchemaFacts
<1>2. DOMAIN w = 1..Len(w) /\ Len(w) \in Nat
    BY <1>1, FieldFacts
<1>3. ASSUME NEW i \in DOMAIN w
      PROVE  Arrived(e, w, Total(w), i)
    <2>1. i + 1 \in 1..Len(w) + 1
        BY <1>2
    <2>2. /\ \A k \in 1..Len(w) + 1 : Start(w, k) \in Nat
          /\ \A k \in 1..Len(w) : w[k].size \in Nat /\ Start(w, k + 1) = Start(w, k) + w[k].size
        BY <1>1, StartFacts
    <2>3. Start(w, i + 1) <= Total(w)
        BY <1>1, <2>1, <2>2, StartsRise
    <2>4. Clean(e, w, i)
        BY <1>2 DEF Clean
    <2> QED
        BY <2>3, <2>4 DEF Arrived
<1>4. DOMAIN m = DOMAIN w
    BY <1>3 DEF FieldsAre
<1>5. DOMAIN w \subseteq Nat
    BY <1>2
<1> QED
    BY <1>1, <1>3, <1>4, <1>5 DEF FieldsAre, AllThere

\* The least member of a set of numbers is one.
LEMMA LeastChosen ==
    ASSUME NEW S \in SUBSET Nat, S # {}
    PROVE  (CHOOSE i \in S : \A k \in S : i <= k) \in S
BY NatMin

\* The fields with one of these names; the value of one of some fields.
Having(fields, names) == {i \in DOMAIN fields : \E j \in DOMAIN names : fields[i].name = names[j]}
OneOf(fields, S, v) == IF S = {} THEN v = Garbage ELSE \E i \in S : v = fields[i].value

\* field_by_name finds a field with one of the names if there is one.
LEMMA FoundByName ==
    ASSUME NEW fields, DOMAIN fields \subseteq Nat, NEW names, NEW n \in Nat, DOMAIN names = 1..n
    PROVE  OneOf(fields, Having(fields, names), field_by_name(fields, names))
<1> DEFINE has(x) == {i \in DOMAIN fields : fields[i].name = x}
           some == {j \in DOMAIN names : has(names[j]) # {}}
           first == {j \in DOMAIN names : has(names[j]) # {} /\ \A k \in 1..j-1 : has(names[k]) = {}}
           j0 == CHOOSE j \in first : TRUE
           i0 == CHOOSE i \in has(names[j0]) : \A k \in has(names[j0]) : i <= k
<1>1. field_by_name(fields, names) = IF first = {} THEN Garbage ELSE fields[i0].value
    BY DEF field_by_name
<1>2. some = {} <=> Having(fields, names) = {}
    BY DEF Having
<1>3. first = {} <=> some = {}
    <2>1. ASSUME some # {}
          PROVE  first # {}
        <3>1. some \in SUBSET Nat
            OBVIOUS
        <3>2. PICK j \in some : \A k \in some : j <= k
            <4> HIDE DEF some
            <4> QED
                BY <2>1, <3>1, NatMin
        <3>3. ASSUME NEW k \in 1..j-1
              PROVE  has(names[k]) = {}
            <4>1. j \in 1..n
                BY <3>2
            <4>2. k \in DOMAIN names /\ ~(j <= k)
                BY <4>1
            <4>3. k \notin some
                <5> HIDE DEF some
                <5> QED
                    BY <3>2, <4>2
            <4> QED
                BY <4>2, <4>3
        <3> QED
            BY <3>2, <3>3
    <2> QED
        BY <2>1
<1>4. CASE first = {}
    BY <1>1, <1>2, <1>3, <1>4 DEF OneOf
<1>5. CASE first # {}
    <2>1. j0 \in first
        <3> HIDE DEF first
        <3> QED
            BY <1>5
    <2>2. has(names[j0]) # {} /\ has(names[j0]) \in SUBSET Nat /\ j0 \in DOMAIN names
        <3> HIDE DEF j0
        <3> QED
            BY <2>1
    <2>3. i0 \in has(names[j0])
        <3> DEFINE S == has(names[j0])
        <3> HIDE DEF S
        <3>1. S # {} /\ S \in SUBSET Nat
            BY <2>2 DEF S
        <3>2. (CHOOSE i \in S : \A k \in S : i <= k) \in S
            BY <3>1, LeastChosen
        <3> QED
            BY <3>2 DEF S
    <2>4. i0 \in Having(fields, names)
        <3> HIDE DEF i0, j0, first
        <3> QED
            BY <2>2, <2>3 DEF Having
    <2> HIDE DEF i0
    <2> QED
        BY <1>1, <1>5, <2>4 DEF OneOf
<1> QED
    BY <1>4, <1>5

\* field_ip_by_pattern finds a field that sounds like the side and holds an
\* address, if there is one.
LEMMA FoundByPattern ==
    ASSUME NEW fields, DOMAIN fields \subseteq Nat, NEW side
    PROVE  OneOf(fields, {i \in DOMAIN fields : Sounds(fields[i].name) = side /\ parse_ip_value(fields[i].value)},
                 field_ip_by_pattern(fields, side))
<1> DEFINE like == {i \in DOMAIN fields : Sounds(fields[i].name) = side /\ parse_ip_value(fields[i].value)}
           i0 == CHOOSE i \in like : \A k \in like : i <= k
<1>1. field_ip_by_pattern(fields, side) = IF like = {} THEN Garbage ELSE fields[i0].value
    BY DEF field_ip_by_pattern
<1>2. like \in SUBSET Nat
    OBVIOUS
<1> HIDE DEF like
<1>3. like # {} => i0 \in like
    BY <1>2, LeastChosen
<1> HIDE DEF i0
<1>4. OneOf(fields, like, field_ip_by_pattern(fields, side))
    BY <1>1, <1>3 DEF OneOf
<1> QED
    BY <1>4 DEF like

\* field_ip: an address by alias or by pattern is one of its side.
LEMMA AddressFound ==
    ASSUME NEW fields, DOMAIN fields \subseteq Nat, NEW names, NEW n \in Nat, DOMAIN names = 1..n,
           NEW side, \A j \in DOMAIN names : Sounds(names[j]) = side
    PROVE  OneOf(fields, {i \in DOMAIN fields : Sounds(fields[i].name) = side /\ parse_ip_value(fields[i].value)},
                 field_ip(fields, names, side))
<1> DEFINE like == {i \in DOMAIN fields : Sounds(fields[i].name) = side /\ parse_ip_value(fields[i].value)}
           v == field_by_name(fields, names)
<1>1. field_ip(fields, names, side) = IF parse_ip_value(v) THEN v ELSE field_ip_by_pattern(fields, side)
    BY DEF field_ip
<1>2. OneOf(fields, Having(fields, names), v)
    BY FoundByName
<1> HIDE DEF v
<1>3. CASE parse_ip_value(v)
    <2>1. v # Garbage
        BY <1>3 DEF parse_ip_value
    <2>2. PICK i \in Having(fields, names) : v = fields[i].value
        BY <1>2, <2>1 DEF OneOf
    <2>3. i \in like
        BY <1>3, <2>2 DEF Having
    <2> HIDE DEF like
    <2>4. OneOf(fields, like, field_ip(fields, names, side))
        BY <1>1, <1>3, <2>2, <2>3 DEF OneOf
    <2> QED
        BY <2>4 DEF like
<1>4. CASE ~parse_ip_value(v)
    BY <1>1, <1>4, FoundByPattern
<1> QED
    BY <1>3, <1>4

\* The lists of aliases.
LEMMA AliasLists ==
    /\ DOMAIN SourceNames = 1..8 /\ DOMAIN DestinationNames = 1..8
    /\ DOMAIN KeyNames = 1..2 /\ DOMAIN ValueNames = 1..2
<1>1. DOMAIN SourceNames = 1..8
    BY DEF SourceNames
<1>2. DOMAIN DestinationNames = 1..8
    BY DEF DestinationNames
<1>3. DOMAIN KeyNames = 1..2
    BY DEF KeyNames
<1>4. DOMAIN ValueNames = 1..2
    BY DEF ValueNames
<1> QED
    BY <1>1, <1>2, <1>3, <1>4

\* What a decoded event of a kind was made from.
LEMMA TypedFrom ==
    ASSUME NEW r, NEW fields, fields # None, NEW d, d = decode_from_record_parts(r, fields)
    PROVE  /\ d.kind = "tcp" => d = map_tcp(fields)
           /\ d.kind = "registry" => d = map_registry(r.key.opcode, fields)
<1> DEFINE k == r.key
           p == decode_process_parts(k.version, k.opcode, r.pointer, r.wrote, r.len)
           q == decode_image_parts(k.version, k.opcode, r.pointer, r.wrote, r.len)
           classic == CASE k.provider = Process -> p [] k.provider = ImageLoad -> q [] OTHER -> "none"
           g == decode_from_generic(k, fields)
<1>1. p \in {"none", "panic", "event"} /\ q \in {"none", "event"}
    BY DEF decode_process_parts, decode_image_parts
<1>2. d = CASE classic # "none" -> [kind |-> classic]
            [] classic = "none" /\ fields = None -> [kind |-> "unknown"]
            [] OTHER -> g
    BY DEF decode_from_record_parts
<1> HIDE DEF p, q, g
<1>3. classic \in {"none", "panic", "event"}
    BY <1>1
<1> HIDE DEF classic
<1>4. d.kind \in {"tcp", "registry"} => d = g
    BY <1>2, <1>3
<1>5. map_tcp(fields).kind = "tcp" /\ map_registry(k.opcode, fields).kind = "registry"
    BY DEF map_tcp, map_registry
<1>6. \/ g = map_tcp(fields) \/ g = map_registry(k.opcode, fields) \/ g = [kind |-> "generic"]
    BY DEF g, decode_from_generic
<1> QED
    BY <1>4, <1>5, <1>6

\* map_tcp's addresses.
LEMMA AddressesAreFaithful ==
    ASSUME NEW own, AllThere(own, last.record.wrote, last.fields), NEW side,
           NEW names, NEW n \in Nat, DOMAIN names = 1..n, \A j \in DOMAIN names : Sounds(names[j]) = side
    PROVE  AddressFaithful(own, field_ip(last.fields, names, side), side)
<1> DEFINE m == last.fields
           w == last.record.wrote
           like == {i \in DOMAIN w : Sounds(own[i].name) = side /\ parse_ip_value(m[i].value)}
           found == {i \in DOMAIN m : Sounds(m[i].name) = side /\ parse_ip_value(m[i].value)}
           a == field_ip(m, names, side)
<1>1. DOMAIN m = DOMAIN w /\ DOMAIN m \subseteq Nat /\ \A i \in DOMAIN w : m[i].name = own[i].name
    BY DEF AllThere
<1>2. OneOf(m, found, a)
    BY <1>1, AddressFound
<1>3. like = found
    BY <1>1
<1> HIDE DEF like, found, a
<1>4. IF like = {} THEN a = Garbage ELSE \E i \in like : a = m[i].value
    BY <1>2, <1>3 DEF OneOf
<1> QED
    BY <1>4 DEF AddressFaithful, like, a

\* The properties with one of these names.
Called(own, names) == {i \in DOMAIN own : \E j \in DOMAIN names : own[i].name = names[j]}

\* field_string gives the text of the one field that has the name.
LEMMA NameFound ==
    ASSUME NEW own, AllThere(own, last.record.wrote, last.fields),
           NEW names, NEW n \in Nat, DOMAIN names = 1..n, \A i, j \in Called(own, names) : i = j
    PROVE  /\ Called(own, names) = {} => field_string(last.fields, names) = {}
           /\ \A i \in Called(own, names) : field_string(last.fields, names) = last.fields[i].value.text
<1> DEFINE S == Called(own, names)
           m == last.fields
           v == field_by_name(m, names)
<1>1. /\ DOMAIN m = DOMAIN own /\ DOMAIN m \subseteq Nat
      /\ \A i \in DOMAIN own : m[i].name = own[i].name /\ m[i].value # Garbage
    BY DEF AllThere
<1>2. Having(m, names) = S
    BY <1>1 DEF Having, Called
<1>3. OneOf(m, S, v)
    BY <1>1, <1>2, FoundByName
<1>4. field_string(m, names) = IF v = Garbage THEN {} ELSE v.text
    BY DEF field_string
<1> HIDE DEF v
<1>5. S = {} => v = Garbage
    BY <1>3 DEF OneOf
<1>6. ASSUME NEW i \in S
      PROVE  v = m[i].value /\ v # Garbage
    <2>1. PICK j \in S : v = m[j].value
        BY <1>3, <1>6 DEF OneOf
    <2>2. j = i /\ i \in DOMAIN own
        BY <1>6 DEF Called
    <2> QED
        BY <1>1, <2>1, <2>2
<1> QED
    BY <1>4, <1>5, <1>6

\* map_registry's names.
LEMMA NamesAreFaithful ==
    ASSUME NEW own, AllThere(own, last.record.wrote, last.fields),
           NEW d, d = map_registry(last.record.key.opcode, last.fields)
    PROVE  NamesFaithful(own, d.key, d.value)
<1> DEFINE K == Called(own, KeyNames)
           V == Called(own, ValueNames)
           text(i) == last.fields[i].value.text
           values == last.record.key.opcode \in NamesAValue
           classic == values /\ \A i \in V : text(i) = {}
           name == field_string(last.fields, KeyNames)
           value == field_string(last.fields, ValueNames)
           swap == values /\ value = {}
<1> SUFFICES ASSUME \A i, j \in K : i = j, \A i, j \in V : i = j
             PROVE  /\ \A i \in K : IF classic THEN d.key = {} /\ d.value = text(i) ELSE d.key = text(i)
                    /\ ~classic => \A i \in V : d.value = text(i)
    BY DEF NamesFaithful, Called
<1>1. \A i \in K : name = text(i)
    BY AliasLists, NameFound
<1>2. (V = {} => value = {}) /\ \A i \in V : value = text(i)
    BY AliasLists, NameFound
<1>3. d.key = (IF swap THEN {} ELSE name) /\ d.value = IF swap THEN name ELSE value
    BY DEF map_registry
<1> HIDE DEF K, V, name, value, values
<1>4. swap <=> classic
    BY <1>2
<1> QED
    BY <1>1, <1>2, <1>3, <1>4

\* The typed events.
LEMMA TypedIsFaithful ==
    ASSUME NEW own, AllThere(own, last.record.wrote, last.fields), last.fields # None,
           last.decoded = decode_from_record_parts(last.record, last.fields)
    PROVE  TypedFaithful(own)
<1>1. ASSUME last.decoded.kind = "tcp"
      PROVE  /\ AddressFaithful(own, last.decoded.source, "source")
             /\ AddressFaithful(own, last.decoded.destination, "destination")
    <2>1. last.decoded = map_tcp(last.fields)
        BY <1>1, TypedFrom
    <2>2. /\ last.decoded.source = field_ip(last.fields, SourceNames, "source")
          /\ last.decoded.destination = field_ip(last.fields, DestinationNames, "destination")
        BY <2>1 DEF map_tcp
    <2>3. /\ \A j \in DOMAIN SourceNames : Sounds(SourceNames[j]) = "source"
          /\ \A j \in DOMAIN DestinationNames : Sounds(DestinationNames[j]) = "destination"
        BY SoundsAssumption
    <2>4. AddressFaithful(own, field_ip(last.fields, SourceNames, "source"), "source")
        BY <2>3, AliasLists, AddressesAreFaithful
    <2>5. AddressFaithful(own, field_ip(last.fields, DestinationNames, "destination"), "destination")
        BY <2>3, AliasLists, AddressesAreFaithful
    <2> QED
        BY <2>2, <2>4, <2>5
<1>2. ASSUME last.decoded.kind = "registry"
      PROVE  NamesFaithful(own, last.decoded.key, last.decoded.value)
    <2>1. last.decoded = map_registry(last.record.key.opcode, last.fields)
        BY <1>2, TypedFrom
    <2> QED
        BY <2>1, NamesAreFaithful
<1> QED
    BY <1>1, <1>2 DEF TypedFaithful

\* What is decoded is made from the fields that were read.
DecodesItsFields == last.fields # None => last.decoded = decode_from_record_parts(last.record, last.fields)

\* Read with its own schema, a record is decoded to what was written.
LEMMA DecodedAsWritten ==
    ASSUME CacheSound, DecodesItsFields
    PROVE  DecodedFaithfully
<1> DEFINE e == Told
           own == Own
           w == last.record.wrote
           len == last.record.len
           m == last.fields
<1> SUFFICES ASSUME AsWritten
             PROVE  FieldsFaithful(own) /\ (len = Total(w) /\ Clean(e, w, Len(w)) => TypedFaithful(own))
    BY DEF DecodedFaithfully
<1>1. m # None /\ len \in Nat /\ Schema(e, own, w, last.record.pointer)
    BY DEF AsWritten, Schema, Own
<1>2. PICK maps \in KnownMaps : m = apply_map_values(maps, last.record.key, own, parse_values(own, w, len)).fields
    <2>1. ReadAs(last.record.event)
        BY DEF AsWritten, CacheSound
    <2> QED
        BY <2>1 DEF ReadAs, Own, Told
<1> HIDE DEF own, e
<1>3. FieldsAre(e, own, w, len, m)
    BY <1>1, <1>2, FieldsAreFaithful
<1>4. FieldsFaithful(own)
    BY <1>3 DEF FieldsAre, FieldsFaithful, Arrived, e
<1>5. ASSUME len = Total(w), Clean(e, w, Len(w))
      PROVE  TypedFaithful(own)
    <2>1. AllThere(own, w, m)
        BY <1>1, <1>3, <1>5, WholeGivesAll
    <2> QED
        BY <1>1, <2>1, TypedIsFaithful DEF DecodesItsFields
<1> QED
    BY <1>4, <1>5

\* etw/schema.rs and etw/decode: whatever was decoded before and wherever a
\* payload is cut, the fields that arrived are those its writer put there by
\* TDH's rules, up to the first that is laid out in one of the ways Misread
\* lists, and a typed TCP or registry event of a whole one without these says
\* what they say: for any manifest, maps, records and stray bytes, where the
\* key of a record determines its event.
THEOREM DecodesFaithfully == DecodeSpec => []DecodedFaithfully
<1>1. DecodeInit => DecodesItsFields
    BY DEF DecodeInit, DecodesItsFields
<1>2. ASSUME DecodesItsFields, [DecodeNext]_decodeVars
      PROVE  DecodesItsFields'
    <2>1. CASE Callback
        <3>1. \E fields, a : last' = [record |-> pending, answered |-> a, fields |-> fields,
                                      decoded |-> decode_from_record_parts(pending, fields)]
            BY <2>1 DEF Callback
        <3>2. last'.decoded = decode_from_record_parts(last'.record, last'.fields)
            BY <3>1
        <3> QED
            BY <3>2 DEF DecodesItsFields
    <2>2. CASE UNCHANGED last
        BY <1>2, <2>2 DEF DecodesItsFields
    <2> QED
        BY <1>2, <2>1, <2>2 DEF DecodeNext, Register, Write, DropProvider, Deliver, decodeVars
<1>3. CacheSound /\ DecodesItsFields => DecodedFaithfully
    BY DecodedAsWritten
<1> QED
    BY <1>1, <1>2, <1>3, SchemaCacheInvisible, PTL DEF DecodeSpec

-----------------------------------------------------------------------------
(* The life of a trace session.                                            *)


\* Counters start at zero, the least natural number.
LEMMA ZeroLeast == \A n \in Nat : 0 <= n
OBVIOUS

USE BuilderAssumption, DistinctAssumption DEF DistinctAssumption

-----------------------------------------------------------------------------
(* Facts about the constants.                                              *)

\* Every session has a slot in the table of names (SessionName of a builder).
LEMMA NameInTable == ASSUME NEW t \in Traces PROVE SessionName(t) \in Names
BY DEF Names

\* The loop of start over user providers has a natural number of turns.
LEMMA UserCount == ASSUME NEW t \in Traces PROVE Builder[t].user \in Nat
BY DEF BuilderAssumption, BuilderType

\* Whether a builder has kernel providers is a truth value.
LEMMA KernelBoolean == ASSUME NEW t \in Traces PROVE IsKernel(t) \in BOOLEAN
BY DEF IsKernel

-----------------------------------------------------------------------------
(* Type correctness.                                                       *)

\* A step of start keeps the types of every variable.
LEMMA StartTypes ==
    ASSUME TypeOK, NEW t \in Traces, StartStep(t) PROVE TypeOK'
<1>1. SessionName(t) \in Names /\ Builder[t].user \in Nat
  BY NameInTable, UserCount
<1> USE <1>1 DEF TypeOK, Pc, StartPc, Goto, CreateSession, StopByName
<1>2. CASE StartInvalid(t) BY <1>2 DEF StartInvalid
<1>3. CASE StartTrace(t)
  <2>1. table' \in [Names -> Traces \cup {Tool, NoSession}] /\ pc' \in [Traces -> Pc]
    BY <1>3 DEF StartTrace
  <2>2. IsKernel(t) \in BOOLEAN BY KernelBoolean
  <2>3. providersOn' \in [Traces -> BOOLEAN] BY <1>3, <2>2 DEF StartTrace
  <2> QED BY <1>3, <2>1, <2>3 DEF StartTrace
<1>4. CASE StopStale(t) BY <1>4 DEF StopStale
<1>5. CASE RetryStart(t)
  <2>1. table' \in [Names -> Traces \cup {Tool, NoSession}] /\ pc' \in [Traces -> Pc]
    BY <1>5 DEF RetryStart
  <2>4. replaced' \in [Traces -> BOOLEAN] BY <1>5 DEF RetryStart
  <2>2. IsKernel(t) \in BOOLEAN BY KernelBoolean
  <2>3. providersOn' \in [Traces -> BOOLEAN] BY <1>5, <2>2 DEF RetryStart
  <2> QED BY <1>5, <2>1, <2>3, <2>4 DEF RetryStart
<1>6. CASE EnableProvider(t)
  <2>1. enabled' \in [Traces -> Nat] /\ \A u \in Traces : enabled'[u] <= Builder[u].user
    BY <1>6, UserCount DEF EnableProvider
  <2> QED BY <1>6, <2>1 DEF EnableProvider
<1>7. CASE OpenTrace(t) BY <1>7 DEF OpenTrace
<1>8. CASE CleanUp(t) BY <1>8 DEF CleanUp
<1>9. CASE SpawnThread(t) BY <1>9 DEF SpawnThread
<1>10. CASE CreateSignal(t) BY <1>10 DEF CreateSignal
<1> QED BY <1>2, <1>3, <1>4, <1>5, <1>6, <1>7, <1>8, <1>9, <1>10 DEF StartStep

\* Every other step does too.
LEMMA OtherTypes ==
    ASSUME TypeOK,
           \/ \E t \in Traces : RunStep(t) \/ StopStep(t) \/ ThreadExit(t) \/ Crash(t)
           \/ \E n \in Names : ToolStart(n) \/ ToolStop(n)
    PROVE TypeOK'
<1> USE DEF TypeOK, Pc, StartPc, Goto, StopByName
<1>1. ASSUME NEW t \in Traces, RunStep(t) PROVE TypeOK'
  <2>1. SessionName(t) \in Names BY NameInTable
  <2>2. CASE RundownClear(t) BY <2>2 DEF RundownClear
  <2>3. CASE RundownSet(t) BY <2>3 DEF RundownSet
  <2>4. CASE Stop(t) BY <2>1, <2>4 DEF Stop
  <2>5. CASE DropTrace(t) BY <2>5 DEF DropTrace
  <2> QED BY <1>1, <2>2, <2>3, <2>4, <2>5 DEF RunStep
<1>2. ASSUME NEW t \in Traces, StopStep(t) PROVE TypeOK'
  BY <1>2 DEF StopStep, StopClose, StopJoin
<1>3. ASSUME NEW t \in Traces, ThreadExit(t) PROVE TypeOK'
  BY <1>3 DEF ThreadExit
<1>4. ASSUME NEW t \in Traces, Crash(t) PROVE TypeOK'
  BY <1>4 DEF Crash
<1>5. ASSUME NEW n \in Names, ToolStart(n) PROVE TypeOK'
  BY <1>5 DEF ToolStart
<1>6. ASSUME NEW n \in Names, ToolStop(n) PROVE TypeOK'
  BY <1>6 DEF ToolStop
<1> QED BY <1>1, <1>2, <1>3, <1>4, <1>5, <1>6

\* Every variable keeps its type, through any interleaving of starts, stops,
\* crashes and other tools.
THEOREM TypeCorrect == Spec => []TypeOK
<1>1. Init => TypeOK
  <2> SUFFICES ASSUME Init PROVE TypeOK OBVIOUS
  <2>1. ASSUME NEW t \in Traces PROVE enabled[t] <= Builder[t].user
    <3>1. Builder[t].user \in Nat BY UserCount
    <3>2. enabled[t] = 0 BY DEF Init
    <3>3. 0 <= Builder[t].user BY <3>1, ZeroLeast
    <3> QED BY <3>2, <3>3
  <2> QED BY <2>1 DEF Init, TypeOK, Pc
<1>2. TypeOK /\ [Next]_vars => TypeOK'
  <2> SUFFICES ASSUME TypeOK, [Next]_vars PROVE TypeOK' OBVIOUS
  <2>1. CASE \E t \in Traces : StartStep(t) BY <2>1, StartTypes
  <2>2. CASE UNCHANGED vars BY <2>2 DEF vars, TypeOK
  <2> QED BY <2>1, <2>2, OtherTypes DEF Next
<1> QED BY <1>1, <1>2, PTL DEF Spec

-----------------------------------------------------------------------------
(* The life cycle of a trace.                                              *)

NotStarted == {"idle", "stale", "retry", "failed"}
NotOpened == {"idle", "stale", "retry", "started", "open", "cleanup", "failed"}
Holding == {"spawn", "signal", "running", "rundown", "closing", "joining", "stopped"}

\* What a trace owns at each point of start, stop and Drop: its callback
\* context, its thread and its trace handle.
Resources(t) ==
    /\ pc[t] \in NotOpened => thread[t] = "none" /\ traceOpen[t] = FALSE
    /\ pc[t] \in {"idle", "stale", "retry", "started", "open"} =>
           ctx[t] = "none" /\ attached[t] = NoSession
    /\ pc[t] = "failed" => ctx[t] # "live"
    /\ pc[t] \in Holding => ctx[t] = "live"
    /\ pc[t] \in {"spawn", "crashed"} => thread[t] = "none"
    /\ pc[t] \in {"joining", "stopped", "dropped"} => traceOpen[t] = FALSE
    /\ pc[t] \in {"stopped", "dropped"} => thread[t] = "finished"
    /\ pc[t] \in {"spawn", "signal", "leaked"} => traceOpen[t] = TRUE
    /\ pc[t] \in {"signal", "leaked"} => thread[t] # "none"
    /\ pc[t] = "leaked" => ctx[t] = "freed"

\* Its session is in the table only after a successful StartTraceW and before
\* the ControlTraceW of stop or of the clean-up.
Ended(t) ==
    pc[t] \in NotStarted \cup {"closing", "joining", "stopped", "dropped"} => ~Live(t)

Consumes(t) == Live(t) => attached[t] \in {t, NoSession}

Restored(t) ==
    IsKernel(t) /\ Live(t) /\ ~providersOn[t] =>
        pc[t] \in {"rundown", "crashed"} \/ rundown[t] = "err"

\* With its handle open, ProcessTrace has returned only because the session it
\* reads is over.
Outlived(t) == traceOpen[t] /\ thread[t] = "finished" => ~(Live(t) /\ attached[t] = t)

Life(t) == Resources(t) /\ Ended(t) /\ Consumes(t) /\ Restored(t) /\ Outlived(t)

\* The inductive invariant.
LifeInv == \A t \in Traces : Life(t)

\* Initially no trace owns anything.
LEMMA LifeInit == Init => LifeInv
<1> SUFFICES ASSUME Init, NEW t \in Traces PROVE Life(t) BY DEF LifeInv
<1>1. Resources(t) BY DEF Init, Resources, NotOpened, Holding
<1>2. ~Live(t)
  <2>1. SessionName(t) \in Names BY NameInTable
  <2>2. table[SessionName(t)] = NoSession BY <2>1 DEF Init
  <2> QED BY <2>2 DEF Live
<1> QED BY <1>1, <1>2 DEF Life, Ended, Consumes, Restored, Outlived

\* A step of a trace touches the resources of that trace only.
LEMMA ResourcesStep ==
    ASSUME TypeOK, LifeInv, Next, NEW u \in Traces PROVE Resources(u)'
<1>0. Resources(u) BY DEF LifeInv, Life
<1> USE <1>0 DEF TypeOK, Resources, Goto, NotOpened, Holding, Pc, StartPc
<1>1. ASSUME NEW t \in Traces, StartStep(t) PROVE Resources(u)'
  <2>2. CASE StartInvalid(t) BY <2>2 DEF StartInvalid
  <2>3. CASE StartTrace(t) BY <2>3 DEF StartTrace
  <2>4. CASE StopStale(t) BY <2>4 DEF StopStale
  <2>5. CASE RetryStart(t) BY <2>5 DEF RetryStart
  <2>6. CASE EnableProvider(t) BY <2>6 DEF EnableProvider
  <2>7. CASE OpenTrace(t) BY <2>7 DEF OpenTrace
  <2>8. CASE CleanUp(t) BY <2>8 DEF CleanUp
  <2>9. CASE SpawnThread(t) BY <2>9 DEF SpawnThread
  <2>10. CASE CreateSignal(t) BY <2>10 DEF CreateSignal
  <2> QED BY <1>1, <2>2, <2>3, <2>4, <2>5, <2>6, <2>7, <2>8, <2>9, <2>10 DEF StartStep
<1>2. ASSUME NEW t \in Traces, RunStep(t) PROVE Resources(u)'
  <2>1. CASE RundownClear(t) BY <2>1 DEF RundownClear
  <2>2. CASE RundownSet(t) BY <2>2 DEF RundownSet
  <2>3. CASE Stop(t) BY <2>3 DEF Stop
  <2>4. CASE DropTrace(t) BY <2>4 DEF DropTrace
  <2> QED BY <1>2, <2>1, <2>2, <2>3, <2>4 DEF RunStep
<1>3. ASSUME NEW t \in Traces, StopStep(t) PROVE Resources(u)'
  BY <1>3 DEF StopStep, StopClose, StopJoin
<1>4. ASSUME NEW t \in Traces, ThreadExit(t) PROVE Resources(u)'
  BY <1>4 DEF ThreadExit
<1>5. ASSUME NEW t \in Traces, Crash(t) PROVE Resources(u)'
  BY <1>5 DEF Crash
<1>6. ASSUME NEW n \in Names, ToolStart(n) \/ ToolStop(n) PROVE Resources(u)'
  BY <1>6 DEF ToolStart, ToolStop
<1> QED BY <1>1, <1>2, <1>3, <1>4, <1>5, <1>6 DEF Next

\* Only t enters its own session in the table, when it had none: a step of t
\* either leaves the table alone, ends the session of t's name, or creates it.
LEMMA TableStep ==
    ASSUME TypeOK, NEW t \in Traces,
           StartStep(t) \/ RunStep(t) \/ StopStep(t) \/ ThreadExit(t) \/ Crash(t)
    PROVE \/ table' = table
          \/ table' = [table EXCEPT ![SessionName(t)] = NoSession]
          \/ /\ table' = [table EXCEPT ![SessionName(t)] = t]
             /\ pc[t] \in {"idle", "retry"} /\ pc'[t] = "started"
BY DEF TypeOK, StartStep, RunStep, StopStep, StartInvalid, StartTrace, StopStale, RetryStart,
    EnableProvider, OpenTrace, CleanUp, SpawnThread, CreateSignal, RundownClear, RundownSet,
    Stop, DropTrace, StopClose, StopJoin, ThreadExit, Crash, Goto, CreateSession, StopByName

\* The table changes only under the name a step of t works on, or the name
\* another tool chose; so a session that is live after a step was live before
\* it, unless the step was its own StartTraceW.
LEMMA LiveStep ==
    ASSUME TypeOK, Next, NEW u \in Traces, Live(u)'
    PROVE  \/ Live(u)
           \/ pc[u] \in {"idle", "retry"} /\ pc'[u] = "started"
<1>0. SessionName(u) \in Names BY NameInTable
<1>1. ASSUME NEW t \in Traces,
             StartStep(t) \/ RunStep(t) \/ StopStep(t) \/ ThreadExit(t) \/ Crash(t)
      PROVE  Live(u) \/ (pc[u] \in {"idle", "retry"} /\ pc'[u] = "started")
  <2>0. SessionName(t) \in Names BY NameInTable
  <2>1. CASE table' = table BY <2>1 DEF Live
  <2>2. CASE table' = [table EXCEPT ![SessionName(t)] = NoSession]
    BY <1>0, <2>0, <2>2 DEF Live, TypeOK
  <2>3. CASE /\ table' = [table EXCEPT ![SessionName(t)] = t]
             /\ pc[t] \in {"idle", "retry"} /\ pc'[t] = "started"
    BY <1>0, <2>0, <2>3 DEF Live, TypeOK
  <2> QED BY <1>1, <2>1, <2>2, <2>3, TableStep
<1>2. ASSUME NEW n \in Names, ToolStart(n) PROVE Live(u)
  BY <1>0, <1>2 DEF ToolStart, Live, TypeOK
<1>3. ASSUME NEW n \in Names, ToolStop(n) PROVE Live(u)
  BY <1>0, <1>3 DEF ToolStop, Live, TypeOK
<1> QED BY <1>1, <1>2, <1>3 DEF Next

\* The session of a trace that is past its ControlTraceW, or has not started
\* one, is not in the table.
LEMMA EndedStep ==
    ASSUME TypeOK, LifeInv, Next, NEW u \in Traces PROVE Ended(u)'
<1>0. Ended(u) /\ SessionName(u) \in Names BY NameInTable DEF LifeInv, Life
<1> SUFFICES ASSUME Live(u)',
                    pc'[u] \in NotStarted \cup {"closing", "joining", "stopped", "dropped"}
             PROVE  FALSE
  BY DEF Ended
<1>1. Live(u) BY LiveStep DEF NotStarted
<1>2. pc[u] \notin NotStarted \cup {"closing", "joining", "stopped", "dropped"}
  BY <1>0, <1>1 DEF Ended
<1>3. PICK t \in Traces : StartStep(t) \/ RunStep(t) \/ StopStep(t) \/ ThreadExit(t) \/ Crash(t)
  BY <1>2 DEF Next, ToolStart, ToolStop
<1>4. CleanUp(u) \/ Stop(u)
  BY <1>2, <1>3 DEF NotStarted, TypeOK, StartStep, RunStep, StopStep, StartInvalid, StartTrace,
    StopStale, RetryStart, EnableProvider, OpenTrace, CleanUp, SpawnThread, CreateSignal,
    RundownClear, RundownSet, Stop, DropTrace, StopClose, StopJoin, ThreadExit, Crash, Goto
<1>5. table'[SessionName(u)] = NoSession
  BY <1>0, <1>4 DEF CleanUp, Stop, StopByName, TypeOK
<1> QED BY <1>5 DEF Live

\* OpenTraceW finds the session by name; while t's own session has the name,
\* that is the one it attaches to.
LEMMA ConsumesStep ==
    ASSUME TypeOK, LifeInv, Next, NEW u \in Traces PROVE Consumes(u)'
<1>0. Consumes(u) /\ Resources(u) BY DEF LifeInv, Life
<1> SUFFICES ASSUME Live(u)' PROVE attached'[u] \in {u, NoSession} BY DEF Consumes
<1>1. attached'[u] = attached[u] \/ (OpenTrace(u) /\ attached'[u] = table[SessionName(u)])
  <2>1. ASSUME NEW t \in Traces, StartStep(t)
        PROVE  attached'[u] = attached[u] \/ (OpenTrace(u) /\ attached'[u] = table[SessionName(u)])
    BY <2>1 DEF TypeOK, StartStep, StartInvalid, StartTrace, StopStale, RetryStart,
      EnableProvider, OpenTrace, CleanUp, SpawnThread, CreateSignal
  <2>2. ASSUME NEW t \in Traces, RunStep(t) \/ StopStep(t) \/ ThreadExit(t) \/ Crash(t)
        PROVE  attached' = attached
    BY <2>2 DEF RunStep, StopStep, RundownClear, RundownSet, Stop, DropTrace, StopClose,
      StopJoin, ThreadExit, Crash
  <2>3. ASSUME NEW n \in Names, ToolStart(n) \/ ToolStop(n) PROVE attached' = attached
    BY <2>3 DEF ToolStart, ToolStop
  <2> QED BY <2>1, <2>2, <2>3 DEF Next
<1>2. CASE OpenTrace(u) /\ attached'[u] = table[SessionName(u)]
  BY <1>2 DEF OpenTrace, Live
<1>3. CASE attached'[u] = attached[u]
  <2>1. CASE Live(u) BY <1>0, <1>3, <2>1 DEF Consumes
  <2>2. CASE pc[u] \in {"idle", "retry"} BY <1>0, <1>3, <2>2 DEF Resources
  <2> QED BY <2>1, <2>2, LiveStep
<1> QED BY <1>1, <1>2, <1>3

\* The enable flags of a live kernel session are off only inside, or after a
\* reported failure of, request_rundown.
LEMMA RestoredStep ==
    ASSUME TypeOK, LifeInv, Next, NEW u \in Traces PROVE Restored(u)'
<1>0. Restored(u) /\ Ended(u) BY DEF LifeInv, Life
<1> SUFFICES ASSUME IsKernel(u), Live(u)', ~providersOn'[u]
             PROVE  pc'[u] \in {"rundown", "crashed"} \/ rundown'[u] = "err"
  BY DEF Restored
<1>1. CASE pc[u] \in {"idle", "retry"} /\ pc'[u] = "started"
  <2>0. ~Live(u) BY <1>0, <1>1 DEF Ended, NotStarted
  <2>1. PICK t \in Traces : StartStep(t) \/ RunStep(t) \/ StopStep(t) \/ ThreadExit(t) \/ Crash(t)
    BY <1>1 DEF Next, ToolStart, ToolStop
  <2>2. StartTrace(u) \/ RetryStart(u)
    BY <1>1, <2>1 DEF TypeOK, StartStep, RunStep, StopStep, StartInvalid, StartTrace,
      StopStale, RetryStart, EnableProvider, OpenTrace, CleanUp, SpawnThread, CreateSignal,
      RundownClear, RundownSet, Stop, DropTrace, StopClose, StopJoin, ThreadExit, Crash, Goto
  <2>3. CreateSession(u) BY <2>0, <2>2 DEF StartTrace, RetryStart, Live
  <2>4. providersOn'[u] = IsKernel(u) BY <2>3 DEF CreateSession, TypeOK
  <2> QED BY <2>4
<1>2. CASE Live(u)
  <2> USE <1>0, <1>2 DEF Restored, Goto, TypeOK
  <2>1. ASSUME NEW t \in Traces, StartStep(t)
        PROVE  pc'[u] \in {"rundown", "crashed"} \/ rundown'[u] = "err"
    <3>1. CASE t = u /\ pc[u] \in NotStarted BY <3>1 DEF Ended
    <3>2. CASE t # u \/ pc[u] \notin NotStarted
      <4>1. providersOn'[u] = providersOn[u]
        BY <2>1, <3>2 DEF StartStep, StartInvalid, StartTrace, StopStale, RetryStart,
          EnableProvider, OpenTrace, CleanUp, SpawnThread, CreateSignal, CreateSession, NotStarted
      <4>2. rundown'[u] = rundown[u]
        BY <2>1 DEF StartStep, StartInvalid, StartTrace, StopStale, RetryStart,
          EnableProvider, OpenTrace, CleanUp, SpawnThread, CreateSignal
      <4>3. pc[u] \in {"rundown", "crashed"} => pc'[u] = pc[u]
        BY <2>1 DEF StartStep, StartInvalid, StartTrace, StopStale, RetryStart,
          EnableProvider, OpenTrace, CleanUp, SpawnThread, CreateSignal
      <4> QED BY <4>1, <4>2, <4>3
    <3> QED BY <3>1, <3>2
  <2>2. ASSUME NEW t \in Traces, RunStep(t) \/ StopStep(t)
        PROVE  pc'[u] \in {"rundown", "crashed"} \/ rundown'[u] = "err"
    <3>1. CASE RundownClear(t) BY <3>1 DEF RundownClear
    <3>2. CASE RundownSet(t) BY <3>2 DEF RundownSet
    <3>3. CASE Stop(t) \/ DropTrace(t) \/ StopStep(t)
      BY <3>3 DEF Stop, DropTrace, StopStep, StopClose, StopJoin
    <3> QED BY <2>2, <3>1, <3>2, <3>3 DEF RunStep
  <2>3. ASSUME NEW t \in Traces, ThreadExit(t) \/ Crash(t)
        PROVE  pc'[u] \in {"rundown", "crashed"} \/ rundown'[u] = "err"
    BY <2>3 DEF ThreadExit, Crash
  <2>4. ASSUME NEW n \in Names, ToolStart(n) \/ ToolStop(n)
        PROVE  pc'[u] \in {"rundown", "crashed"} \/ rundown'[u] = "err"
    BY <2>4 DEF ToolStart, ToolStop
  <2> QED BY <2>1, <2>2, <2>3, <2>4 DEF Next
<1> QED BY <1>1, <1>2, LiveStep

\* ProcessTrace returns with its handle open only when its session is over, and
\* a trace starts one session only.
LEMMA OutlivedStep ==
    ASSUME TypeOK, LifeInv, Next, NEW u \in Traces PROVE Outlived(u)'
<1>0. Outlived(u) /\ Resources(u) BY DEF LifeInv, Life
<1> SUFFICES ASSUME traceOpen'[u], thread'[u] = "finished", Live(u)', attached'[u] = u
             PROVE  FALSE
  BY DEF Outlived
<1>1. CASE pc[u] \in {"idle", "retry"} /\ pc'[u] = "started"
  <2>1. Resources(u)' BY ResourcesStep
  <2> QED BY <1>1, <2>1 DEF Resources, NotOpened
<1>2. CASE Live(u)
  <2>1. CASE \E t \in Traces : ThreadExit(t)
    <3>1. PICK t \in Traces : ThreadExit(t) BY <2>1
    <3>2. CASE t = u BY <1>2, <3>1, <3>2 DEF ThreadExit, Live, TypeOK
    <3>3. CASE t # u BY <1>0, <1>2, <3>1, <3>3 DEF ThreadExit, Outlived, TypeOK
    <3> QED BY <3>2, <3>3
  <2>2. CASE \E t \in Traces : OpenTrace(t)
    <3>1. PICK t \in Traces : OpenTrace(t) BY <2>2
    <3>2. CASE t = u BY <1>0, <3>1, <3>2 DEF OpenTrace, Resources, NotOpened, TypeOK
    <3>3. CASE t # u BY <1>0, <1>2, <3>1, <3>3 DEF OpenTrace, Outlived, TypeOK
    <3> QED BY <3>2, <3>3
  <2>3. CASE ~\E t \in Traces : ThreadExit(t) \/ OpenTrace(t)
    <3>1. traceOpen[u] /\ thread[u] = "finished" /\ attached[u] = u
      BY <2>3 DEF TypeOK, Next, StartStep, RunStep, StopStep, StartInvalid, StartTrace,
        StopStale, RetryStart, EnableProvider, CleanUp, SpawnThread, CreateSignal,
        RundownClear, RundownSet, Stop, DropTrace, StopClose, StopJoin, Crash,
        ToolStart, ToolStop
    <3> QED BY <1>0, <1>2, <3>1 DEF Outlived
  <2> QED BY <2>1, <2>2, <2>3
<1> QED BY <1>1, <1>2, LiveStep

\* The life-cycle invariant holds in every reachable state.
THEOREM LifeCycle == Spec => []LifeInv
<1>1. Init => LifeInv BY LifeInit
<1>2. TypeOK /\ LifeInv /\ [Next]_vars => LifeInv'
  <2> SUFFICES ASSUME TypeOK, LifeInv, [Next]_vars PROVE LifeInv' OBVIOUS
  <2>1. CASE Next
    BY <2>1, ResourcesStep, EndedStep, ConsumesStep, RestoredStep, OutlivedStep
    DEF LifeInv, Life
  <2>2. CASE UNCHANGED vars
    BY <2>2 DEF vars, LifeInv, Life, Resources, Ended, Consumes, Restored, Outlived, Live
  <2> QED BY <2>1, <2>2
<1> QED BY <1>1, <1>2, TypeCorrect, PTL DEF Spec

-----------------------------------------------------------------------------
(* The safety properties.                                                  *)

\* While its ProcessTrace thread runs, the callback context of a trace is
\* alive, on every path of start, stop, Drop and process death but the failed
\* creation of the stop signal.
THEOREM ContextIsAlive == Spec => []ContextOutlivesThread
<1>1. TypeOK /\ LifeInv => ContextOutlivesThread
  BY DEF TypeOK, LifeInv, Life, Resources, ContextOutlivesThread, NotOpened, Holding, Pc, StartPc
<1> QED BY <1>1, LifeCycle, TypeCorrect, PTL

\* A start() that returned an error leaves no session, thread, trace handle or
\* context; the one that failed to create its stop signal leaves all but the
\* context, and its thread runs as long as its session does.
THEOREM FailedStartIsAccounted == Spec => []FailedStartAllOrNothing
<1>1. TypeOK /\ LifeInv => FailedStartAllOrNothing
  <2> SUFFICES ASSUME TypeOK, LifeInv, NEW t \in Traces
               PROVE  /\ pc[t] = "failed" => NothingOwned(t)
                      /\ pc[t] = "leaked" =>
                             /\ traceOpen[t] /\ ctx[t] = "freed" /\ thread[t] # "none"
                             /\ Live(t) /\ attached[t] = t => thread[t] = "running"
    BY DEF FailedStartAllOrNothing
  <2>1. Life(t) /\ thread[t] \in {"none", "running", "finished"} BY DEF LifeInv, TypeOK
  <2>2. pc[t] = "failed" => NothingOwned(t)
    BY <2>1 DEF Life, Resources, Ended, NothingOwned, NotOpened, NotStarted
  <2>3. pc[t] = "leaked" => traceOpen[t] /\ ctx[t] = "freed" /\ thread[t] # "none"
    BY <2>1 DEF Life, Resources
  <2>4. pc[t] = "leaked" /\ Live(t) /\ attached[t] = t => thread[t] = "running"
    BY <2>1, <2>3 DEF Life, Outlived
  <2> QED BY <2>2, <2>3, <2>4
<1> QED BY <1>1, LifeCycle, TypeCorrect, PTL

\* A returned stop() leaves none of the session, the thread and the handle,
\* however many other traces and tools use the same name.
THEOREM StopIsComplete == Spec => []StoppedIsGone
<1>1. LifeInv => StoppedIsGone
  BY DEF LifeInv, Life, Resources, Ended, StoppedIsGone
<1> QED BY <1>1, LifeCycle, PTL

\* A trace never reads another session's events while its own is running.
THEOREM ConsumesItsOwn == Spec => []ConsumesOwnSession
<1>1. LifeInv => ConsumesOwnSession
  BY DEF LifeInv, Life, Consumes, ConsumesOwnSession
<1> QED BY <1>1, LifeCycle, PTL

\* request_rundown never leaves a running session's providers off and reports
\* success.
THEOREM RundownIsRestored == Spec => []RundownRestores
<1>1. LifeInv => RundownRestores
  BY DEF LifeInv, Life, Restored, RundownRestores
<1> QED BY <1>1, LifeCycle, PTL

\* A private or user-mode trace with a name of its own never changes what runs
\* under "NT Kernel Logger".
THEOREM PrivateIsPrivate == Spec => PrivateLeavesKernelLogger
<1> DEFINE Apart(t) == /\ pc'[t] # pc[t]
                       /\ Builder[t].name # KernelLogger
                       /\ IsKernel(t) => Builder[t].private
<1>1. ASSUME TypeOK, [Next]_vars, NEW t \in Traces, Apart(t)
      PROVE  table'[KernelLogger] = table[KernelLogger]
  <2>1. Next BY <1>1 DEF vars
  <2>2. PICK u \in Traces : StartStep(u) \/ RunStep(u) \/ StopStep(u) \/ ThreadExit(u) \/ Crash(u)
    BY <1>1, <2>1 DEF Next, ToolStart, ToolStop
  <2>3. u = t
    BY <1>1, <2>2 DEF TypeOK, StartStep, RunStep, StopStep, StartInvalid, StartTrace,
      StopStale, RetryStart, EnableProvider, OpenTrace, CleanUp, SpawnThread, CreateSignal,
      RundownClear, RundownSet, Stop, DropTrace, StopClose, StopJoin, ThreadExit, Crash, Goto
  <2>4. SessionName(t) # KernelLogger BY <1>1 DEF SessionName
  <2>5. KernelLogger \in Names BY DEF Names
  <2>6. \/ table' = table
        \/ table' = [table EXCEPT ![SessionName(t)] = NoSession]
        \/ table' = [table EXCEPT ![SessionName(t)] = t]
    BY <1>1, <2>2, <2>3, TableStep
  <2>7. table = [n \in Names |-> table[n]] BY <1>1 DEF TypeOK
  <2> QED BY <2>4, <2>5, <2>6, <2>7
<1>2. TypeOK /\ [Next]_vars
        => [\A t \in Traces : Apart(t) => table'[KernelLogger] = table[KernelLogger]]_vars
  BY <1>1
<1> QED BY <1>2, TypeCorrect, PTL DEF Spec, PrivateLeavesKernelLogger
=============================================================================
