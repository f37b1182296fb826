--------------------------- MODULE EtwStreamProofs ---------------------------
(* Proofs about EtwStream for every capacity, stream mode, filter and bound. *)
EXTENDS EtwStream, TLAPS

USE StreamsAssumption, CapacityAssumption, BoundAssumption
    DEF AllStreams, StreamsAssumption, CapacityAssumption, BoundAssumption

\* Every step keeps the types of EtwStream.
THEOREM TypeCorrect == Spec => []TypeOK
<1> USE DEF TypeOK, CbStage, CallPc, CallKind, Idle, Draining, vars, cbVars, ownerVars, ctlVars
<1>0. <<>> \in Seq(Event)
  OBVIOUS
<1>1. Init => TypeOK
  <2> SUFFICES ASSUME Init PROVE TypeOK
    OBVIOUS
  <2>1. chan \in [AllStreams -> Seq(Event)] /\ out \in Seq(Event)
    BY <1>0 DEF Init
  <2>2. cb \in [stage : CbStage, ev : Event \cup {NoEvent}] /\ cb.stage = "idle"
    BY DEF Init
  <2>3. call \in [pc : CallPc, stream : AllStreams, kind : CallKind]
    BY DEF Init
  <2>4. /\ offered \in [AllStreams -> Nat] /\ taken \in [AllStreams -> Nat]
        /\ last \in [AllStreams -> 0..MaxEvents] /\ arrived \in 0..MaxEvents
    BY DEF Init
  <2> QED BY <2>1, <2>2, <2>3, <2>4 DEF Init
<1>2. TypeOK /\ [Next]_vars => TypeOK'
  <2> SUFFICES ASSUME TypeOK, [Next]_vars PROVE TypeOK'
    OBVIOUS
  <2>1. ASSUME NEW pid \in Pids, NEW opcode \in Opcodes, Callback(pid, opcode) PROVE TypeOK'
    <3>1. [id |-> arrived + 1, pid |-> pid, opcode |-> opcode] \in Event
      BY <2>1 DEF Callback, Event
    <3> DEFINE e == [id |-> arrived + 1, pid |-> pid, opcode |-> opcode]
               first == IF "decoded" \in Streams THEN "decoded" ELSE "raw"
    <3>2. e \in Event /\ first \in Streams /\ first \in CbStage
      BY <3>1
    <3>3. cb' = [stage |-> first, ev |-> e] \/ cb' = cb
      BY <2>1 DEF Callback
    <3> HIDE DEF e, first
    <3>4. /\ cb' \in [stage : CbStage, ev : Event \cup {NoEvent}]
          /\ cb'.stage # "idle" => cb'.ev \in Event /\ cb'.stage \in Streams
      BY <3>2, <3>3
    <3>5. arrived' \in 0..MaxEvents
      BY <2>1 DEF Callback
    <3> QED BY <2>1, <3>4, <3>5 DEF Callback
  <2>2. ASSUME NEW s \in AllStreams, cb.stage = s, TrySend(s)
        PROVE /\ chan' \in [AllStreams -> Seq(Event)]
              /\ dropped' \in Nat
              /\ offered' \in [AllStreams -> Nat]
    <3>1. cb.ev \in Event /\ chan[s] \in Seq(Event)
      BY <2>2
    <3>2. Append(chan[s], cb.ev) \in Seq(Event)
      BY <3>1
    <3>3. chan' = [chan EXCEPT ![s] = Append(@, cb.ev)] \/ chan' = chan
      BY <2>2 DEF TrySend
    <3>4. chan' \in [AllStreams -> Seq(Event)]
      BY <3>2, <3>3
    <3>5. dropped' = dropped \/ dropped' = dropped + 1
      BY <2>2, Zenon DEF TrySend
    <3>6. dropped' \in Nat
      BY <3>5
    <3>7. offered' = [offered EXCEPT ![s] = @ + 1]
      BY <2>2, Zenon DEF TrySend
    <3>8. offered' \in [AllStreams -> Nat]
      BY <3>7
    <3> QED BY <3>4, <3>6, <3>8
  <2>3. CASE SendDecoded
    BY <2>3, <2>2 DEF SendDecoded
  <2>4. CASE SendRaw
    BY <2>4, <2>2 DEF SendRaw
  <2>5. CASE ThreadExit
    BY <2>5 DEF ThreadExit
  <2>6. ASSUME NEW s \in AllStreams, Receive(s)
        PROVE /\ chan' \in [AllStreams -> Seq(Event)]
              /\ taken' \in [AllStreams -> Nat]
              /\ last' \in [AllStreams -> 0..MaxEvents]
              /\ Head(chan[s]) \in Event
    <3>1. chan[s] \in Seq(Event) /\ chan[s] # <<>>
      BY <2>6 DEF Receive
    <3>2. Head(chan[s]) \in Event /\ Tail(chan[s]) \in Seq(Event)
      BY <3>1
    <3>3. Head(chan[s]).id \in 0..MaxEvents
      BY <3>2 DEF Event
    <3> QED BY <2>6, <3>2, <3>3 DEF Receive
  <2>7. ASSUME NEW s \in AllStreams, NextBatchWithFilter(s) PROVE TypeOK'
    BY <2>7 DEF NextBatchWithFilter
  <2>8. CASE NextBatchOrStopped
    BY <2>8 DEF NextBatchOrStopped, Return
  <2>9. CASE NextBatchTimeout
    BY <2>9 DEF NextBatchTimeout
  <2>10. CASE RecvFirst
    <3>1. Head(chan["raw"]) \in Event
      BY <2>10, <2>6 DEF RecvFirst
    <3>2. out' \in Seq(Event)
      BY <2>10, <3>1 DEF RecvFirst
    <3> QED BY <2>10, <2>6, <3>2 DEF RecvFirst
  <2>11. CASE RecvTimeout
    <3>1. Len(out) \in Nat
      OBVIOUS
    <3> QED BY <2>11, <3>1, <1>0 DEF RecvTimeout, Return
  <2>12. ASSUME NEW keep \in BOOLEAN, DrainOne(keep) PROVE TypeOK'
    <3>1. call.stream \in AllStreams /\ Receive(call.stream)
      BY <2>12 DEF DrainOne
    <3>2. Head(chan[call.stream]) \in Event
      BY <2>6, <3>1
    <3>3. out' \in Seq(Event) /\ processed' \in Nat
      BY <2>12, <3>2 DEF DrainOne
    <3> QED BY <2>12, <2>6, <3>1, <3>3 DEF DrainOne
  <2>13. CASE DrainEnd
    <3>1. Len(out) \in Nat
      OBVIOUS
    <3>2. processed' \in Nat
      BY <2>13, <3>1 DEF DrainEnd
    <3>3. CASE call.kind = "run"
      BY <2>13, <3>2, <3>3 DEF DrainEnd
    <3>4. CASE call.kind # "run"
      BY <2>13, <3>1, <3>2, <3>4, <1>0 DEF DrainEnd, Return
    <3> QED BY <3>3, <3>4
  <2>14. CASE RunUntilStopped
    BY <2>14 DEF RunUntilStopped
  <2>15. CASE RunCheck
    <3>1. Len(out) \in Nat
      OBVIOUS
    <3>2. /\ call' = Idle \/ call' = Draining("raw", "run")
          /\ out' = <<>>
          /\ handed' = handed \/ handed' = handed + Len(out)
          /\ discarded' = discarded \/ discarded' = discarded + Len(out)
      BY <2>15, Zenon DEF RunCheck, Return
    <3> QED BY <2>15, <3>1, <3>2, <1>0 DEF RunCheck
  <2>16. CASE RunSleep
    BY <2>16 DEF RunSleep
  <2>17. CASE Stop
    BY <2>17 DEF Stop
  <2>18. CASE StopClose
    BY <2>18 DEF StopClose
  <2>19. CASE StopJoin
    BY <2>19 DEF StopJoin
  <2>20. CASE SignalStop \/ ForeignStop
    BY <2>20 DEF SignalStop, ForeignStop
  <2>21. CASE UNCHANGED vars
    BY <2>21
  <2> QED
    BY <2>1, <2>3, <2>4, <2>5, <2>7, <2>8, <2>9, <2>10, <2>11, <2>12, <2>13, <2>14, <2>15,
       <2>16, <2>17, <2>18, <2>19, <2>20, <2>21 DEF Next, CallbackThread, Owner
<1> QED
  BY <1>1, <1>2, PTL DEF Spec

-----------------------------------------------------------------------------
\* How a step changes one channel and its counters: a try_send that succeeds or
\* fails, a receive, or nothing.  The facts below follow from these cases alone.
SendStep(s) ==
    /\ cb.stage = s /\ TrySend(s) /\ UNCHANGED <<taken, last, call, arrived>>
    /\ cb'.ev = cb.ev
    /\ cb'.stage = "idle" \/ (s = "decoded" /\ cb'.stage = "raw")
ReceiveStep(s) ==
    /\ Receive(s) /\ call'.pc = "drain"
    /\ UNCHANGED <<dropped, offered, arrived, cb>>
QuietStep ==
    /\ \/ UNCHANGED <<arrived, cb>>
       \/ /\ arrived' = arrived + 1 /\ cb.stage = "idle"
          /\ cb' = cb \/ cb'.ev.id = arrived + 1
    /\ UNCHANGED <<chan, dropped, offered, taken, last>>
    /\ call.pc = "recv" => call'.pc = "recv" \/ chan["raw"] = <<>>

\* Every step sends on one channel, receives from one, or leaves all alone.
LEMMA ChannelSteps ==
  ASSUME TypeOK, [Next]_vars
  PROVE  QuietStep \/ \E s \in AllStreams : SendStep(s) \/ ReceiveStep(s)
<1> USE DEF QuietStep, SendStep, ReceiveStep, vars, cbVars, ownerVars, ctlVars
<1>1. ASSUME NEW pid \in Pids, NEW opcode \in Opcodes, Callback(pid, opcode) PROVE QuietStep
  BY <1>1 DEF Callback
<1>2. CASE SendDecoded
  BY <1>2 DEF SendDecoded
<1>3. CASE SendRaw
  BY <1>3 DEF SendRaw
<1>4. CASE RecvFirst
  BY <1>4 DEF RecvFirst, Draining
<1>5. ASSUME NEW keep \in BOOLEAN, DrainOne(keep)
      PROVE \E s \in AllStreams : ReceiveStep(s)
  <2>1. call.stream \in AllStreams
    BY DEF TypeOK
  <2> QED BY <1>5, <2>1 DEF DrainOne
<1>6. ASSUME NEW s \in AllStreams, NextBatchWithFilter(s) PROVE QuietStep
  BY <1>6 DEF NextBatchWithFilter
<1>7. CASE NextBatchOrStopped \/ NextBatchTimeout \/ RecvTimeout \/ DrainEnd
  BY <1>7 DEF NextBatchOrStopped, NextBatchTimeout, RecvTimeout, DrainEnd
<1>8. CASE RunUntilStopped \/ RunCheck \/ RunSleep
  BY <1>8 DEF RunUntilStopped, RunCheck, RunSleep
<1>9. CASE Stop \/ StopClose \/ StopJoin \/ ThreadExit \/ SignalStop \/ ForeignStop
  BY <1>9 DEF Stop, StopClose, StopJoin, ThreadExit, SignalStop, ForeignStop
<1>10. CASE UNCHANGED vars
  BY <1>10
<1> QED
  BY <1>1, <1>2, <1>3, <1>4, <1>5, <1>6, <1>7, <1>8, <1>9, <1>10
     DEF Next, CallbackThread, Owner

\* The drop counter is exact in every reachable state.
THEOREM DroppedIsExact == Spec => []DroppedExact
<1> USE DEF DroppedExact, Missing
<1>1. Init => DroppedExact
  BY DEF Init
<1>2. TypeOK /\ DroppedExact /\ [Next]_vars => DroppedExact'
  <2> SUFFICES ASSUME TypeOK, DroppedExact, [Next]_vars PROVE DroppedExact'
    OBVIOUS
  <2>0. /\ chan \in [AllStreams -> Seq(Event)] /\ dropped \in Nat
        /\ offered \in [AllStreams -> Nat] /\ taken \in [AllStreams -> Nat]
        /\ \A s \in AllStreams : Len(chan[s]) \in Nat
    BY DEF TypeOK
  <2>1. CASE QuietStep
    BY <2>1 DEF QuietStep
  <2>2. ASSUME NEW s \in AllStreams, SendStep(s) PROVE DroppedExact'
    <3>1. cb.ev \in Event
      BY <2>2 DEF SendStep, TypeOK
    <3>2. Len(Append(chan[s], cb.ev)) = Len(chan[s]) + 1
      BY <3>1, <2>0
    <3>3. CASE chan' = [chan EXCEPT ![s] = Append(@, cb.ev)] /\ dropped' = dropped
      <4>1. CASE s = "raw"
        BY <2>2, <2>0, <3>2, <3>3, <4>1 DEF SendStep, TrySend
      <4>2. CASE s = "decoded"
        BY <2>2, <2>0, <3>2, <3>3, <4>2 DEF SendStep, TrySend
      <4> QED BY <4>1, <4>2
    <3>4. CASE chan' = chan /\ dropped' = dropped + 1
      BY <2>2, <2>0, <3>4 DEF SendStep, TrySend
    <3> QED BY <2>2, <3>3, <3>4 DEF SendStep, TrySend
  <2>3. ASSUME NEW s \in AllStreams, ReceiveStep(s) PROVE DroppedExact'
    <3>1. Len(Tail(chan[s])) = Len(chan[s]) - 1
      BY <2>3, <2>0 DEF ReceiveStep, Receive
    <3> QED BY <2>3, <2>0, <3>1 DEF ReceiveStep, Receive
  <2> QED BY <2>1, <2>2, <2>3, ChannelSteps
<1> QED
  BY <1>1, <1>2, TypeCorrect, PTL DEF Spec

\* No channel outgrows channel_capacity.
THEOREM ChannelsAreBounded == Spec => []ChannelBounded
<1>1. Init => ChannelBounded
  BY DEF Init, ChannelBounded
<1>2. TypeOK /\ ChannelBounded /\ [Next]_vars => ChannelBounded'
  <2> SUFFICES ASSUME TypeOK, ChannelBounded, [Next]_vars, NEW s \in AllStreams
               PROVE  \/ Len(chan'[s]) <= Capacity
                      \/ /\ Capacity = 0 /\ s = "raw"
                         /\ call'.pc = "recv" /\ Len(chan'[s]) = 1
    BY DEF ChannelBounded
  <2>0. /\ chan \in [AllStreams -> Seq(Event)]
        /\ \A u \in AllStreams : Len(chan[u]) \in Nat
    BY DEF TypeOK
  <2>1. CASE QuietStep
    BY <2>1, <2>0 DEF QuietStep, ChannelBounded
  <2>2. ASSUME NEW u \in AllStreams, SendStep(u)
        PROVE  \/ Len(chan'[s]) <= Capacity
               \/ /\ Capacity = 0 /\ s = "raw"
                  /\ call'.pc = "recv" /\ Len(chan'[s]) = 1
    <3>1. cb.ev \in Event
      BY <2>2 DEF SendStep, TypeOK
    <3>2. Len(Append(chan[u], cb.ev)) = Len(chan[u]) + 1
      BY <3>1, <2>0
    <3>3. CASE Room(u) /\ chan' = [chan EXCEPT ![u] = Append(@, cb.ev)] /\ s = u
      BY <2>2, <2>0, <3>2, <3>3 DEF SendStep, Room
    <3>4. CASE chan'[s] = chan[s]
      BY <2>2, <2>0, <3>4 DEF SendStep, ChannelBounded
    <3> QED BY <2>2, <2>0, <3>3, <3>4 DEF SendStep, TrySend
  <2>3. ASSUME NEW u \in AllStreams, ReceiveStep(u)
        PROVE  Len(chan'[s]) <= Capacity
    <3>1. Len(Tail(chan[u])) = Len(chan[u]) - 1
      BY <2>3, <2>0 DEF ReceiveStep, Receive
    <3>0. /\ Len(chan[u]) <= Capacity \/ (Capacity = 0 /\ Len(chan[u]) = 1)
          /\ Len(chan[u]) \in Nat
      BY <2>0 DEF ChannelBounded
    <3>2. Len(chan[u]) - 1 <= Capacity
      <4>1. \A n \in Nat : n <= Capacity \/ (Capacity = 0 /\ n = 1) => n - 1 <= Capacity
        OBVIOUS
      <4> QED BY <3>0, <4>1
    <3>3. CASE s = u
      BY <2>3, <2>0, <3>1, <3>2, <3>3 DEF ReceiveStep, Receive
    <3>4. CASE s # u
      <4>1. chan[u] # <<>> /\ Len(chan[u]) # 0
        BY <2>3, <2>0 DEF ReceiveStep, Receive
      <4>2. chan'[s] = chan[s]
        BY <2>3, <2>0, <3>4 DEF ReceiveStep, Receive
      <4>3. Len(chan[s]) <= Capacity
        BY <4>1, <3>4, <2>0 DEF ChannelBounded
      <4> QED BY <4>2, <4>3
    <3> QED BY <3>3, <3>4
  <2> QED BY <2>1, <2>2, <2>3, ChannelSteps
<1> QED
  BY <1>1, <1>2, TypeCorrect, PTL DEF Spec

-----------------------------------------------------------------------------
\* The order of events.  An event is pending on a stream from the moment the
\* callback accepts it to its try_send there.
Pending(s) == cb.stage = s \/ (s = "raw" /\ cb.stage = "decoded")

Increasing(q) == \A i, j \in 1..Len(q) : i < j => q[i].id < q[j].id
Between(q, lo, hi) == \A i \in 1..Len(q) : lo < q[i].id /\ q[i].id <= hi

\* Ids grow along: last received, queued, pending, next to arrive.
OrderInv ==
    \A s \in AllStreams :
        /\ Increasing(chan[s])
        /\ Between(chan[s], last[s], arrived)
        /\ last[s] <= arrived
        /\ Pending(s) => /\ last[s] < cb.ev.id /\ cb.ev.id <= arrived
                         /\ \A i \in 1..Len(chan[s]) : chan[s][i].id < cb.ev.id

\* What try_send and receive do to an increasing queue.
LEMMA AppendKeepsOrder ==
  ASSUME NEW q \in Seq(Event), NEW e \in Event, NEW lo \in Int, NEW hi \in Int,
         Increasing(q), Between(q, lo, hi), lo < e.id, e.id <= hi,
         \A i \in 1..Len(q) : q[i].id < e.id
  PROVE  Increasing(Append(q, e)) /\ Between(Append(q, e), lo, hi)
<1>1. /\ Len(Append(q, e)) = Len(q) + 1
      /\ \A i \in 1..Len(q) : Append(q, e)[i] = q[i]
      /\ Append(q, e)[Len(q) + 1] = e
  OBVIOUS
<1>2. Between(Append(q, e), lo, hi)
  BY <1>1 DEF Between
<1>3. Increasing(Append(q, e))
  <2> SUFFICES ASSUME NEW i \in 1..Len(q) + 1, NEW j \in 1..Len(q) + 1, i < j
               PROVE  Append(q, e)[i].id < Append(q, e)[j].id
    BY <1>1 DEF Increasing
  <2>1. i \in 1..Len(q)
    OBVIOUS
  <2>2. CASE j = Len(q) + 1
    BY <1>1, <2>1, <2>2
  <2>3. CASE j \in 1..Len(q)
    BY <1>1, <2>1, <2>3 DEF Increasing
  <2> QED BY <2>2, <2>3
<1> QED BY <1>2, <1>3

\* Receiving the head keeps the rest in order and above what was received.
LEMMA TailKeepsOrder ==
  ASSUME NEW q \in Seq(Event), q # <<>>, NEW lo \in Int, NEW hi \in Int,
         Increasing(q), Between(q, lo, hi)
  PROVE  /\ lo < Head(q).id /\ Head(q).id <= hi
         /\ Increasing(Tail(q)) /\ Between(Tail(q), Head(q).id, hi)
         /\ \A i \in 1..Len(Tail(q)) : \E j \in 1..Len(q) : Tail(q)[i] = q[j]
<1>1. /\ Len(q) \in Nat /\ Len(q) > 0 /\ Head(q) = q[1]
      /\ Len(Tail(q)) = Len(q) - 1
      /\ \A i \in 1..Len(q) - 1 : Tail(q)[i] = q[i + 1]
  OBVIOUS
<1>2. lo < Head(q).id /\ Head(q).id <= hi
  BY <1>1 DEF Between
<1>3. Increasing(Tail(q))
  BY <1>1 DEF Increasing
<1>4. Between(Tail(q), Head(q).id, hi)
  <2> SUFFICES ASSUME NEW i \in 1..Len(q) - 1
               PROVE  q[1].id < q[i + 1].id /\ q[i + 1].id <= hi
    BY <1>1 DEF Between
  <2> QED BY <1>1 DEF Increasing, Between
<1>5. ASSUME NEW i \in 1..Len(Tail(q)) PROVE \E j \in 1..Len(q) : Tail(q)[i] = q[j]
  <2>1. i + 1 \in 1..Len(q) /\ Tail(q)[i] = q[i + 1]
    BY <1>1
  <2> QED BY <2>1
<1> QED BY <1>2, <1>3, <1>4, <1>5

\* Every stream is received in arrival order, each event at most once.
THEOREM DeliveredInOrder == Spec => InOrder
<1> USE DEF OrderInv
<1>1. Init => OrderInv
  BY DEF Init, Increasing, Between, Pending
<1>2. TypeOK /\ OrderInv /\ [Next]_vars
      => /\ OrderInv'
         /\ \A s \in AllStreams : last'[s] # last[s] => last'[s] > last[s]
  <2> SUFFICES ASSUME TypeOK, OrderInv, [Next]_vars, NEW s \in AllStreams
               PROVE  /\ Increasing(chan'[s])
                      /\ Between(chan'[s], last'[s], arrived')
                      /\ last'[s] <= arrived'
                      /\ Pending(s)' => /\ last'[s] < cb'.ev.id /\ cb'.ev.id <= arrived'
                                        /\ \A i \in 1..Len(chan'[s]) : chan'[s][i].id < cb'.ev.id
                      /\ last'[s] # last[s] => last'[s] > last[s]
    BY DEF Pending
  <2>0. /\ chan \in [AllStreams -> Seq(Event)] /\ last \in [AllStreams -> 0..MaxEvents]
        /\ arrived \in Nat /\ last[s] \in Int
        /\ \A i \in 1..Len(chan[s]) : chan[s][i].id \in Int
    <3>1. /\ chan \in [AllStreams -> Seq(Event)] /\ last \in [AllStreams -> 0..MaxEvents]
          /\ arrived \in 0..MaxEvents
      BY DEF TypeOK
    <3>2. arrived \in Nat /\ last[s] \in Int
      BY <3>1
    <3>3. ASSUME NEW i \in 1..Len(chan[s]) PROVE chan[s][i].id \in Int
      <4>1. chan[s] \in Seq(Event)
        BY <3>1
      <4>2. chan[s][i] \in Event
        BY <4>1
      <4> QED BY <4>2 DEF Event
    <3> QED BY <3>1, <3>2, <3>3
  <2>2. CASE QuietStep
    <3>1. CASE UNCHANGED <<arrived, cb>>
      BY <2>2, <3>1 DEF QuietStep, Pending
    <3>2. CASE arrived' = arrived + 1 /\ cb.stage = "idle" /\ (cb' = cb \/ cb'.ev.id = arrived + 1)
      <4>1. Between(chan[s], last[s], arrived + 1)
        BY <2>0 DEF Between
      <4>2. \A i \in 1..Len(chan[s]) : chan[s][i].id < arrived + 1
        BY <2>0 DEF Between
      <4> QED BY <2>0, <2>2, <3>2, <4>1, <4>2 DEF QuietStep, Pending
    <3> QED BY <2>2, <3>1, <3>2 DEF QuietStep
  <2>3. ASSUME NEW u \in AllStreams, SendStep(u)
        PROVE  /\ Increasing(chan'[s])
               /\ Between(chan'[s], last'[s], arrived')
               /\ last'[s] <= arrived'
               /\ Pending(s)' => /\ last'[s] < cb'.ev.id /\ cb'.ev.id <= arrived'
                                 /\ \A i \in 1..Len(chan'[s]) : chan'[s][i].id < cb'.ev.id
               /\ last'[s] = last[s]
    <3>0. last' = last /\ arrived' = arrived /\ cb'.ev = cb.ev
      BY <2>3 DEF SendStep
    <3>1. CASE s = u
      <4>1. Pending(s) /\ ~Pending(s)'
        BY <2>3, <3>1 DEF SendStep, Pending
      <4>2. cb.ev \in Event
        BY <2>3 DEF SendStep, TypeOK
      <4>3. Increasing(Append(chan[s], cb.ev)) /\ Between(Append(chan[s], cb.ev), last[s], arrived)
        BY <2>0, <4>1, <4>2, AppendKeepsOrder
      <4>4. chan'[s] = Append(chan[s], cb.ev) \/ chan'[s] = chan[s]
        BY <2>0, <2>3, <3>1 DEF SendStep, TrySend
      <4> QED BY <3>0, <4>1, <4>3, <4>4
    <3>2. CASE s # u
      <4>1. chan'[s] = chan[s]
        BY <2>0, <2>3, <3>2 DEF SendStep, TrySend
      <4>2. Pending(s)' => Pending(s)
        BY <2>3, <3>2 DEF SendStep, Pending
      <4> QED BY <3>0, <4>1, <4>2
    <3> QED BY <3>1, <3>2
  <2>4. ASSUME NEW u \in AllStreams, ReceiveStep(u)
        PROVE  /\ Increasing(chan'[s])
               /\ Between(chan'[s], last'[s], arrived')
               /\ last'[s] <= arrived'
               /\ Pending(s)' => /\ last'[s] < cb'.ev.id /\ cb'.ev.id <= arrived'
                                 /\ \A i \in 1..Len(chan'[s]) : chan'[s][i].id < cb'.ev.id
               /\ last'[s] # last[s] => last'[s] > last[s]
    <3>0. arrived' = arrived /\ cb' = cb /\ (Pending(s)' <=> Pending(s))
      BY <2>4 DEF ReceiveStep, Pending
    <3>1. CASE s = u
      <4>1. chan[s] # <<>> /\ chan'[s] = Tail(chan[s]) /\ last'[s] = Head(chan[s]).id
        BY <2>0, <2>4, <3>1 DEF ReceiveStep, Receive
      <4>2. /\ last[s] < Head(chan[s]).id /\ Head(chan[s]).id <= arrived
            /\ Increasing(Tail(chan[s])) /\ Between(Tail(chan[s]), Head(chan[s]).id, arrived)
            /\ \A i \in 1..Len(Tail(chan[s])) :
                    \E j \in 1..Len(chan[s]) : Tail(chan[s])[i] = chan[s][j]
        BY <2>0, <4>1, TailKeepsOrder
      <4>3. Head(chan[s]) = chan[s][1] /\ 1 \in 1..Len(chan[s])
        BY <2>0, <4>1
      <4>4. Pending(s) => Head(chan[s]).id < cb.ev.id
        BY <4>3
      <4>5. Pending(s) => \A i \in 1..Len(Tail(chan[s])) : Tail(chan[s])[i].id < cb.ev.id
        BY <4>2
      <4>6. last'[s] > last[s]
        BY <2>0, <4>1, <4>2, <4>3
      <4>7. Pending(s) => cb.ev.id <= arrived
        OBVIOUS
      <4> QED BY <3>0, <4>1, <4>2, <4>4, <4>5, <4>6, <4>7
    <3>2. CASE s # u
      <4>1. chan'[s] = chan[s] /\ last'[s] = last[s]
        BY <2>0, <2>4, <3>2 DEF ReceiveStep, Receive
      <4> QED BY <3>0, <4>1
    <3> QED BY <3>1, <3>2
  <2> QED BY <2>2, <2>3, <2>4, ChannelSteps
<1> QED
  BY <1>1, <1>2, TypeCorrect, PTL DEF Spec, InOrder

-----------------------------------------------------------------------------
\* stop() ends the session first, closes the handle next and joins last, and a
\* finished thread has no callback under way.
StopInv ==
    /\ StopQuiesces
    /\ thread = "finished" => cb.stage = "idle"
    /\ call.pc \in {"closing", "joining"} => ~session
    /\ call.pc = "joining" => ~traceOpen

\* Once stop() has returned, nothing of the trace runs any more.
THEOREM StopLeavesNothingRunning == Spec => []StopQuiesces
<1> USE DEF StopInv, StopQuiesces, vars, cbVars, ownerVars, ctlVars
<1>1. Init => StopInv
  BY DEF Init, Idle
<1>2. TypeOK /\ StopInv /\ [Next]_vars => StopInv'
  <2> SUFFICES ASSUME TypeOK, StopInv, [Next]_vars PROVE StopInv'
    OBVIOUS
  <2>1. ASSUME NEW pid \in Pids, NEW opcode \in Opcodes, Callback(pid, opcode) PROVE StopInv'
    BY <2>1 DEF Callback
  <2>2. CASE SendDecoded \/ SendRaw
    BY <2>2 DEF SendDecoded, SendRaw
  <2>3. CASE ThreadExit
    BY <2>3 DEF ThreadExit
  <2>4. ASSUME UNCHANGED <<cb, started, session, traceOpen, thread>>,
               call'.pc \notin {"closing", "joining"}
        PROVE StopInv'
    BY <2>4
  <2>5. CASE Stop
    BY <2>5 DEF Stop, Idle
  <2>6. CASE StopClose
    BY <2>6 DEF StopClose
  <2>7. CASE StopJoin
    BY <2>7 DEF StopJoin, Idle
  <2>8. CASE SignalStop \/ ForeignStop \/ UNCHANGED vars
    BY <2>8 DEF SignalStop, ForeignStop
  <2>9. ASSUME NEW s \in AllStreams, NextBatchWithFilter(s) PROVE StopInv'
    BY <2>9, <2>4 DEF NextBatchWithFilter, Draining
  <2>10. CASE NextBatchOrStopped \/ NextBatchTimeout \/ RecvFirst \/ RecvTimeout
    BY <2>10, <2>4 DEF NextBatchOrStopped, NextBatchTimeout, RecvFirst, RecvTimeout,
                       Return, Idle, Draining
  <2>11. ASSUME NEW keep \in BOOLEAN, DrainOne(keep) PROVE StopInv'
    BY <2>11, <2>4 DEF DrainOne
  <2>12. CASE DrainEnd \/ RunUntilStopped \/ RunSleep
    <3>1. [call EXCEPT !.pc = "sleep"].pc = "sleep" /\ [call EXCEPT !.pc = "check"].pc = "check"
      BY DEF TypeOK
    <3>2. call'.pc \in {"idle", "sleep", "check"}
      <4>1. CASE DrainEnd
        <5>1. call' = Idle \/ call' = [call EXCEPT !.pc = "sleep"]
          BY <4>1, Zenon DEF DrainEnd, Return
        <5>2. CASE call' = Idle
          BY <5>2 DEF Idle
        <5>3. CASE call' = [call EXCEPT !.pc = "sleep"]
          BY <3>1, <5>3, Zenon
        <5> QED BY <5>1, <5>2, <5>3
      <4>2. CASE RunUntilStopped
        BY <4>2 DEF RunUntilStopped
      <4>3. CASE RunSleep
        BY <4>3, <3>1 DEF RunSleep
      <4> QED BY <2>12, <4>1, <4>2, <4>3
    <3> QED BY <2>12, <2>4, <3>2 DEF DrainEnd, RunUntilStopped, RunSleep
  <2>13. CASE RunCheck
    <3>1. call' = Idle \/ call' = Draining("raw", "run")
      BY <2>13, Zenon DEF RunCheck, Return
    <3> QED BY <2>13, <2>4, <3>1 DEF RunCheck, Idle, Draining
  <2> QED
    BY <2>1, <2>2, <2>3, <2>5, <2>6, <2>7, <2>8, <2>9, <2>10, <2>11, <2>12, <2>13
       DEF Next, CallbackThread, Owner
<1>3. StopInv => StopQuiesces
  OBVIOUS
<1> QED
  BY <1>1, <1>2, <1>3, TypeCorrect, PTL DEF Spec

-----------------------------------------------------------------------------
\* One step of one channel, read as a step of LossyQueue.
LEMMA ChannelRefines ==
  ASSUME TypeOK, ChannelBounded, [Next]_vars, Capacity > 0, NEW s \in AllStreams
  PROVE  \/ /\ \E e \in Event : chan'[s] = Append(chan[s], e)
            /\ Len(chan[s]) < Capacity
            /\ Missing(s)' = Missing(s) /\ taken'[s] = taken[s]
         \/ /\ Len(chan[s]) = Capacity
            /\ Missing(s)' = Missing(s) + 1
            /\ chan'[s] = chan[s] /\ taken'[s] = taken[s]
         \/ /\ chan[s] # <<>> /\ chan'[s] = Tail(chan[s])
            /\ taken'[s] = taken[s] + 1 /\ Missing(s)' = Missing(s)
         \/ /\ chan'[s] = chan[s] /\ taken'[s] = taken[s]
            /\ Missing(s)' = Missing(s)
<1>0. /\ chan \in [AllStreams -> Seq(Event)] /\ Len(chan[s]) \in Nat
      /\ offered \in [AllStreams -> Nat] /\ taken \in [AllStreams -> Nat]
      /\ offered[s] \in Nat /\ taken[s] \in Nat
  BY DEF TypeOK
<1>1. CASE QuietStep
  BY <1>1 DEF QuietStep, Missing
<1>2. ASSUME NEW u \in AllStreams, SendStep(u), u # s
      PROVE  chan'[s] = chan[s] /\ taken'[s] = taken[s] /\ Missing(s)' = Missing(s)
  BY <1>0, <1>2 DEF SendStep, TrySend, Missing
<1>3. ASSUME SendStep(s), Room(s)
      PROVE  /\ \E e \in Event : chan'[s] = Append(chan[s], e)
             /\ Len(chan[s]) < Capacity
             /\ Missing(s)' = Missing(s) /\ taken'[s] = taken[s]
  <2>1. cb.ev \in Event
    BY <1>3 DEF SendStep, TypeOK
  <2>2. chan'[s] = Append(chan[s], cb.ev) /\ offered'[s] = offered[s] + 1 /\ taken' = taken
    BY <1>0, <1>3 DEF SendStep, TrySend
  <2>3. Len(chan'[s]) = Len(chan[s]) + 1
    BY <1>0, <2>1, <2>2
  <2>4. Len(chan[s]) < Capacity
    BY <1>3 DEF Room
  <2>5. Missing(s)' = Missing(s)
    BY <1>0, <2>2, <2>3 DEF Missing
  <2> QED BY <2>1, <2>2, <2>4, <2>5
<1>4. ASSUME SendStep(s), ~Room(s)
      PROVE  /\ Len(chan[s]) = Capacity
             /\ Missing(s)' = Missing(s) + 1
             /\ chan'[s] = chan[s] /\ taken'[s] = taken[s]
  <2>1. Len(chan[s]) >= Capacity
    BY <1>0, <1>4 DEF Room
  <2>2. Len(chan[s]) <= Capacity
    BY DEF ChannelBounded
  <2>3. chan' = chan /\ taken' = taken /\ offered'[s] = offered[s] + 1
    BY <1>0, <1>4 DEF SendStep, TrySend
  <2> QED BY <1>0, <2>1, <2>2, <2>3 DEF Missing
<1>5. ASSUME NEW u \in AllStreams, ReceiveStep(u), u # s
      PROVE  chan'[s] = chan[s] /\ taken'[s] = taken[s] /\ Missing(s)' = Missing(s)
  BY <1>0, <1>5 DEF ReceiveStep, Receive, Missing
<1>6. ASSUME ReceiveStep(s)
      PROVE  /\ chan[s] # <<>> /\ chan'[s] = Tail(chan[s])
             /\ taken'[s] = taken[s] + 1 /\ Missing(s)' = Missing(s)
  <2>1. chan[s] # <<>> /\ chan'[s] = Tail(chan[s]) /\ taken'[s] = taken[s] + 1
    BY <1>0, <1>6 DEF ReceiveStep, Receive
  <2>2. Len(Tail(chan[s])) = Len(chan[s]) - 1
    BY <1>0, <2>1
  <2>3. offered' = offered
    BY <1>6 DEF ReceiveStep
  <2> QED BY <1>0, <2>1, <2>2, <2>3 DEF Missing
<1>7. QuietStep \/ \E u \in AllStreams : SendStep(u) \/ ReceiveStep(u)
  BY ChannelSteps
<1> QED BY <1>1, <1>2, <1>3, <1>4, <1>5, <1>6, <1>7

\* Each channel of a session whose capacity is not zero implements LossyQueue.
THEOREM ChannelsImplementLossyQueue ==
  ASSUME Capacity > 0
  PROVE  Spec => ChannelsAreLossyQueues
<1>1. Init => RawQueue!Init /\ DecodedQueue!Init
  BY DEF Init, RawQueue!Init, DecodedQueue!Init, Missing
<1>2. TypeOK /\ ChannelBounded /\ [Next]_vars
      => [RawQueue!Next]_(RawQueue!vars) /\ [DecodedQueue!Next]_(DecodedQueue!vars)
  <2> SUFFICES ASSUME TypeOK, ChannelBounded, [Next]_vars
               PROVE  /\ [RawQueue!Next]_(RawQueue!vars)
                      /\ [DecodedQueue!Next]_(DecodedQueue!vars)
    OBVIOUS
  <2>1. [RawQueue!Next]_(RawQueue!vars)
    BY ChannelRefines DEF RawQueue!Next, RawQueue!vars, RawQueue!Put, RawQueue!Lose, RawQueue!Get
  <2>2. [DecodedQueue!Next]_(DecodedQueue!vars)
    BY ChannelRefines DEF DecodedQueue!Next, DecodedQueue!vars, DecodedQueue!Put,
                          DecodedQueue!Lose, DecodedQueue!Get
  <2> QED BY <2>1, <2>2
<1> QED
  BY <1>1, <1>2, TypeCorrect, ChannelsAreBounded, PTL
     DEF Spec, ChannelsAreLossyQueues, RawQueue!Spec, DecodedQueue!Spec
-----------------------------------------------------------------------------
\* The accounting inside a call: the events counted and not yet handed over are
\* those in the buffer, except that next_batch_timeout counts its buffer last;
\* outside the calls that fill it the buffer is empty.
InBuffer == IF call.pc \in {"drain", "check", "sleep"} /\ call.kind # "timeout"
            THEN Len(out) ELSE 0
Accounting ==
    /\ processed = handed + discarded + InBuffer
    /\ call.pc \in {"idle", "recv", "closing", "joining"} => out = <<>>
    /\ call.pc \in {"check", "sleep"} => call.kind = "run"
    /\ call.pc = "recv" => call.kind = "timeout"

\* The accounting survives every step of the owner; the callback thread and the
\* environment do not touch what it is about.
LEMMA AccountingStep == ASSUME TypeOK, Accounting, [Next]_vars PROVE Accounting'
<1>a. /\ processed \in Nat /\ handed \in Nat /\ discarded \in Nat /\ out \in Seq(Event)
      /\ call \in [pc : CallPc, stream : AllStreams, kind : CallKind]
  BY DEF TypeOK
<1>b. Len(out) \in Nat /\ Len(<<>>) = 0
  BY <1>a
<1>0. /\ Len(out) \in Nat /\ Len(<<>>) = 0 /\ out \in Seq(Event)
      /\ processed \in Nat /\ handed \in Nat /\ discarded \in Nat
      /\ call \in [pc : CallPc, stream : AllStreams, kind : CallKind]
  BY <1>a, <1>b
<1> USE DEF Accounting, InBuffer, vars, cbVars, ownerVars, ctlVars
<1>1. ASSUME UNCHANGED <<call, out, processed, handed, discarded>> PROVE Accounting'
  BY <1>1
<1>2. ASSUME NEW pid \in Pids, NEW opcode \in Opcodes, Callback(pid, opcode) PROVE Accounting'
  BY <1>1, <1>2 DEF Callback
<1>3. CASE SendDecoded \/ SendRaw \/ ThreadExit \/ SignalStop \/ ForeignStop \/ UNCHANGED vars
  BY <1>1, <1>3 DEF SendDecoded, SendRaw, ThreadExit, SignalStop, ForeignStop
<1>4. ASSUME NEW s \in AllStreams, NextBatchWithFilter(s) PROVE Accounting'
  BY <1>0, <1>4 DEF NextBatchWithFilter, Draining
<1>5. CASE NextBatchOrStopped
  BY <1>0, <1>5 DEF NextBatchOrStopped, Return, Idle
<1>6. CASE NextBatchTimeout
  BY <1>0, <1>6 DEF NextBatchTimeout
<1>7. CASE RecvFirst
  BY <1>0, <1>7 DEF RecvFirst, Draining
<1>8. CASE RecvTimeout
  BY <1>0, <1>8 DEF RecvTimeout, Return, Idle
<1>9. ASSUME NEW keep \in BOOLEAN, DrainOne(keep) PROVE Accounting'
  <2>1. call' = call /\ call.pc = "drain" /\ handed' = handed /\ discarded' = discarded
    BY <1>9 DEF DrainOne
  <2>2. Head(chan[call.stream]) \in Event
    <3>1. call.stream \in AllStreams /\ chan[call.stream] \in Seq(Event)
      BY DEF TypeOK
    <3> QED BY <1>9, <3>1 DEF DrainOne, Receive
  <2>3. CASE keep
    <3>1. out' = Append(out, Head(chan[call.stream]))
      BY <1>9, <2>3 DEF DrainOne
    <3>2. Len(out') = Len(out) + 1
      BY <1>0, <2>2, <3>1
    <3>3. processed' = IF call.kind # "timeout" THEN processed + 1 ELSE processed
      BY <1>9, <2>3 DEF DrainOne
    <3>4. processed' = handed' + discarded' + InBuffer'
      <4>1. CASE call.kind = "timeout"
        BY <1>0, <2>1, <3>3, <4>1
      <4>2. CASE call.kind # "timeout"
        <5>1. InBuffer = Len(out) /\ InBuffer' = Len(out')
          BY <2>1, <4>2
        <5>2. processed' = processed + 1
          BY <3>3, <4>2
        <5> HIDE DEF Accounting, InBuffer
        <5>3. processed = handed + discarded + InBuffer
          BY DEF Accounting
        <5> QED BY <1>0, <2>1, <3>2, <5>1, <5>2, <5>3
      <4> QED BY <4>1, <4>2
    <3> QED BY <2>1, <3>4
  <2>4. CASE ~keep
    BY <1>0, <1>9, <2>1, <2>4 DEF DrainOne
  <2> QED BY <2>3, <2>4
<1>10. CASE DrainEnd
  <2>1. CASE call.kind = "run"
    <3>1. /\ call' = [call EXCEPT !.pc = "sleep"] /\ call.pc = "drain"
          /\ UNCHANGED <<out, handed, discarded, processed>>
      BY <1>10, <2>1 DEF DrainEnd
    <3>2. call'.pc = "sleep" /\ call'.kind = "run"
      BY <1>0, <2>1, <3>1
    <3> QED BY <1>0, <2>1, <3>1, <3>2
  <2>2. CASE call.kind # "run"
    <3>1. /\ call'.pc = "idle" /\ out' = <<>> /\ call.pc = "drain"
          /\ handed' = handed + Len(out) /\ discarded' = discarded
          /\ processed' = IF call.kind = "timeout" THEN processed + Len(out) ELSE processed
      BY <1>10, <2>2 DEF DrainEnd, Return, Idle
    <3> QED BY <1>0, <2>2, <3>1
  <2> QED BY <2>1, <2>2
<1>11. CASE RunUntilStopped
  BY <1>0, <1>11 DEF RunUntilStopped
<1>12. CASE RunCheck
  <2>1. call.pc = "check" /\ call.kind = "run" /\ processed' = processed /\ out' = <<>>
    BY <1>12 DEF RunCheck, Return
  <2>2. call'.pc = "idle" \/ (call'.pc = "drain" /\ call'.kind = "run")
    BY <1>12 DEF RunCheck, Return, Idle, Draining
  <2>3. \/ handed' = handed /\ discarded' = discarded + Len(out)
        \/ handed' = handed + Len(out) /\ discarded' = discarded
    BY <1>12 DEF RunCheck, Return
  <2>4. InBuffer = Len(out) /\ InBuffer' = 0
    BY <1>b, <2>1, <2>2
  <2>5. processed = handed + discarded + InBuffer
    OBVIOUS
  <2>6. processed' = handed' + discarded' + InBuffer'
    <3> HIDE DEF Accounting, InBuffer
    <3> QED BY <1>0, <2>1, <2>3, <2>4, <2>5
  <2> QED BY <2>1, <2>2, <2>6
<1>13. CASE RunSleep
  BY <1>0, <1>13 DEF RunSleep
<1>14. CASE Stop \/ StopClose \/ StopJoin
  BY <1>0, <1>14 DEF Stop, StopClose, StopJoin, Idle
<1> QED
  BY <1>2, <1>3, <1>4, <1>5, <1>6, <1>7, <1>8, <1>9, <1>10, <1>11, <1>12, <1>13, <1>14
     DEF Next, CallbackThread, Owner

\* events_processed() is exact between calls: it counts every event that was
\* handed to the caller and every one run_until_stopped cleared, and no other.
THEOREM ProcessedIsExact == Spec => []ProcessedExact
<1>1. Init => Accounting
  BY DEF Init, Accounting, InBuffer, Idle
<1>2. Accounting /\ TypeOK => ProcessedExact
  BY DEF Accounting, InBuffer, ProcessedExact, TypeOK
<1> QED
  BY <1>1, <1>2, TypeCorrect, AccountingStep, PTL DEF Spec

=============================================================================
