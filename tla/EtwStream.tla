------------------------------ MODULE EtwStream ------------------------------
(***************************************************************************)
(* The event pipeline of one `EventTrace` (src/etw/session.rs): the        *)
(* `ProcessTrace` thread runs `trace_callback_fn` for every record, which  *)
(* filters it and try_sends it to one or two bounded channels; the owner   *)
(* of the trace drains the channels with the next_batch family and ends    *)
(* the session with `stop`.                                                *)
(*                                                                         *)
(* Two threads take steps: the callback thread (Callback, SendDecoded,     *)
(* SendRaw, ThreadExit) and the owner, which has `&mut EventTrace` and so  *)
(* runs one call at a time.  The environment may set the cloned stop       *)
(* handle and may stop the session from another tool.                      *)
(***************************************************************************)
EXTENDS Integers, Sequences

CONSTANTS
    Streams,        \* channels `start` created: the EventStreamMode
    Capacity,       \* channel_capacity
    Pids,           \* header process ids of the records
    Opcodes,        \* opcodes of the records (one event class)
    ProcessFilter,  \* with_process_filter; {} when not called
    OpcodeDrops,    \* drop_opcodes of the event class
    MaxEvents       \* bound: records the kernel delivers

AllStreams == {"raw", "decoded"}

ASSUME StreamsAssumption == Streams \subseteq AllStreams /\ Streams # {}
ASSUME CapacityAssumption == Capacity \in Nat
ASSUME FilterAssumption == ProcessFilter \subseteq Pids /\ OpcodeDrops \subseteq Opcodes
ASSUME BoundAssumption == MaxEvents \in Nat

VARIABLES
    arrived,     \* records handed to trace_callback_fn so far
    cb,          \* progress of the callback and the event it holds
    chan,        \* contents of the two sync_channels
    dropped,     \* CallbackContext.dropped
    call,        \* the call the owner is inside of
    out,         \* out_events, while a call fills it
    processed,   \* events_processed
    stopSignal,  \* stop_signal, a manual-reset event
    started,     \* EventTrace.started
    session,     \* the kernel session of this name still runs
    traceOpen,   \* trace_handle is not u64::MAX
    thread,      \* the ProcessTrace thread
    offered,     \* history: events the callback tried to send, per stream
    taken,       \* history: events received, per stream
    last,        \* history: id of the event received last, per stream
    handed,      \* history: events in buffers returned to the caller
    discarded    \* history: events cleared from `out` inside run_until_stopped

cbVars == <<arrived, cb, dropped, offered>>
ownerVars == <<call, out, processed, taken, last, handed, discarded>>
ctlVars == <<stopSignal, started, session, traceOpen, thread>>
vars == <<cbVars, chan, ownerVars, ctlVars>>

Event == [id : 1..MaxEvents, pid : Pids, opcode : Opcodes]
NoEvent == [id |-> 0, pid |-> 0, opcode |-> 0]
CbStage == {"idle", "decoded", "raw"}
CallPc == {"idle", "recv", "drain", "check", "sleep", "closing", "joining"}
CallKind == {"batch", "timeout", "run"}

-----------------------------------------------------------------------------
(* The callback thread.                                                    *)

\* normalize_process_filter and is_dropped: an empty process filter passes
\* every process.
Wanted(e) ==
    /\ ProcessFilter # {} => e.pid \in ProcessFilter
    /\ e.opcode \notin OpcodeDrops

\* trace_callback_fn runs for the next record: both filters return early,
\* any other record goes to the decoded channel first, when there is one.
Callback(pid, opcode) ==
    /\ thread = "running"
    /\ cb.stage = "idle"
    /\ arrived < MaxEvents
    /\ arrived' = arrived + 1
    /\ LET e == [id |-> arrived + 1, pid |-> pid, opcode |-> opcode]
           first == IF "decoded" \in Streams THEN "decoded" ELSE "raw"
       IN  cb' = IF Wanted(e) THEN [stage |-> first, ev |-> e] ELSE cb
    /\ UNCHANGED <<chan, dropped, offered, ownerVars, ctlVars>>

\* A mutant: one event less than the capacity.
Room_Early(s) == Len(chan[s]) + 1 < Capacity

\* Whether try_send on sync_channel(Capacity) succeeds.  A channel of
\* capacity 0 hands over only to a receiver blocked in recv_timeout.
Room(s) ==
    \/ Len(chan[s]) < Capacity
    \/ Capacity = 0 /\ s = "raw" /\ call.pc = "recv" /\ chan[s] = <<>>

\* A mutant: the failed send is not counted.
TrySend_Uncounted(s) ==
    /\ offered' = [offered EXCEPT ![s] = @ + 1]
    /\ chan' = IF Room(s) THEN [chan EXCEPT ![s] = Append(@, cb.ev)] ELSE chan
    /\ UNCHANGED dropped

\* sender.try_send(event), counting the event as dropped when it fails.
TrySend(s) ==
    /\ offered' = [offered EXCEPT ![s] = @ + 1]
    /\ \/ /\ Room(s)
          /\ chan' = [chan EXCEPT ![s] = Append(@, cb.ev)]
          /\ UNCHANGED dropped
       \/ /\ ~Room(s)
          /\ dropped' = dropped + 1
          /\ UNCHANGED chan

\* `if let Some(tx) = &ctx.decoded_sender`, then the raw sender's turn.
SendDecoded ==
    /\ cb.stage = "decoded"
    /\ TrySend("decoded")
    /\ cb' = [cb EXCEPT !.stage = IF "raw" \in Streams THEN "raw" ELSE "idle"]
    /\ UNCHANGED <<arrived, ownerVars, ctlVars>>

SendRaw ==
    /\ cb.stage = "raw"
    /\ TrySend("raw")
    /\ cb' = [cb EXCEPT !.stage = "idle"]
    /\ UNCHANGED <<arrived, ownerVars, ctlVars>>

\* ProcessTrace returns between two callbacks once the session has ended or
\* the trace handle is closed; records already buffered may still come first.
ThreadExit ==
    /\ thread = "running"
    /\ cb.stage = "idle"
    /\ ~session \/ ~traceOpen
    /\ thread' = "finished"
    /\ UNCHANGED <<cbVars, chan, ownerVars, stopSignal, started, session, traceOpen>>

-----------------------------------------------------------------------------
(* The owner: one call at a time, through &mut self.                       *)

Idle == [pc |-> "idle", stream |-> "raw", kind |-> "batch"]
Draining(s, k) == [pc |-> "drain", stream |-> s, kind |-> k]

\* The call returns and the caller has the batch.
Return(batch) ==
    /\ call' = Idle
    /\ out' = <<>>
    /\ handed' = handed + Len(batch)

\* next_batch_with_filter (s = "raw") and next_batch_decoded_with_filter.
\* A disabled stream is an error that touches nothing.
NextBatchWithFilter(s) ==
    /\ call.pc = "idle"
    /\ s \in Streams
    /\ out' = <<>>
    /\ call' = Draining(s, "batch")
    /\ UNCHANGED <<cbVars, chan, processed, taken, last, handed, discarded, ctlVars>>

\* next_batch_or_stopped: with the signal set it clears the buffer and
\* returns 0, otherwise it is next_batch.
NextBatchOrStopped ==
    /\ call.pc = "idle"
    /\ stopSignal
    /\ Return(<<>>)
    /\ UNCHANGED <<cbVars, chan, processed, taken, last, discarded, ctlVars>>

\* next_batch_timeout up to its recv_timeout.
NextBatchTimeout ==
    /\ call.pc = "idle"
    /\ "raw" \in Streams
    /\ out' = <<>>
    /\ call' = [pc |-> "recv", stream |-> "raw", kind |-> "timeout"]
    /\ UNCHANGED <<cbVars, chan, processed, taken, last, handed, discarded, ctlVars>>

\* Take the head of channel s.
Receive(s) ==
    /\ chan[s] # <<>>
    /\ chan' = [chan EXCEPT ![s] = Tail(@)]
    /\ taken' = [taken EXCEPT ![s] = @ + 1]
    /\ last' = [last EXCEPT ![s] = Head(chan[s]).id]

RecvFirst ==
    /\ call.pc = "recv"
    /\ Receive("raw")
    /\ out' = Append(out, Head(chan["raw"]))
    /\ call' = Draining("raw", "timeout")
    /\ UNCHANGED <<cbVars, processed, handed, discarded, ctlVars>>

\* The timeout elapses with nothing in the channel.  The senders live in the
\* callback context the trace owns, so Disconnected cannot happen here.
RecvTimeout ==
    /\ call.pc = "recv"
    /\ chan["raw"] = <<>>
    /\ Return(out)
    /\ UNCHANGED <<cbVars, chan, processed, taken, last, discarded, ctlVars>>

\* One turn of `while let Ok(event) = rx.try_recv()`; the caller's filter is
\* any predicate, and only the filtered variants have one.
DrainOne(keep) ==
    /\ call.pc = "drain"
    /\ keep \/ call.kind = "batch"
    /\ Receive(call.stream)
    /\ out' = IF keep THEN Append(out, Head(chan[call.stream])) ELSE out
    /\ processed' = IF keep /\ call.kind # "timeout" THEN processed + 1 ELSE processed
    /\ UNCHANGED <<cbVars, call, handed, discarded, ctlVars>>

\* A mutant: next_batch_timeout without its last assignment.
DrainEnd_Uncounted ==
    /\ call.pc = "drain"
    /\ chan[call.stream] = <<>>
    /\ IF call.kind = "run"
       THEN call' = [call EXCEPT !.pc = "sleep"] /\ UNCHANGED <<out, handed>>
       ELSE Return(out)
    /\ UNCHANGED <<cbVars, chan, processed, taken, last, discarded, ctlVars>>

\* try_recv finds the channel empty: next_batch_timeout adds its batch to the
\* counter, run_until_stopped sleeps, the others return.
DrainEnd ==
    /\ call.pc = "drain"
    /\ chan[call.stream] = <<>>
    /\ processed' = IF call.kind = "timeout" THEN processed + Len(out) ELSE processed
    /\ IF call.kind = "run"
       THEN call' = [call EXCEPT !.pc = "sleep"] /\ UNCHANGED <<out, handed>>
       ELSE Return(out)
    /\ UNCHANGED <<cbVars, chan, taken, last, discarded, ctlVars>>

RunUntilStopped ==
    /\ call.pc = "idle"
    /\ call' = [pc |-> "check", stream |-> "raw", kind |-> "run"]
    /\ UNCHANGED <<cbVars, chan, out, processed, taken, last, handed, discarded, ctlVars>>

\* The head of the loop: the signal ends it with an empty buffer, and so does
\* the error of next_batch when the raw stream is disabled (which leaves the
\* caller's buffer alone); otherwise next_batch clears the buffer and drains.
RunCheck ==
    /\ call.pc = "check"
    /\ \/ /\ stopSignal \/ "raw" \in Streams
          /\ out' = <<>>
          /\ discarded' = discarded + Len(out)
          /\ call' = IF stopSignal THEN Idle ELSE Draining("raw", "run")
          /\ UNCHANGED handed
       \/ /\ ~stopSignal /\ "raw" \notin Streams
          /\ Return(out)
          /\ UNCHANGED discarded
    /\ UNCHANGED <<cbVars, chan, processed, taken, last, ctlVars>>

RunSleep ==
    /\ call.pc = "sleep"
    /\ call' = [call EXCEPT !.pc = "check"]
    /\ UNCHANGED <<cbVars, chan, out, processed, taken, last, handed, discarded, ctlVars>>

\* stop(), also run by Drop: the signal is set and ControlTraceW stops the
\* session.  A trace that is not started returns at once.
Stop ==
    /\ call.pc = "idle"
    /\ started
    /\ stopSignal' = TRUE
    /\ session' = FALSE
    /\ call' = [Idle EXCEPT !.pc = "closing"]
    /\ UNCHANGED <<cbVars, chan, out, processed, taken, last, handed, discarded,
                   started, traceOpen, thread>>

StopClose ==
    /\ call.pc = "closing"
    /\ traceOpen' = FALSE
    /\ call' = [call EXCEPT !.pc = "joining"]
    /\ UNCHANGED <<cbVars, chan, out, processed, taken, last, handed, discarded,
                   stopSignal, started, session, thread>>

\* A mutant: stop() that does not wait for the ProcessTrace thread.
StopJoin_Detached ==
    /\ call.pc = "joining"
    /\ started' = FALSE
    /\ call' = Idle
    /\ UNCHANGED <<cbVars, chan, out, processed, taken, last, handed, discarded,
                   stopSignal, session, traceOpen, thread>>

StopJoin ==
    /\ call.pc = "joining"
    /\ thread = "finished"
    /\ started' = FALSE
    /\ call' = Idle
    /\ UNCHANGED <<cbVars, chan, out, processed, taken, last, handed, discarded,
                   stopSignal, session, traceOpen, thread>>

\* A mutant: is_running that looks only at the flag.
IsRunning_FlagOnly == started

\* is_running.
IsRunning == started /\ thread # "finished"

-----------------------------------------------------------------------------
(* The environment.                                                        *)

\* A coordinator sets its clone of stop_handle().
SignalStop ==
    /\ ~stopSignal
    /\ stopSignal' = TRUE
    /\ UNCHANGED <<cbVars, chan, ownerVars, started, session, traceOpen, thread>>

\* Another tool stops the session of this name.
ForeignStop ==
    /\ session
    /\ session' = FALSE
    /\ UNCHANGED <<cbVars, chan, ownerVars, stopSignal, started, traceOpen, thread>>

-----------------------------------------------------------------------------
\* The EventTrace that start() returns; the callback holds no event yet.
Init ==
    /\ arrived = 0
    /\ cb = [stage |-> "idle", ev |-> NoEvent]
    /\ chan = [s \in AllStreams |-> <<>>]
    /\ dropped = 0
    /\ call = Idle
    /\ out = <<>>
    /\ processed = 0
    /\ stopSignal = FALSE
    /\ started = TRUE
    /\ session = TRUE
    /\ traceOpen = TRUE
    /\ thread = "running"
    /\ offered = [s \in AllStreams |-> 0]
    /\ taken = [s \in AllStreams |-> 0]
    /\ last = [s \in AllStreams |-> 0]
    /\ handed = 0
    /\ discarded = 0

CallbackThread ==
    \/ \E pid \in Pids, opcode \in Opcodes : Callback(pid, opcode)
    \/ SendDecoded
    \/ SendRaw
    \/ ThreadExit

Owner ==
    \/ \E s \in AllStreams : NextBatchWithFilter(s)
    \/ NextBatchOrStopped
    \/ NextBatchTimeout
    \/ RecvFirst
    \/ RecvTimeout
    \/ \E keep \in BOOLEAN : DrainOne(keep)
    \/ DrainEnd
    \/ RunUntilStopped
    \/ RunCheck
    \/ RunSleep
    \/ Stop
    \/ StopClose
    \/ StopJoin

Next == CallbackThread \/ Owner \/ SignalStop \/ ForeignStop

Spec == Init /\ [][Next]_vars

\* The callback runs to its end once it has begun and ProcessTrace returns
\* when it can; an owner inside stop() goes on.  Nothing obliges the kernel to
\* produce records or the owner to begin a call.
Fairness ==
    /\ WF_vars(SendDecoded \/ SendRaw)
    /\ WF_vars(ThreadExit)
    /\ WF_vars(StopClose \/ StopJoin)

FairSpec == Spec /\ Fairness

-----------------------------------------------------------------------------
(* Properties.                                                             *)

\* Every variable keeps its type.
TypeOK ==
    /\ arrived \in 0..MaxEvents
    /\ cb \in [stage : CbStage, ev : Event \cup {NoEvent}]
    /\ cb.stage # "idle" => cb.ev \in Event /\ cb.stage \in Streams
    /\ chan \in [AllStreams -> Seq(Event)]
    /\ dropped \in Nat
    /\ call \in [pc : CallPc, stream : AllStreams, kind : CallKind]
    /\ out \in Seq(Event)
    /\ processed \in Nat
    /\ stopSignal \in BOOLEAN
    /\ started \in BOOLEAN
    /\ session \in BOOLEAN
    /\ traceOpen \in BOOLEAN
    /\ thread \in {"running", "finished"}
    /\ offered \in [AllStreams -> Nat]
    /\ taken \in [AllStreams -> Nat]
    /\ last \in [AllStreams -> 0..MaxEvents]
    /\ handed \in Nat
    /\ discarded \in Nat

\* Events offered to a stream that are neither queued nor received.
Missing(s) == offered[s] - Len(chan[s]) - taken[s]

\* events_dropped() is exact at every moment: it is the number of events the
\* callback offered to either channel that are neither queued there nor were
\* received by the owner, whatever the interleaving of try_send and try_recv.
DroppedExact == dropped = Missing("raw") + Missing("decoded")

\* channel_capacity bounds each channel; a channel of capacity 0 holds at most
\* the event being handed to a receiver blocked in next_batch_timeout.
ChannelBounded ==
    \A s \in AllStreams :
        \/ Len(chan[s]) <= Capacity
        \/ /\ Capacity = 0 /\ s = "raw"
           /\ call.pc = "recv" /\ Len(chan[s]) = 1

\* Each stream is delivered in the order the kernel produced it and nothing is
\* delivered twice: the id received last only grows.
InOrder == [][\A s \in AllStreams : last'[s] # last[s] => last'[s] > last[s]]_vars

\* events_processed() accounts for every event that left a batch buffer, by
\* whichever of the calls, once no call is in progress.
ProcessedExact == call.pc = "idle" => processed = handed + discarded

\* The doc of events_processed: "Total events delivered so far across all
\* next_batch calls".  run_until_stopped counts the events it drains and then
\* clears them before its caller can see one.
ProcessedReachesCaller == call.pc = "idle" => processed = handed

\* When stop() has returned the ProcessTrace thread is gone and no callback is
\* half way through its sends, so the callback context may be freed.
StopQuiesces ==
    ~started => /\ thread = "finished" /\ cb.stage = "idle"
                /\ ~session /\ ~traceOpen

\* stop() returns: the join cannot deadlock with a callback that faces a full
\* channel nobody drains any more.
StopTerminates == (call.pc \in {"closing", "joining"}) ~> ~started

\* is_running() turns false once another tool has stopped the session.
ForeignStopNoticed == ~session ~> ~IsRunning

\* A trace comes to an end for its owner, with full channels that nobody drains
\* (stop) and when another tool has stopped the session (is_running).
TraceEnds == StopTerminates /\ ForeignStopNoticed

\* Each channel of a session with channel_capacity >= 1 is a bounded lossy
\* queue: the callback loses an event only when the channel is full, counts
\* every loss, and the owner's calls receive the rest in order.
RawQueue == INSTANCE LossyQueue WITH
    Items <- Event, Cap <- Capacity,
    queue <- chan["raw"], lost <- Missing("raw"), got <- taken["raw"]
DecodedQueue == INSTANCE LossyQueue WITH
    Items <- Event, Cap <- Capacity,
    queue <- chan["decoded"], lost <- Missing("decoded"), got <- taken["decoded"]

ChannelsAreLossyQueues == RawQueue!Spec /\ DecodedQueue!Spec
=============================================================================
