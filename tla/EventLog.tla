------------------------------ MODULE EventLog ------------------------------
(* Reading an event log (evt/): queries fetched batch by batch, the record   *)
(* handles of a batch, rendering as values or XML, and message formatting    *)
(* over the process-wide cache of publisher metadata.                        *)
(*                                                                           *)
(* Each thread has one EventQuery over the records its XPath selects.  A     *)
(* record says what EvtRender and the caller's code make of it; its XML is   *)
(* the sequence of tokens quick-xml returns; a reference such as &amp; is a   *)
(* token of its own, of type Ref, and divides the text it stands in.         *)
EXTENDS Integers, Sequences, FiniteSets

CONSTANTS
    Record,       \* record name -> what EvtRender and the caller's code make of it
    Threads,      \* threads, each with a query of its own
    Programs,     \* what the threads may be asked to do: functions from
                  \* threads to [kind, format, data, message, fields,
                  \* builder, log], the log a sequence of record names
    BatchSize,    \* length of batch_buffer (64 in the code)
    FirstBuffer,  \* first buffer of format_message, in bytes (4096)
    MaxBuffer,    \* its limit (1048576)
    MaxOpens      \* bound on publisher handles opened

\* A program is a job for every thread, its log is a sequence of records, a
\* record's XML is a sequence of tokens, and a batch has room for a record.
ASSUME LogAssumption ==
    /\ BatchSize \in Nat \ {0}
    /\ \A x \in DOMAIN Record : Record[x].xml \in Seq({Record[x].xml[i] : i \in DOMAIN Record[x].xml})
    /\ \A p \in Programs :
          /\ DOMAIN p = Threads
          /\ \A t \in Threads : {"kind", "log"} \subseteq DOMAIN p[t] /\ p[t].log \in Seq(DOMAIN Record)

VARIABLES
    job,        \* thread -> its operation, render format, options and records
    stage,      \* thread -> where its call is
    pos,        \* thread -> records EvtNext has returned so far
    batch,      \* thread -> the record numbers of the batch still to be handled
    handles,    \* open record handles, as <<thread, record number>>
    out,        \* thread -> what the call under way has put into the output
    given,      \* thread -> what calls have returned, and query() collected
    corrupted,  \* thread -> EventQuery.corrupted, as record numbers
    total,      \* thread -> EventQuery.total_processed
    cancel,     \* the caller's Wait is signalled
    cache,      \* PUBLISHER_METADATA_CACHE: provider -> handle
    pubs,       \* open publisher handles
    opened,     \* publisher handles opened so far
    fmt         \* thread -> format_message: the handle and the buffer it uses

query == <<pos, batch, handles, out, given, corrupted, total>>
publisher == <<cache, pubs, opened, fmt>>
logVars == <<job, stage, query, cancel, publisher>>

\* The n-th record of the thread's log.
Rec(t, n) == Record[job[t].log[n]]

Idle == [handle |-> 0, bytes |-> 0, done |-> FALSE]

---------------------------------------------------------------------------
(* Rendering.                                                               *)

\* Whether position i of the token sequence lies inside the element.
Inside(xml, i, tag) ==
    \E j \in 1..(i-1) :
        /\ xml[j].tag = tag /\ xml[j].type = "Start"
        /\ \A k \in (j+1)..(i-1) : ~(xml[k].tag = tag /\ xml[k].type = "End")

\* A Data element with a name starts at j.
NamedData(xml, j) == /\ xml[j].type = "Start" /\ xml[j].tag = "Data" /\ xml[j].name # ""
                     /\ Inside(xml, j, "EventData")

\* The Data element whose name is current at the text at i: the last one
\* opened, when no text has used its name yet.
CurrentName(xml, i) ==
    {j \in 1..(i-1) :
        /\ NamedData(xml, j)
        /\ \A k \in (j+1)..(i-1) :
              /\ ~(xml[k].type = "Start" /\ xml[k].tag = "Data")
              /\ ~(xml[k].type = "Text" /\ Inside(xml, k, "EventData"))}

\* The named elements and their texts, as positions.
NamedTexts(xml) ==
    {q \in (1..Len(xml)) \X (1..Len(xml)) :
        /\ xml[q[2]].type = "Text" /\ Inside(xml, q[2], "EventData")
        /\ q[1] \in CurrentName(xml, q[2])}

\* extract_event_data_from_xml: a later text replaces one of the same name.
extract_event_data(xml) ==
    {<<xml[p[1]].name, xml[p[2]].text>> : p \in
        {q \in NamedTexts(xml) :
            \A l \in NamedTexts(xml) : xml[l[1]].name = xml[q[1]].name => l[2] <= q[2]}}

\* parse_event_xml_with_quick_xml: the texts of System's elements, and the
\* attributes of Provider and TimeCreated when they have an end tag and of
\* Execution when it has none.
parse_event_xml(xml) ==
    LET tokens == {i \in DOMAIN xml : Inside(xml, i, "System")}
        attribute(k) == \/ k.type = "Start" /\ k.tag \in {"Provider", "TimeCreated"}
                        \/ k.type = "Empty" /\ k.tag = "Execution"
        texts == {"EventID", "Level", "Channel", "Computer", "EventRecordID"}
        owner(i) == {j \in 1..(i-1) :
                        /\ xml[j].type = "Start" /\ xml[j].tag \in texts
                        /\ \A k \in (j+1)..(i-1) : xml[k].type \notin {"Start", "End"}}
    IN  {<<xml[i].tag, xml[i].text>> : i \in {j \in tokens : attribute(xml[j])}}
        \cup UNION {{<<xml[j].tag, xml[i].text>> : j \in owner(i)} :
                        i \in {j \in tokens : xml[j].type = "Text"}}

\* The system properties by position, and the variant type each must have.
Fields == <<"id", "level", "provider", "channel", "computer", "timestamp", "record",
            "process", "thread">>
VariantType == <<8, 2, 21, 21, 21, 29, 10, 8, 8>>

\* render_event_values: a property whose variant has the type expected at its
\* position; the others keep their default.
render_event_values(r) ==
    {<<Fields[i], r.values[i][2]>> :
        i \in {j \in DOMAIN r.values : j <= Len(Fields) /\ r.values[j][1] = VariantType[j]}}

\* extract_event_id, extract_level, extract_provider, extract_timestamp and
\* extract_record_id, which a converter calls: position and variant type.
Extracts == {<<1, 8>>, <<2, 2>>, <<3, 21>>, <<6, 17>>, <<7, 10>>}

\* extract_variant_field: the values are rendered once more for each field.
extract_variant_field(r, x) ==
    r.valuesFit /\ x[1] <= Len(r.values) /\ r.values[x[1]][1] = x[2]

\* The caller's converter, which asks for some of the fields.
Converts(t, r) == \A x \in job[t].fields : extract_variant_field(r, x)

\* build_xpath: whether the expression selects the record.  The provider is
\* looked for in a System element below System, which no record has.
build_xpath(b, r) ==
    IF b.xpath THEN r.chosen
    ELSE /\ b.level # 0 => r.level <= b.level
         /\ b.provider = ""
         /\ b.event_id # 0 => r.id = b.event_id

\* Whether EvtRender and the parser accept the record (the buffers of 8192
\* and 16384 bytes are not enlarged).
Renders(t, r) == IF job[t].format = "Values" /\ job[t].kind # "deserialize"
                 THEN r.valuesFit ELSE r.xmlFits /\ r.wellFormed

\* The rendered fields of each record, in both formats.
Rendered ==
    [x \in DOMAIN Record |->
        [Values |-> render_event_values(Record[x]),
         Xml |-> parse_event_xml(Record[x].xml),
         data |-> extract_event_data(Record[x].xml)]]

\* render_event: the fields of an event that is rendered.
render_event(t, n) ==
    [record |-> n,
     sys |-> Rendered[job[t].log[n]][job[t].format],
     data |-> IF job[t].data /\ job[t].format = "Xml" THEN Rendered[job[t].log[n]].data ELSE {}]

---------------------------------------------------------------------------
(* The query, its handle <<t, 0>>, and the channels.                        *)

\* EvtQuery: the records the expression selects, in the log's order.
Selected(log, b) ==
    LET hits == {k \in DOMAIN log : build_xpath(b, Record[log[k]])}
    IN  [i \in 1..Cardinality(hits) |->
            log[CHOOSE k \in hits : Cardinality({j \in hits : j <= k}) = i]]

\* query_stream; EvtQuery may fail.  query() passes the builder's expression.
query_stream(t) ==
    /\ stage[t] = "start" /\ job[t].kind # "channels"
    /\ \/ /\ job' = [job EXCEPT ![t].log = Selected(@, job[t].builder)]
          /\ handles' = handles \cup {<<t, 0>>}
          /\ stage' = [stage EXCEPT ![t] = "idle"]
       \/ /\ stage' = [stage EXCEPT ![t] = "failed"]
          /\ UNCHANGED <<job, handles>>
    /\ UNCHANGED <<pos, batch, out, given, corrupted, total, cancel, publisher>>

\* Drop for EventQuery: query() when it returns, a caller at any time.
DropQuery(t) ==
    /\ <<t, 0>> \in handles /\ job[t].kind # "channels"
    /\ stage[t] \in {"idle", "ended", "failed"}
    /\ job[t].kind = "query" => stage[t] # "idle"
    /\ handles' = handles \ {<<t, 0>>}
    /\ stage' = [stage EXCEPT ![t] = IF @ = "idle" THEN "ended" ELSE @]
    /\ UNCHANGED <<job, pos, batch, out, given, corrupted, total, cancel, publisher>>

\* list_channels_filtered: EvtOpenChannelEnum, which may fail.
list_channels(t) ==
    /\ stage[t] = "start" /\ job[t].kind = "channels"
    /\ \/ /\ handles' = handles \cup {<<t, 0>>}
          /\ stage' = [stage EXCEPT ![t] = "channels"]
       \/ /\ stage' = [stage EXCEPT ![t] = "failed"]
          /\ UNCHANGED handles
    /\ UNCHANGED <<job, pos, batch, out, given, corrupted, total, cancel, publisher>>

\* should_include_channel: analytic and debug channels are left out, unless
\* all are asked for.
should_include_channel(t, r) == job[t].builder.xpath \/ r.kept

\* EvtNextChannelPath and the filter; whatever makes it fail ends the loop.
NextChannel(t) ==
    /\ stage[t] = "channels"
    /\ LET n == pos[t] + 1
       IN  \/ /\ n <= Len(job[t].log)
              /\ pos' = [pos EXCEPT ![t] = n]
              /\ given' = IF should_include_channel(t, Rec(t, n))
                          THEN [given EXCEPT ![t] = Append(@, [record |-> n, data |-> {}])] ELSE given
              /\ UNCHANGED <<stage, handles>>
           \/ /\ handles' = handles \ {<<t, 0>>}
              /\ stage' = [stage EXCEPT ![t] = "ended"]
              /\ UNCHANGED <<pos, given>>
    /\ UNCHANGED <<job, batch, out, corrupted, total, cancel, publisher>>

---------------------------------------------------------------------------
(* One batch.  The four operations share EvtNext, the loop over the handles *)
(* and EvtClose; they differ in what becomes of a record.                   *)

\* A caller may call next_batch again, after an end or an error too; query()
\* does not.
MayCall(t) ==
    /\ <<t, 0>> \in handles
    /\ stage[t] \in IF job[t].kind = "query" THEN {"idle"} ELSE {"idle", "ended", "failed"}

\* next_batch_or_cancel looks at the cancel signal before it fetches.
Cancelled(t) ==
    /\ MayCall(t)
    /\ cancel
    /\ job[t].kind = "filter"
    /\ out' = [out EXCEPT ![t] = <<>>]
    /\ stage' = [stage EXCEPT ![t] = "ended"]
    /\ UNCHANGED <<job, pos, batch, handles, given, corrupted, total, cancel, publisher>>

\* A mutant: an EvtNext that returns nothing is tried again.
NoMoreItems_Retries(n) == "idle"

\* EvtNext failed: at the end with ERROR_NO_MORE_ITEMS, else with an error.
NoMoreItems(n) == IF n = 0 THEN "ended" ELSE "failed"

\* EvtNext returns up to BatchSize handles, fails, or has no more items.
Fetch(t) ==
    /\ MayCall(t) /\ job[t].kind # "channels"
    /\ ~(cancel /\ job[t].kind = "filter")
    /\ LET n == IF Len(job[t].log) - pos[t] < BatchSize THEN Len(job[t].log) - pos[t] ELSE BatchSize
           numbers == [k \in 1..n |-> pos[t] + k]
       IN  \/ /\ n > 0
              /\ pos' = [pos EXCEPT ![t] = @ + n]
              /\ batch' = [batch EXCEPT ![t] = numbers]
              /\ handles' = handles \cup {<<t, numbers[k]>> : k \in 1..n}
              /\ stage' = [stage EXCEPT ![t] = "items"]
           \/ /\ stage' = [stage EXCEPT ![t] = NoMoreItems(n)]
              /\ UNCHANGED <<pos, batch, handles>>
    /\ out' = [out EXCEPT ![t] = <<>>]
    /\ UNCHANGED <<job, given, corrupted, total, cancel, publisher>>

\* Whether a record goes on to format_message before it is put out.
NeedsMessage(t) ==
    LET r == Rec(t, Head(batch[t]))
    IN  /\ job[t].message /\ job[t].kind \in {"query", "filter", "results"}
        /\ Renders(t, r) /\ ~fmt[t].done

\* What becomes of the record in each of the operations: put out, put out as
\* an error, listed as corrupted, or skipped.
next_batch_with_filter(t, r) ==
    IF ~Renders(t, r) THEN "corrupted"
    ELSE IF r.kept \/ job[t].kind = "query" THEN "event" ELSE "skip"

next_batch_with_results(t, r) == IF Renders(t, r) THEN "event" ELSE "error"

next_batch_raw_with_filter(t, r) == IF Converts(t, r) /\ r.kept THEN "event" ELSE "skip"

next_batch_deserialize(t, r) == IF Renders(t, r) /\ r.converts THEN "event" ELSE "skip"

Verdict(t, r) ==
    CASE job[t].kind = "results" -> next_batch_with_results(t, r)
      [] job[t].kind = "raw" -> next_batch_raw_with_filter(t, r)
      [] job[t].kind = "deserialize" -> next_batch_deserialize(t, r)
      [] OTHER -> next_batch_with_filter(t, r)

\* EvtClose at the end of the loop's body, whatever the outcome.
Closed(t, r) == handles \ {<<t, Head(batch[t])>>}

\* A mutant: a record that cannot be rendered is dropped.
Corrupted_Dropped(t, n) == corrupted

Corrupted(t, n) == [corrupted EXCEPT ![t] = Append(@, n)]

Item(t) ==
    /\ stage[t] = "items"
    /\ batch[t] # <<>>
    /\ ~NeedsMessage(t)
    /\ LET n == Head(batch[t])
           r == Rec(t, n)
           v == Verdict(t, r)
       IN  /\ out' = IF v = "event" THEN [out EXCEPT ![t] = Append(@, [record |-> n, data |-> render_event(t, n).data])]
                     ELSE IF v = "error"
                          THEN [out EXCEPT ![t] = Append(@, [record |-> n, data |-> {}])]
                          ELSE out
           /\ corrupted' = IF v = "corrupted" THEN Corrupted(t, n) ELSE corrupted
           \* next_batch_deserialize does not count what it cannot render
           /\ total' = IF job[t].kind = "deserialize" /\ ~Renders(t, r) THEN total
                       ELSE [total EXCEPT ![t] = @ + 1]
           /\ handles' = Closed(t, r)
           /\ batch' = [batch EXCEPT ![t] = Tail(@)]
           /\ fmt' = [fmt EXCEPT ![t] = Idle]
    /\ UNCHANGED <<job, stage, pos, given, cancel, cache, pubs, opened>>

\* The call returns.  query() appends the batch and calls again until a call
\* returns 0.
Return(t) ==
    /\ stage[t] = "items"
    /\ batch[t] = <<>>
    /\ given' = [given EXCEPT ![t] = @ \o out[t]]
    /\ stage' = [stage EXCEPT ![t] = IF job[t].kind = "query" /\ out[t] = <<>> THEN "ended" ELSE "idle"]
    /\ UNCHANGED <<job, pos, batch, handles, out, corrupted, total, cancel, publisher>>

---------------------------------------------------------------------------
(* format_message and its cache of publisher metadata.                      *)

\* event.provider of the event just rendered; empty when it was not read.
Provider(t) ==
    LET names == {f \in render_event(t, Head(batch[t])).sys : f[1] \in {"provider", "Provider"}}
    IN  IF names = {} THEN "" ELSE (CHOOSE f \in names : TRUE)[2]

\* The fast path under the read lock: a clone of the cached handle.
FastPath(t) ==
    /\ stage[t] = "items" /\ batch[t] # <<>> /\ NeedsMessage(t)
    /\ fmt[t] = Idle
    /\ IF Provider(t) \in DOMAIN cache
       THEN /\ fmt' = [fmt EXCEPT ![t].handle = cache[Provider(t)], ![t].bytes = FirstBuffer]
            /\ UNCHANGED stage
       ELSE /\ stage' = [stage EXCEPT ![t] = "open"]
            /\ UNCHANGED fmt
    /\ UNCHANGED <<job, query, cancel, cache, pubs, opened>>

\* EvtOpenPublisherMetadata without a lock; without metadata, no message.
OpenMetadata(t) ==
    /\ stage[t] = "open"
    /\ \/ /\ opened < MaxOpens
          /\ opened' = opened + 1
          /\ pubs' = pubs \cup {opened + 1}
          /\ fmt' = [fmt EXCEPT ![t].handle = opened + 1, ![t].bytes = FirstBuffer]
          /\ stage' = [stage EXCEPT ![t] = "insert"]
       \/ /\ fmt' = [fmt EXCEPT ![t].done = TRUE]
          /\ stage' = [stage EXCEPT ![t] = "items"]
          /\ UNCHANGED <<pubs, opened>>
    /\ UNCHANGED <<job, query, cancel, cache>>

\* The write lock: a value that another thread inserted meanwhile is dropped,
\* which closes its handle.
InsertMetadata(t) ==
    /\ stage[t] = "insert"
    /\ cache' = [p \in DOMAIN cache \cup {Provider(t)} |->
                    IF p = Provider(t) THEN fmt[t].handle ELSE cache[p]]
    /\ pubs' = pubs \ (IF Provider(t) \in DOMAIN cache THEN {cache[Provider(t)]} ELSE {})
    /\ stage' = [stage EXCEPT ![t] = "items"]
    /\ UNCHANGED <<job, query, cancel, opened, fmt>>

\* EvtFormatMessage wants r.message characters; the buffer has half as many
\* characters as bytes, and the size it asks for is taken for bytes.  At the
\* end the clone is dropped, which closes the handle.
FormatMessage(t) ==
    /\ stage[t] = "items" /\ fmt[t].handle # 0 /\ ~fmt[t].done
    /\ LET r == Rec(t, Head(batch[t]))
           short == fmt[t].handle \in pubs /\ r.message > fmt[t].bytes \div 2
       IN  IF short /\ r.message <= MaxBuffer
           THEN /\ fmt' = [fmt EXCEPT ![t].bytes = r.message]
                /\ UNCHANGED pubs
           ELSE /\ fmt' = [fmt EXCEPT ![t].done = TRUE]
                /\ pubs' = pubs \ {fmt[t].handle}
    /\ UNCHANGED <<job, stage, query, cancel, cache, opened>>

\* Another thread signals the Wait.
Signal ==
    /\ ~cancel
    /\ cancel' = TRUE
    /\ UNCHANGED <<job, stage, query, publisher>>

LogInit ==
    /\ job \in Programs
    /\ stage = [t \in Threads |-> "start"]
    /\ pos = [t \in Threads |-> 0]
    /\ batch = [t \in Threads |-> <<>>]
    /\ handles = {}
    /\ out = [t \in Threads |-> <<>>]
    /\ given = [t \in Threads |-> <<>>]
    /\ corrupted = [t \in Threads |-> <<>>]
    /\ total = [t \in Threads |-> 0]
    /\ cancel = FALSE
    /\ cache = [p \in {} |-> 0]
    /\ pubs = {}
    /\ opened = 0
    /\ fmt = [t \in Threads |-> Idle]

Step(t) ==
    \/ query_stream(t) \/ DropQuery(t)
    \/ list_channels(t) \/ NextChannel(t)
    \/ Cancelled(t)
    \/ Fetch(t)
    \/ Item(t)
    \/ Return(t)
    \/ FastPath(t)
    \/ OpenMetadata(t)
    \/ InsertMetadata(t)
    \/ FormatMessage(t)

LogNext == Signal \/ \E t \in Threads : Step(t)

\* A thread in a call goes on.
LogFairness == \A t \in Threads : WF_logVars(Step(t))

LogSpec == LogInit /\ [][LogNext]_logVars /\ LogFairness

---------------------------------------------------------------------------
(* Properties.                                                              *)

\* The records handled so far, those among them that cannot be rendered, those
\* the caller wants, and what calls must have returned of them.
Handled(t) == 1..(pos[t] - Len(batch[t]))
Bad(t) == {n \in Handled(t) : ~Renders(t, Rec(t, n))}
Kept(t) == {n \in Handled(t) \ Bad(t) : job[t].kind # "filter" \/ Rec(t, n).kept}
Want(t) == IF job[t].kind = "results" THEN Kept(t) \cup Bad(t) ELSE Kept(t)

\* The records returned: by earlier calls and, while one is under way, by it.
Busy(t) == stage[t] \in {"items", "open", "insert"}
Returned(t) == given[t] \o (IF Busy(t) THEN out[t] ELSE <<>>)
Delivered(t) == [k \in DOMAIN Returned(t) |-> Returned(t)[k].record]

\* The sequence has each number of the set once, in order.
Lists(q, S) ==
    /\ {q[k] : k \in DOMAIN q} = S /\ Len(q) = Cardinality(S)
    /\ \A i, j \in DOMAIN q : i < j => q[i] < q[j]

\* Every record of a batch is returned, refused by the caller's filter, or
\* listed as corrupted, once and in the log's order, and total_processed says
\* how many there were, across failing fetches and corrupted records
\* (next_batch_with_filter, next_batch_with_results).
Accounted(t) ==
    job[t].kind \in {"query", "filter", "results"} =>
        /\ total[t] = Cardinality(Handled(t))
        /\ Lists(Delivered(t), Want(t))
        /\ job[t].kind # "results" => Lists(corrupted[t], Bad(t))

RecordsAccounted == \A t \in Threads : Accounted(t)

\* No call leaves a record handle open, whatever the renderer, the converter
\* or the filter said of the records (the EvtClose that ends the loop's body),
\* and a listing of channels that has ended has closed its enumeration.
NoHandleLeaked ==
    \A t \in Threads : stage[t] \in {"start", "idle", "ended", "failed"} =>
        \A n \in 0..Len(job[t].log) : <<t, n>> \in handles => n = 0 /\ job[t].kind # "channels"

\* The content of the element that starts at j is one text, with no reference
\* in it.
WholeText(xml, j) ==
    /\ xml[j+1].type = "Text"
    /\ j + 2 <= Len(xml) => xml[j+2].type \notin {"Text", "Ref"}

\* Data that are the XML's own named values: each is the whole text of an
\* element of its name, except that of an element without one, or with one in
\* pieces, it is the text that comes next before another Data; a name has one
\* value; and an element with a whole text has it as its value, or a later one
\* of its name has its own.
OwnData(xml, data) ==
    /\ \A d \in data : \E j \in 1..(Len(xml)-1) :
          /\ NamedData(xml, j) /\ xml[j].name = d[1]
          /\ IF WholeText(xml, j) THEN xml[j+1].text = d[2]
             ELSE \E i \in (j+1)..Len(xml) :
                     /\ xml[i].type = "Text" /\ xml[i].text = d[2]
                     /\ \A k \in (j+1)..(i-1) : ~(xml[k].type = "Start" /\ xml[k].tag = "Data")
    /\ \A d, e \in data : d[1] = e[1] => d[2] = e[2]
    /\ \A j \in 1..(Len(xml)-1) :
          NamedData(xml, j) /\ WholeText(xml, j) =>
              \/ <<xml[j].name, xml[j+1].text>> \in data
              \/ \E k \in (j+1)..Len(xml) : NamedData(xml, k) /\ xml[k].name = xml[j].name

\* The events put out by the call under way.
Events(t) ==
    {out[t][k] : k \in {i \in DOMAIN out[t] : Renders(t, Rec(t, out[t][i].record))}}

\* The data of an event are those of its own record, when they are asked for
\* and the format is Xml; in the default format an event has none
\* (render_event, extract_event_data_from_xml).
DataFaithful ==
    \A t \in Threads : job[t].kind \in {"query", "filter", "results"} =>
        \A e \in Events(t) :
            IF job[t].data /\ job[t].format = "Xml" THEN OwnData(Rec(t, e.record).xml, e.data)
            ELSE e.data = {}

\* Reading a log gives each record once, with its own data, and closes what it
\* opened, in every form of next_batch and whatever the records are.
RecordsFaithful == RecordsAccounted /\ DataFaithful /\ NoHandleLeaked

\* A query comes to an end, even one that meets records it cannot render (the
\* loop of query_internal).
QueryEnds ==
    \A t \in Threads : (stage[t] = "start" /\ job[t].kind = "query") ~> (stage[t] \in {"ended", "failed"})

\* "When enabled, events will have their `data` field populated with EventData
\* key-value pairs" (evt/mod.rs:460): an event whose record has a named value
\* has data.  In the default format, Values, it has none.
DataPopulated ==
    \A t \in Threads : job[t].data /\ job[t].kind = "filter" => \A e \in Events(t) :
        LET xml == Rec(t, e.record).xml
        IN  (\E j \in 1..(Len(xml)-1) : NamedData(xml, j) /\ WholeText(xml, j)) => e.data # {}

\* "EventData key-value pairs" (evt/mod.rs:460): a value is the whole text of an
\* element of its name.  Of a text with a reference in it only the first piece
\* is kept, and a named element without a text takes that of a Binary after it.
ValuesWhole ==
    \A t \in Threads : \A e \in Events(t) : \A d \in e.data :
        LET xml == Rec(t, e.record).xml
        IN  \E j \in 1..(Len(xml)-1) :
                NamedData(xml, j) /\ xml[j].name = d[1] /\ WholeText(xml, j) /\ xml[j+1].text = d[2]

\* "Filter by provider/source name" (evt/query.rs:52): a query for the name of
\* a record's provider selects it.  The expression built never does.
ProviderSelects ==
    \A t \in Threads : \A k \in DOMAIN job[t].log :
        LET r == Rec(t, k)
        IN  build_xpath([xpath |-> FALSE, level |-> 0, provider |-> r.provider, event_id |-> 0], r)

\* "This returns all matching events at once" (evt/mod.rs:347): a query that
\* ends without an error has seen every record its XPath selects.
QueryReturnsAll ==
    \A t \in Threads : (job[t].kind = "query" /\ stage[t] = "ended") => pos[t] = Len(job[t].log)

\* "caches publisher metadata handles with RwLock for concurrent read access"
\* (evt/mod.rs:155): a cached handle is open.  A clone of the handle closes it
\* when it is dropped, so the first message leaves a closed one behind.
CachedHandleOpen == \A p \in DOMAIN cache : cache[p] \in pubs

\* "Resize and try again" (evt/render.rs:657): formatting ends.  The required
\* size is in characters and taken for bytes, so a long message loops.
FormattingEnds ==
    \A t \in Threads : (fmt[t].handle # 0) ~> (fmt[t].handle = 0)
=============================================================================
