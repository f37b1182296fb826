------------------------------ MODULE EtwDecode ------------------------------
(* Decoding of event records: the schema and map caches and the property     *)
(* walk of etw/schema.rs, the classic decoders of etw/decode/, and the       *)
(* provider of etw/provider.rs that writes what the walk reads back.         *)
(*                                                                           *)
(* A payload is the sequence of fields its writer put one after the other,   *)
(* each with its size in bytes, its number and its text (the set of the      *)
(* labels or the one string it is made of, {} when it is not a text; texts   *)
(* that differ in case only are one), cut after len bytes.                   *)
(* The decoder only knows an offset; what it reads is the writer's field     *)
(* when its offset and its size are the writer's, and Garbage otherwise.     *)
(* A record carries the event it is one of, which TDH knows it by, besides   *)
(* the five members of its header the cache looks it up by.                  *)
EXTENDS Integers, Sequences, FiniteSets

CONSTANTS
    Manifest,   \* what TDH knows: event -> sequence of described properties
    MapsOf,     \* what TDH knows: <<provider, map name>> -> value map
    Records,    \* the records other providers and the kernel deliver
    Written,    \* the events the application writes: [key, event, data]
    Process, ImageLoad, Registry, TcpIp,  \* providers with a decoder
    Sounds(_),  \* what a field's name sounds like: source, destination, other
    None,       \* the None of an Option
    Garbage,    \* a value read at another place than it was written
    Stray,      \* what a reader makes of bytes where no field of its starts
    MaxEvents   \* bound on the number of records

\* A field as it was written: also whether its bytes are UTF-8 text, and the
\* family of a socket address.  Nothing that was written is garbage.
Field == [size : Nat, num : Int, text : SUBSET STRING, bits : SUBSET Nat,
          utf8 : BOOLEAN, family : Nat]
ASSUME GarbageAssumption == Garbage \notin Field
ASSUME StrayAssumption == Stray \in Field /\ Stray.size > 0

\* The labels of a map are strings.
ASSUME LabelsAssumption == \A k \in DOMAIN MapsOf : \A e \in MapsOf[k].entries : e.label \in STRING

VARIABLES
    schemaCache, \* SchemaCache.cache: schema key -> properties
    mapCache,    \* SchemaCache.map_cache: map name -> value map
    provider,    \* the EventProvider: "none", "registered", "dropped"
    pending,     \* the record ProcessTrace delivers next, or None
    events,      \* records handed to the callback so far
    last         \* the last record, what TDH answered for it, its decoding

decodeVars == <<schemaCache, mapCache, provider, pending, events, last>>

NoRecord == [key |-> None, event |-> None, wrote |-> <<>>, len |-> 0, pointer |-> 8]

---------------------------------------------------------------------------
(* Payloads.                                                                *)

\* Where the writer's i-th field starts, and the bytes of the whole payload.
Start(wrote, i) ==
    LET sum[n \in 0..Len(wrote)] == IF n = 0 THEN 0 ELSE sum[n-1] + wrote[n].size
    IN  sum[i-1]

Total(wrote) == Start(wrote, Len(wrote) + 1)

\* What a read of size bytes at offset returns when property i is expected.
Read(wrote, i, offset, size) ==
    IF i <= Len(wrote) /\ offset = Start(wrote, i) /\ size = wrote[i].size
    THEN wrote[i] ELSE Garbage

\* The bytes the reader of property i stands on: the field, if it is not empty.
At(wrote, i, offset) ==
    IF i <= Len(wrote) /\ offset = Start(wrote, i) /\ wrote[i].size > 0 THEN wrote[i] ELSE Stray

---------------------------------------------------------------------------
(* etw/provider.rs: encode one field; strings are NUL-terminated UTF-16.    *)

Encode(d) ==
    [size |-> CASE d.type = "U32" -> 4 [] d.type = "F32" -> 4
                [] d.type = "U64" -> 8 [] d.type = "Str" -> 2 * (d.chars + 1),
     num |-> IF d.type \in {"U32", "U64"} THEN d.num ELSE -1, text |-> d.text, bits |-> {},
     utf8 |-> TRUE, family |-> 0]

---------------------------------------------------------------------------
(* One property: the number of bytes a reader of it takes, 0 for None.      *)

\* Out-types of texts: with a length they are read as UTF-8.
TextOuts == {"UTF8", "STRING", "JSON", "XML"}

\* The size of an out-type that decides it by itself: a socket address goes by
\* its family, a text must be UTF-8.  Out-types read alike go by one name.
OutSize(p, length, left, f) ==
    CASE p.out = "HEXINT8" -> 1 [] p.out \in {"HEXINT16", "PORT"} -> 2
      [] p.out \in {"HEXINT32", "HRESULT", "PID", "IPV4"} -> 4
      [] p.out = "HEXINT64" -> 8 [] p.out = "IPV6" -> 16
      [] p.out = "SOCKETADDRESS" -> IF f.family = 2 THEN 8 ELSE IF f.family = 23 THEN 24 ELSE 0
      [] p.out = "BOOLEAN" -> IF length >= 4 /\ length <= left THEN 4 ELSE 1
      [] p.out \in TextOuts -> IF f.utf8 THEN length ELSE 0
      [] OTHER -> 0

parse_out_type_override(p, length, left, f) ==
    LET size == OutSize(p, length, left, f) IN IF size <= left THEN size ELSE 0

\* The sizes of the in-types; the first six become a blob when the declared
\* length is larger than the scalar.
ScalarSize(in) ==
    CASE in = "UINT8" -> 1 [] in = "UINT16" -> 2 [] in \in {"UINT32", "INT32"} -> 4
      [] in \in {"UINT64", "INT64"} -> 8 [] in \in {"BOOLEAN", "HEXINT32"} -> 4
      [] in = "GUID" -> 16 [] in \in {"FILETIME", "HEXINT64"} -> 8 [] OTHER -> 0

MayBeBlob == {"UINT8", "UINT16", "UINT32", "UINT64", "INT32", "INT64"}

\* A mutant: the SID read as the four bytes of an IPv4 address.
parse_sid_AsIpv4(left, marked) == IF left >= 4 THEN 4 ELSE 0

\* A SID is refused when the payload ends before the count of sub-authorities
\* it declares.
parse_sid(left, marked) == IF marked <= left THEN marked ELSE 0

\* A string is as long as its terminator says, and ends with the payload when
\* that is cut; UTF-16 takes whole units and needs two bytes, and an ANSI string
\* that is not UTF-8 is refused.
parse_cstr(in, left, f) ==
    IF in = "ANSISTRING" THEN (IF ~f.utf8 THEN 0 ELSE IF f.size <= left THEN f.size ELSE left)
    ELSE IF f.size <= left /\ f.size % 2 = 0 THEN f.size
    ELSE IF left < 2 THEN 0 ELSE left - (left % 2)

\* A value of the in-type; of some in-types a longer one is a blob.
parse_in_type(p, length, left, f) ==
    LET blob == p.in \in MayBeBlob /\ length > ScalarSize(p.in) /\ length <= left
        fits(n) == IF n <= left THEN n ELSE 0
    IN  CASE blob -> length
          [] ~blob /\ ScalarSize(p.in) > 0 -> fits(ScalarSize(p.in))
          [] p.in = "POINTER" -> fits(IF length = 4 THEN 4 ELSE 8)
          [] p.in = "SID" -> parse_sid(left, f.size)
          [] p.in = "UNICODESTRING" ->
                IF length >= 2 /\ length <= left
                THEN (IF length % 2 = 0 THEN length ELSE 0)
                ELSE parse_cstr(p.in, left, f)
          [] p.in = "ANSISTRING" ->
                IF length > 0 /\ length <= left
                THEN (IF f.utf8 THEN length ELSE 0)
                ELSE parse_cstr(p.in, left, f)
          [] OTHER -> IF length > 0 /\ length < left THEN length ELSE left

parse_one_value(p, length, left, f) ==
    LET out == parse_out_type_override(p, length, left, f)
    IN  IF out > 0 THEN out ELSE parse_in_type(p, length, left, f)

\* UTF-16 with a text out-type and a length is read as UTF-8, up to its first
\* zero byte: of the right size, and not what was written.
Garbled(p, length, left, f) ==
    p.in = "UNICODESTRING" /\ p.out \in TextOuts /\ parse_out_type_override(p, length, left, f) > 0

element_size_hint(p) ==
    IF p.out = "IPV4" THEN 4 ELSE IF p.out = "IPV6" THEN 16
    ELSE IF p.in = "POINTER" THEN 8 ELSE ScalarSize(p.in)

\* parse_counted_value: a declared length is taken for the whole array when
\* it is at least the count.
parse_counted_value(p, length, count, left) ==
    LET declared == IF length >= count THEN length ELSE length * count
        element == element_size_hint(p)
    IN  IF length > 0 /\ declared <= left THEN declared
        ELSE IF element > 0 /\ element * count <= left THEN element * count ELSE 0

\* resolve_count and resolve_length: the value of an earlier property when
\* the schema names one that was parsed as a number and fits a u16.
U16 == 0..(2^16 - 1)

resolve_count(p, nums) ==
    IF p.countIdx = 0 THEN p.count
    ELSE IF p.countIdx \in DOMAIN nums /\ nums[p.countIdx] \in U16 \ {0} THEN nums[p.countIdx] ELSE 1

resolve_length(p, nums) ==
    IF p.lenIdx \in DOMAIN nums /\ nums[p.lenIdx] \in U16 THEN nums[p.lenIdx] ELSE p.length

\* extract_numeric_value: the number of a value that is one, -1 otherwise.  The
\* out-type decides if it was the one that read the value.
Numeric == MayBeBlob \cup {"POINTER", "BOOLEAN", "FILETIME"}

extract_numeric_value(p, length, count, value) ==
    IF /\ value # Garbage
       /\ count <= 1
       /\ IF OutSize(p, length, value.size, value) \in 1..value.size
          THEN p.out \in {"PORT", "PID", "BOOLEAN"}
          ELSE p.in \in Numeric /\ ~(p.in \in MayBeBlob /\ length > ScalarSize(p.in))
    THEN value.num ELSE -1

\* One round of parse_values: the walk ends with the payload or at the first
\* property that cannot be read.
parse_next(props, wrote, len, acc, i) ==
    LET p == props[i]
        left == len - acc.offset
        count == resolve_count(p, acc.nums)
        length == resolve_length(p, acc.nums)
        f == At(wrote, i, acc.offset)
        taken == IF count > 1 THEN parse_counted_value(p, length, count, left)
                 ELSE parse_one_value(p, length, left, f)
        value == IF count <= 1 /\ Garbled(p, length, left, f) THEN Garbage
                 ELSE Read(wrote, i, acc.offset, taken)
        num == extract_numeric_value(p, length, count, value)
    IN  IF acc.done \/ left <= 0 \/ taken = 0
        THEN [acc EXCEPT !.done = TRUE]
        ELSE [offset |-> acc.offset + taken, done |-> FALSE,
              nums |-> Append(acc.nums, num),
              fields |-> Append(acc.fields, [at |-> acc.offset, name |-> p.name, num |-> num,
                                             value |-> value])]

\* parse_values: the walk over the properties.
parse_values(props, wrote, len) ==
    LET walk[n \in 0..Len(props)] ==
            IF n = 0 THEN [offset |-> 0, done |-> FALSE, nums |-> <<>>, fields |-> <<>>]
            ELSE parse_next(props, wrote, len, walk[n-1], n)
    IN  walk[Len(props)].fields

---------------------------------------------------------------------------
(* Value maps.                                                              *)

\* The keys of a map are all numbers or all texts.  Numbers stand for the bits
\* of a bitmap: a set of them is a mask.
render_numeric(map, value) ==
    LET entries == {e \in map.entries : map.keys = "number"}
        exact == {e \in entries : e.key = value}
        bits == {e \in entries : e.key # {} /\ e.key \subseteq value}
    IN  IF map.kind = "Bitmap" /\ bits # {} THEN {e.label : e \in bits}
        ELSE {e.label : e \in exact}

render_text(map, text) ==
    LET entries == {e \in map.entries : map.keys = "text"}
    IN  {e.label : e \in {x \in entries : x.key \in text}}

\* What a map says of a value: by its number if it is one and the map has it,
\* else by its text.
Label(map, num, value) ==
    LET numeric == IF num >= 0 THEN render_numeric(map, value.bits) ELSE {}
    IN  IF numeric # {} THEN numeric ELSE render_text(map, value.text)

\* get_or_load_map: the cached map of the name, else what TDH has for the
\* record's provider, which is remembered; None when TDH has none.
get_or_load_map(maps, key, name) ==
    CASE name \in DOMAIN maps -> maps[name]
      [] name \notin DOMAIN maps /\ <<key.provider, name>> \in DOMAIN MapsOf
            -> MapsOf[<<key.provider, name>>]
      [] OTHER -> None

\* apply_map_values: a field with a map and a label for its value becomes the
\* label; every map that was loaded is cached.
apply_map_values(maps, key, props, fields) ==
    LET map(i) == get_or_load_map(maps, key, props[i].map)
        mapped == {i \in DOMAIN fields : props[i].map # "" /\ map(i) # None}
        label(i) == IF fields[i].value = Garbage THEN {}
                    ELSE Label(map(i), fields[i].num, fields[i].value)
        names == {props[i].map : i \in mapped}
    IN  [fields |-> [i \in DOMAIN fields |->
                        IF i \in mapped /\ label(i) # {}
                        THEN [fields[i] EXCEPT !.value.text = label(i)] ELSE fields[i]],
         maps |-> [n \in DOMAIN maps \cup names |-> get_or_load_map(maps, key, n)]]

---------------------------------------------------------------------------
(* The classic decoders: the layout is fixed per version.  The outcome is   *)
(* "none", "event", or "panic" when a slice starts behind the payload.      *)

Fixed(version, p) ==
    CASE version = 0 -> 12 + 2 * p [] version \in {1, 2} -> 20 + 3 * p
      [] OTHER -> 20 + 4 * p
required_size(version, p) == IF version = 0 THEN 10 + 2 * p ELSE 44 + 4 * p

\* The variable part is a SID, an ASCII name and a UTF-16 command line, the
\* last three fields the kernel wrote.  A SID that is cut is read as far as
\* it goes; a name that is cut counts a terminator it does not have.
decode_process_parts(version, opcode, p, wrote, len) ==
    LET n == Len(wrote)
        sid == IF version = 0 THEN n - 1 ELSE n - 2
        left == len - Fixed(version, p)
        sidSize == IF wrote[sid].size <= left THEN wrote[sid].size
                   ELSE left - (left % 4)
        afterSid == left - sidSize
        nameSize == IF wrote[sid+1].size <= afterSid THEN wrote[sid+1].size
                    ELSE afterSid + 1
    IN  IF opcode \notin {1, 2} \/ version > 4 \/ len < required_size(version, p) \/ left < 8
        THEN "none"
        ELSE IF version # 0 /\ nameSize > afterSid THEN "panic" ELSE "event"

decode_image_parts(version, opcode, p, wrote, len) ==
    IF version \in 2..4 /\ len >= 48 + 4 * p /\ opcode \in {2, 10} THEN "event" ELSE "none"

\* field_by_name: the first alias some field has, case-folded, decides.
field_by_name(fields, names) ==
    LET has(n) == {i \in DOMAIN fields : fields[i].name = n}
        first == {j \in DOMAIN names : has(names[j]) # {}
                      /\ \A k \in 1..j-1 : has(names[k]) = {}}
    IN  IF first = {} THEN Garbage
        ELSE LET j == CHOOSE j \in first : TRUE
                 i == CHOOSE i \in has(names[j]) : \A k \in has(names[j]) : i <= k
             IN  fields[i].value

\* field_string: {} when there is no field or it is not a text.
field_string(fields, names) ==
    LET v == field_by_name(fields, names) IN IF v = Garbage THEN {} ELSE v.text

\* parse_ip_value: four or sixteen bytes are an address, and a number of
\* eight; addresses written as text are left out.
parse_ip_value(v) ==
    v # Garbage /\ v.text = {} /\ (v.size \in {4, 16} \/ (v.size = 8 /\ v.num >= 0))

\* field_ip_by_pattern: the first field whose name sounds like the side.
field_ip_by_pattern(fields, side) ==
    LET like == {i \in DOMAIN fields : Sounds(fields[i].name) = side
                                         /\ parse_ip_value(fields[i].value)}
    IN  IF like = {} THEN Garbage
        ELSE fields[CHOOSE i \in like : \A k \in like : i <= k].value

\* The aliases of an address, in the order they are looked for; a name that
\* is one sounds like it.
SourceNames == <<"saddr", "saddrv4", "saddrv6", "SourceIp", "SourceAddress", "LocalAddress",
                 "srcaddr", "srcip">>
DestinationNames == <<"daddr", "daddrv4", "daddrv6", "DestinationIp", "DestinationAddress",
                      "RemoteAddress", "dstaddr", "dstip">>

ASSUME SoundsAssumption ==
    /\ \A i \in DOMAIN SourceNames : Sounds(SourceNames[i]) = "source"
    /\ \A i \in DOMAIN DestinationNames : Sounds(DestinationNames[i]) = "destination"

field_ip(fields, names, side) ==
    LET v == field_by_name(fields, names)
    IN  IF parse_ip_value(v) THEN v ELSE field_ip_by_pattern(fields, side)

map_tcp(fields) ==
    [kind |-> "tcp", source |-> field_ip(fields, SourceNames, "source"),
     destination |-> field_ip(fields, DestinationNames, "destination")]

\* map_registry: a classic value event has no field for the name of the value,
\* it is in KeyName.  A name that is empty is a name.
KeyNames == <<"KeyName", "registry_key_name">>
ValueNames == <<"ValueName", "registry_value_name">>
NamesAValue == {14, 15, 16, 19}

map_registry(opcode, fields) ==
    LET name == field_string(fields, KeyNames)
        value == field_string(fields, ValueNames)
        swap == opcode \in NamesAValue /\ value = {}
    IN  [kind |-> "registry", key |-> IF swap THEN {} ELSE name,
         value |-> IF swap THEN name ELSE value]

decode_from_generic(key, fields) ==
    CASE key.provider = TcpIp -> map_tcp(fields)
      [] key.provider = Registry -> map_registry(key.opcode, fields)
      [] OTHER -> [kind |-> "generic"]

\* decode_from_record_parts: the classic decoder of the provider, then the
\* typed form of the parsed fields, then the fields, then Unknown.
decode_from_record_parts(r, fields) ==
    LET k == r.key
        classic == CASE k.provider = Process ->
                        decode_process_parts(k.version, k.opcode, r.pointer, r.wrote, r.len)
                     [] k.provider = ImageLoad ->
                        decode_image_parts(k.version, k.opcode, r.pointer, r.wrote, r.len)
                     [] OTHER -> "none"
    IN  CASE classic # "none" -> [kind |-> classic]
          [] classic = "none" /\ fields = None -> [kind |-> "unknown"]
          [] OTHER -> decode_from_generic(k, fields)

---------------------------------------------------------------------------
(* The caches and the callback.                                             *)

\* A mutant: the version is not part of the key.
SchemaKey_NoVersion(h) == [provider |-> h.provider, id |-> h.id, opcode |-> h.opcode, level |-> h.level]

\* SchemaKey::from_record: provider, id, opcode, version and level of the header.
SchemaKey(h) ==
    [provider |-> h.provider, id |-> h.id, opcode |-> h.opcode, version |-> h.version, level |-> h.level]

\* build_schema: TDH's flags say whether count and length are numbers or the
\* (zero-based) index of the property that has them.
build_schema(described) ==
    [i \in DOMAIN described |->
        LET d == described[i]
            has(f) == f \in d.flags
        IN  [name |-> d.name, in |-> d.in, out |-> d.out, length |-> d.length,
             count |-> IF has("ParamCount") /\ has("FixedCount") /\ d.count > 1
                       THEN d.count ELSE 1,
             countIdx |-> IF has("ParamCount") /\ ~has("FixedCount") THEN d.count + 1 ELSE 0,
             lenIdx |-> IF has("ParamLength") /\ ~has("FixedLength") THEN d.length + 1 ELSE 0,
             map |-> IF has("Struct") THEN "" ELSE d.map]]

\* TDH answers for the record, twice, for the size and for the data, and may
\* refuse either.
Answers(r) == IF r.event \in DOMAIN Manifest THEN {TRUE, FALSE} ELSE {FALSE}

\* The schemas cached once the record's schema has been looked for.
Remember(r, answered) ==
    LET key == SchemaKey(r.key)
    IN  IF key \in DOMAIN schemaCache \/ ~answered THEN schemaCache
        ELSE [k \in DOMAIN schemaCache \cup {key} |->
                IF k = key THEN build_schema(Manifest[r.event]) ELSE schemaCache[k]]

\* trace_callback_fn for one record: parse_event_fields under the cache's
\* lock, then the decoding for the decoded stream.
Callback ==
    /\ pending # None
    /\ last.decoded.kind # "panic"
    /\ LET r == pending
       IN  \E answered \in Answers(r) :
             LET schemas == Remember(r, answered)
                 known == SchemaKey(r.key) \in DOMAIN schemas
                 props == schemas[SchemaKey(r.key)]
                 parsed == IF known
                           THEN apply_map_values(mapCache, r.key, props,
                                                 parse_values(props, r.wrote, r.len))
                           ELSE [fields |-> None, maps |-> mapCache]
             IN  /\ schemaCache' = schemas
                 /\ mapCache' = parsed.maps
                 /\ last' = [record |-> r, answered |-> answered, fields |-> parsed.fields,
                             decoded |-> decode_from_record_parts(r, parsed.fields)]
    /\ pending' = None
    /\ UNCHANGED <<provider, events>>

\* EventProvider::register, write and drop.  An event nobody listens to is
\* accepted and goes nowhere.
Register ==
    /\ provider = "none"
    /\ provider' = "registered"
    /\ UNCHANGED <<schemaCache, mapCache, pending, events, last>>

Write(e) ==
    /\ provider = "registered"
    /\ events < MaxEvents
    /\ events' = events + 1
    /\ pending = None
    /\ \/ LET wrote == [i \in DOMAIN e.data |-> Encode(e.data[i])]
          IN  pending' = [key |-> e.key, event |-> e.event, wrote |-> wrote, len |-> Total(wrote),
                          pointer |-> 8]
       \/ UNCHANGED pending
    /\ UNCHANGED <<schemaCache, mapCache, provider, last>>

DropProvider ==
    /\ provider = "registered"
    /\ provider' = "dropped"
    /\ UNCHANGED <<schemaCache, mapCache, pending, events, last>>

\* A record of another provider or of the kernel reaches the session.
Deliver(r) ==
    /\ events < MaxEvents
    /\ events' = events + 1
    /\ pending = None
    /\ pending' = r
    /\ UNCHANGED <<schemaCache, mapCache, provider, last>>

DecodeInit ==
    /\ schemaCache = [k \in {} |-> <<>>]
    /\ mapCache = [n \in {} |-> None]
    /\ provider = "none"
    /\ pending = None
    /\ events = 0
    /\ last = [record |-> NoRecord, answered |-> FALSE, fields |-> None,
               decoded |-> [kind |-> "nothing"]]

DecodeNext ==
    \/ Callback
    \/ Register
    \/ \E e \in Written : Write(e)
    \/ DropProvider
    \/ \E r \in Records : Deliver(r)

DecodeSpec == DecodeInit /\ [][DecodeNext]_decodeVars

---------------------------------------------------------------------------
(* Properties.                                                              *)

\* The headers records come with, each with the event it is of.
Described == {<<r.key, r.event>> : r \in Records} \cup {<<e.key, e.event>> : e \in Written}

\* Headers of one provider, id, opcode, version and level.
SameKey(h, g) ==
    /\ h.provider = g.provider /\ h.id = g.id /\ h.opcode = g.opcode
    /\ h.version = g.version /\ h.level = g.level

\* Only one event comes with the header.  It is so for the events of a manifest;
\* self-describing events share id 0 and version 0.
Determined(r) == \A d \in Described : SameKey(d[1], r.key) => d[2] = r.event

\* What TDH has for the last record, and the schema that is made of it.
Told == Manifest[last.record.event]
Own == build_schema(Told)

(* What a writer does with a description, by TDH's rules: an array has count  *)
(* elements; an element has the declared length, in bytes, or without one the *)
(* size of its in-type, and a pointer that of the writing process.            *)

Refers(d, param, fixed) == param \in d.flags /\ fixed \notin d.flags

CountOf(e, w, i) ==
    IF Refers(e[i], "ParamCount", "FixedCount") THEN w[e[i].count + 1].num
    ELSE IF e[i].count > 1 THEN e[i].count ELSE 1

LengthOf(e, w, i) ==
    IF Refers(e[i], "ParamLength", "FixedLength") THEN w[e[i].length + 1].num ELSE e[i].length

TdhSize(in) ==
    CASE in \in {"UINT8", "INT8"} -> 1 [] in \in {"UINT16", "INT16"} -> 2
      [] in \in {"UINT32", "INT32", "BOOLEAN", "HEXINT32", "FLOAT"} -> 4
      [] in \in {"UINT64", "INT64", "FILETIME", "HEXINT64", "DOUBLE"} -> 8
      [] in \in {"GUID", "SYSTEMTIME"} -> 16 [] OTHER -> 0

Laid(e, w, i, pointer) ==
    LET d == e[i]
        count == CountOf(e, w, i)
        length == LengthOf(e, w, i)
        each == IF d.in = "POINTER" THEN pointer ELSE IF length > 0 THEN length ELSE TdhSize(d.in)
        empty == count = 0 \/ (Refers(d, "ParamLength", "FixedLength") /\ length = 0)
    IN  /\ d.count \in Nat /\ d.length \in Nat /\ count \in Nat /\ length \in Nat
        /\ Refers(d, "ParamCount", "FixedCount") => d.count + 1 < i
        /\ Refers(d, "ParamLength", "FixedLength") => d.length + 1 < i
        /\ IF empty THEN w[i].size = 0
           ELSE IF each > 0 THEN w[i].size = count * each
           ELSE w[i].size > 0 /\ (d.in = "UNICODESTRING" => w[i].size % 2 = 0)

\* Whether a payload was written by a description, field by field.
Conforms(e, w, pointer) ==
    /\ w \in Seq(Field) /\ Len(build_schema(e)) = Len(w) /\ DOMAIN e = DOMAIN w
    /\ pointer \in {4, 8}
    /\ \A i \in DOMAIN w : Laid(e, w, i, pointer)

(* What the walk does not read as TDH's rules lay it out.                     *)

\* The numbers it has when it comes to the i-th field.
NumberOf(e, w, j) ==
    extract_numeric_value(build_schema(e)[j], LengthOf(e, w, j), CountOf(e, w, j), w[j])
NumbersTo(e, w, n) == [j \in 1..n |-> NumberOf(e, w, j)]

\* One value: an out-type of another size than the field; UTF-16 read as UTF-8;
\* an ANSI string that is not UTF-8; UTF-16 of an odd length; a pointer whose
\* size is not the declared one; a declared length that a scalar ignores; no
\* length where there is no scalar (the reader takes all that is left).
OneMisread(p, length, f) ==
    LET out == OutSize(p, length, f.size, f)
        blob == p.in \in MayBeBlob /\ length > ScalarSize(p.in)
    IN  \/ out \notin {0, f.size}
        \/ p.in = "UNICODESTRING" /\ p.out \in TextOuts /\ length > 0
        \/ /\ out = 0
           /\ \/ p.in = "ANSISTRING" /\ ~f.utf8
              \/ p.in = "UNICODESTRING" /\ length % 2 # 0
              \/ p.in = "POINTER" /\ f.size # (IF length = 4 THEN 4 ELSE 8)
              \/ ScalarSize(p.in) > 0 /\ ~blob /\ f.size # ScalarSize(p.in)
              \/ /\ ScalarSize(p.in) = 0 /\ length = 0
                 /\ p.in \notin {"POINTER", "SID", "UNICODESTRING", "ANSISTRING"}

\* A field: an empty one (its reader takes what comes next); a count or length
\* that is not the one the walk resolves; an array whose element length is not
\* below its count (it is taken for the length of the whole), or with elements
\* of no known size.
Misread(e, w, i) ==
    LET p == build_schema(e)[i]
        count == CountOf(e, w, i)
        length == LengthOf(e, w, i)
        element == IF length = 0 THEN element_size_hint(p) ELSE IF length < count THEN length ELSE 0
    IN  \/ w[i].size = 0
        \/ resolve_count(p, NumbersTo(e, w, i - 1)) # count
        \/ resolve_length(p, NumbersTo(e, w, i - 1)) # length
        \/ IF count > 1 THEN element * count # w[i].size ELSE OneMisread(p, length, w[i])

\* No field up to the i-th is one of these: one that is shifts those behind it.
Clean(e, w, i) == \A j \in 1..i : ~Misread(e, w, j)

AsWritten ==
    /\ last.fields # None
    /\ last.record.event \in DOMAIN Manifest /\ Determined(last.record)
    /\ last.record.len \in Nat
    /\ Conforms(Told, last.record.wrote, last.record.pointer)

\* Whatever was decoded before and wherever the payload is cut, a field that
\* arrived whole is read where its writer put it, under its own name, unless it
\* or one before it is laid out in one of the ways above: sizes and counts
\* taken from earlier fields, SIDs and strings never shift a later one.  All
\* that a map may change is the text, and a field that was cut gives no value
\* of the writer (parse_values, comment at etw/schema.rs:592).
FieldsFaithful(own) ==
    LET w == last.record.wrote
        whole(i) == Start(w, i + 1) <= last.record.len
    IN  /\ \A i \in DOMAIN w : whole(i) /\ Clean(Told, w, i) =>
              /\ i \in DOMAIN last.fields
              /\ last.fields[i].at = Start(w, i) /\ last.fields[i].value # Garbage
              /\ [last.fields[i].value EXCEPT !.text = w[i].text] = w[i]
              /\ own[i].map = "" => last.fields[i].value = w[i]
        /\ \A i \in DOMAIN last.fields :
              /\ i \in DOMAIN w /\ last.fields[i].name = own[i].name
              /\ last.fields[i].value # Garbage => whole(i)

\* The address of a side: of a field that sounds like it and holds one, and
\* none only if there is no such field.
AddressFaithful(own, address, side) ==
    LET w == last.record.wrote
        like == {i \in DOMAIN w : Sounds(own[i].name) = side /\ parse_ip_value(last.fields[i].value)}
    IN  IF like = {} THEN address = Garbage ELSE \E i \in like : address = last.fields[i].value

\* The names of a key and of a value: each from its field, but where no field
\* has the value's the one for the key has it.
NamesFaithful(own, key, value) ==
    LET named(names) == {i \in DOMAIN own : \E j \in DOMAIN names : own[i].name = names[j]}
        text(i) == last.fields[i].value.text
        once(S) == \A i, j \in S : i = j
        classic == /\ last.record.key.opcode \in NamesAValue
                   /\ \A i \in named(ValueNames) : text(i) = {}
    IN  once(named(KeyNames)) /\ once(named(ValueNames)) =>
            /\ \A i \in named(KeyNames) :
                  IF classic THEN key = {} /\ value = text(i) ELSE key = text(i)
            /\ ~classic => \A i \in named(ValueNames) : value = text(i)

\* A typed event says what its writer said: an address is reported for the
\* side it was written for, by alias or by pattern, and the name of a value
\* never for the name of its key (map_tcp, map_registry).
TypedFaithful(own) ==
    /\ last.decoded.kind = "tcp" =>
          /\ AddressFaithful(own, last.decoded.source, "source")
          /\ AddressFaithful(own, last.decoded.destination, "destination")
    /\ last.decoded.kind = "registry" => NamesFaithful(own, last.decoded.key, last.decoded.value)

\* What a record is decoded to is what its writer wrote: field by field, as
\* far as it arrived, and in the typed event if it arrived whole.
DecodedFaithfully ==
    AsWritten =>
        LET own == Own
            w == last.record.wrote
        IN  /\ FieldsFaithful(own)
            /\ last.record.len = Total(w) /\ Clean(Told, w, Len(w)) => TypedFaithful(own)

\* What the map cache may hold: under a name, a map some provider has by it.
KnownMaps ==
    {m \in UNION {[N -> {MapsOf[k] : k \in DOMAIN MapsOf}] : N \in SUBSET {k[2] : k \in DOMAIN MapsOf}} :
        \A n \in DOMAIN m : \E k \in DOMAIN MapsOf : k[2] = n /\ m[n] = MapsOf[k]}

\* What a decoder without a cache reads of the last record, taken for the event.
ReadAs(event) ==
    \E maps \in KnownMaps :
        last.fields = apply_map_values(maps, last.record.key, build_schema(Manifest[event]),
                          parse_values(build_schema(Manifest[event]), last.record.wrote,
                                       last.record.len)).fields

\* A record TDH answers for, and any that has fields, is read with the schema
\* of an event of its own key, its own event if no other has that key, as if
\* there were no cache, whatever was decoded before it; a failure of TDH is not
\* remembered (SchemaKey::from_record, parse_event_fields, and the early return
\* of build_schema that leaves the entry vacant).
CacheSound ==
    last.answered \/ last.fields # None =>
        /\ \E d \in Described : SameKey(d[1], last.record.key) /\ d[2] \in DOMAIN Manifest /\ ReadAs(d[2])
        /\ Determined(last.record) => last.record.event \in DOMAIN Manifest /\ ReadAs(last.record.event)

\* "Per-session cache of TDH schema metadata used to parse event payloads"
\* (etw/schema.rs:86): a record is parsed with what TDH has for it.  TDH answers
\* for the record, and two self-describing events may have one key.
SchemaIsOwn == last.answered => ReadAs(last.record.event)

\* "expected Tail to remain aligned" (test at etw/schema.rs:1230): no field that
\* arrived whole is missed or shifted, however it is laid out.
NothingMisread ==
    AsWritten =>
        LET w == last.record.wrote
        IN  \A i \in DOMAIN w : Start(w, i + 1) <= last.record.len /\ w[i].size > 0 =>
                i \in DOMAIN last.fields /\ last.fields[i].value # Garbage

\* "returns None when ... the payload is truncated" (decode/process.rs:33): a
\* cut process event is not decoded, and certainly does not panic.
TruncatedIsNone ==
    (last.record.key # None /\ last.record.key.provider = Process
        /\ last.record.len < Total(last.record.wrote))
        => last.decoded.kind \notin {"event", "panic"}

\* A label comes from a map of the record's own provider.  The map cache is
\* keyed by the name alone, so a second provider gets the first one's labels.
MapIsOwn ==
    last.fields # None /\ Determined(last.record) =>
        \A i \in DOMAIN last.fields :
            (Own[i].map # "" /\ <<last.record.key.provider, Own[i].map>> \in DOMAIN MapsOf
                /\ last.fields[i].value # Garbage /\ last.fields[i].at = Start(last.record.wrote, i))
            => LET m == MapsOf[<<last.record.key.provider, Own[i].map>>]
                   l == Label(m, last.fields[i].num, last.record.wrote[i])
               IN  l # {} => last.fields[i].value.text = l
=============================================================================
