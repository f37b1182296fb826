------------------------------ MODULE Registry ------------------------------
(* Registry keys and typed values (registry/): values written with one type  *)
(* and read back through buffers of a fixed size, while other programs write *)
(* to the same key, and subkeys and values listed by index while others      *)
(* create and delete them.  A text is a sequence of UTF-16 units, 0 the terminator.     *)
EXTENDS Integers, Sequences, FiniteSets

CONSTANTS
    Texts,        \* texts a caller writes
    Lists,        \* lists of texts a caller writes
    Foreign,      \* values another program writes: [type, data]
    Words,        \* numbers a caller writes
    StringBuffer, \* units of the buffer for a string (1024)
    ListBuffer,   \* units of the buffer for a list, bytes for binary (4096)
    Subkeys,      \* numbers of the subkeys that may exist, in the listing's order
    Long,         \* those of them whose name, as a value's, fills 256 units
    MaxChanges,   \* bound on changes to the subkeys
    None          \* no value, and no list under way

\* Texts are sequences of units; the listing's order is that of numbers.
ASSUME RegistryAssumption ==
    /\ Texts \subseteq Seq(Nat) /\ Lists \subseteq Seq(Seq(Nat))
    /\ Words \subseteq Nat
    /\ IsFiniteSet(Subkeys) /\ Subkeys \subseteq Nat
    /\ StringBuffer \in Nat /\ ListBuffer \in Nat

VARIABLES
    handle,   \* the open RegistryKey: [hive, subkey, view, write], or None
    value,    \* the value in the key: [type, data], or None
    wrote,    \* what the caller's last set_value wrote: [kind, v], or None
    got,      \* what the last get_value returned: [kind, v], or None
    keys,     \* the subkeys, or the other values, that exist
    changes,  \* changes to them so far
    listing,  \* subkeys(): [index, names, start, created, deleted], or None
    listed    \* the last complete listing

registryVars == <<handle, value, wrote, got, keys, changes, listing, listed>>
others == <<keys, changes, listing>>

\* The caller is in no call of the key it has open.
KeyIdle == handle # None /\ listing = None

Kinds == {"String", "u32", "u64", "bool", "binary", "multi"}

---------------------------------------------------------------------------
(* RegistryKey::open and create, the builder's open.                        *)

KeyAccess == {"Read", "ReadWrite"}
Views == {32, 64}

\* The key that is made of a handle: it knows its path and not its view, which is ghost state here; 64 is the view of the process.
from_handle_with_metadata(view, access) ==
    [hive |-> "HKLM", subkey |-> "App", view |-> view, write |-> access = "ReadWrite"]

OpenWith(view, access) ==
    /\ handle = None
    /\ handle' = from_handle_with_metadata(view, access)
    /\ UNCHANGED <<value, wrote, got, others, listed>>

open == OpenWith(64, "Read")
create == OpenWith(64, "ReadWrite")
builder_open == \E view \in Views, access \in KeyAccess : OpenWith(view, access)

Drop ==
    /\ KeyIdle
    /\ handle' = None
    /\ UNCHANGED <<value, wrote, got, others>>
    /\ listed' = None

\* security_target: a path made of the hive's name and the subkey.
security_target(k) == [hive |-> k.hive, subkey |-> k.subkey]

---------------------------------------------------------------------------
(* Values.                                                                  *)

\* The texts of a list one after the other, each with its terminator.
Join(l) ==
    LET joined[n \in 0..Len(l)] == IF n = 0 THEN <<>> ELSE joined[n-1] \o l[n] \o <<0>>
    IN  joined[Len(l)]

\* write_to_key of each type.
WriteString(v) == [type |-> "SZ", data |-> v \o <<0>>]
WriteU32(v) == [type |-> "DWORD", data |-> <<v>>]
WriteU64(v) == [type |-> "QWORD", data |-> <<v>>]
WriteBool(v) == WriteU32(IF v THEN 1 ELSE 0)
WriteBinary(v) == [type |-> "BINARY", data |-> v]
WriteMulti(v) == [type |-> "MULTI", data |-> Join(v) \o <<0>>]

write_to_key(kind, v) ==
    CASE kind = "String" -> WriteString(v)
      [] kind = "u32" -> WriteU32(v)
      [] kind = "u64" -> WriteU64(v)
      [] kind = "bool" -> WriteBool(v)
      [] kind = "binary" -> WriteBinary(v)
      [] kind = "multi" -> WriteMulti(v)

\* RegQueryValueExW with a buffer of n units, then the check of the type.
Query(n, types) == value # None /\ Len(value.data) <= n /\ value.type \in types

\* A mutant: the terminator is kept.
Text_Whole(data) == data

\* The text of a string: the last unit is taken for the terminator.
Text(data) == SubSeq(data, 1, Len(data) - 1)

\* The texts of a list: units between terminators, up to a double one.
Ends(data) == {i \in 1..Len(data) : data[i] = 0}
LastEnd(data) ==
    LET double == {i \in Ends(data) : i + 1 > Len(data) \/ data[i+1] = 0}
    IN  IF double = {} THEN Len(data) ELSE CHOOSE i \in double : \A j \in double : i <= j
ReadList(data) ==
    LET stops == {i \in Ends(data) : i <= LastEnd(data)}
        start(i) == LET before == {j \in stops : j < i}
                    IN  IF before = {} THEN 1 ELSE 1 + CHOOSE j \in before : \A k \in before : k <= j
        kept == {i \in stops : i > start(i)}
    IN  [n \in 1..Cardinality(kept) |->
            LET i == CHOOSE i \in kept : Cardinality({j \in kept : j <= i}) = n
            IN  SubSeq(data, start(i), i - 1)]

\* read_from_key of each type: the values it answers with, none for one that
\* is absent, of another type, or larger than the buffer.
ReadString == IF Query(StringBuffer, {"SZ", "EXPAND"}) THEN {Text(value.data)} ELSE {}
ReadU32 == IF Query(1, {"DWORD"}) THEN {value.data[1]} ELSE {}
ReadU64 == IF Query(1, {"QWORD"}) THEN {value.data[1]} ELSE {}
ReadBool == {w # 0 : w \in ReadU32}
ReadBinary == IF Query(ListBuffer, {"BINARY"}) THEN {value.data} ELSE {}
ReadMulti == IF Query(ListBuffer, {"MULTI"}) THEN {ReadList(value.data)} ELSE {}

read_from_key(kind) ==
    LET read == CASE kind = "String" -> ReadString
                  [] kind = "u32" -> ReadU32
                  [] kind = "u64" -> ReadU64
                  [] kind = "bool" -> ReadBool
                  [] kind = "binary" -> ReadBinary
                  [] kind = "multi" -> ReadMulti
    IN  IF read = {} THEN None ELSE [kind |-> kind, v |-> CHOOSE v \in read : TRUE]

set_value(kind, v) ==
    /\ KeyIdle /\ handle.write
    /\ value' = write_to_key(kind, v)
    /\ wrote' = [kind |-> kind, v |-> v]
    /\ got' = None
    /\ UNCHANGED <<handle, others>>
    /\ listed' = None

\* get_value, and try_get_value and get_value_or, which hide the error.
get_value(kind) ==
    /\ KeyIdle
    /\ got' = read_from_key(kind)
    /\ UNCHANGED <<handle, value, wrote, others>>
    /\ listed' = None

\* value_exists: whatever the value's type and size.
value_exists ==
    /\ KeyIdle
    /\ got' = [kind |-> "exists", v |-> value # None]
    /\ UNCHANGED <<handle, value, wrote, others>>
    /\ listed' = None

delete_value ==
    /\ KeyIdle /\ handle.write /\ value # None
    /\ value' = None
    /\ wrote' = None
    /\ got' = None
    /\ UNCHANGED <<handle, others>>
    /\ listed' = None

OtherWrites(f) ==
    /\ value' = f
    /\ wrote' = None
    /\ got' = None
    /\ UNCHANGED <<handle, others, listed>>

---------------------------------------------------------------------------
(* Subkeys and value names, both listed by index.                           *)

\* RegEnumKeyExW: the subkey at an index of the ordered list.
AtIndex(i) == CHOOSE k \in keys : Cardinality({j \in keys : j < k}) = i

\* create, delete_key and delete_tree of this or another program.
Change(k) ==
    /\ changes < MaxChanges
    /\ changes' = changes + 1
    /\ keys' = IF k \in keys THEN keys \ {k} ELSE keys \cup {k}
    /\ listing' = IF listing = None THEN None
                  ELSE [listing EXCEPT !.created = @ \/ k \notin keys,
                                       !.deleted = @ \/ k \in keys]
    /\ UNCHANGED <<handle, value, wrote, got, listed>>

ListBegin(what) ==
    /\ KeyIdle
    /\ listing' = [of |-> what, index |-> 0, names |-> <<>>, start |-> keys,
                   created |-> FALSE, deleted |-> FALSE]
    /\ UNCHANGED <<handle, value, keys, changes, listed>>
    /\ wrote' = None /\ got' = None  \* history of the value, not needed here

subkeys == ListBegin("subkeys")
value_names == ListBegin("values")

NoMoreItems(i) == i >= Cardinality(keys)

ListStep ==
    /\ listing # None /\ ~NoMoreItems(listing.index)
    /\ LET name == AtIndex(listing.index)
       IN  listing' = IF listing.of = "values" /\ name \in Long THEN None
                      ELSE [listing EXCEPT !.index = @ + 1, !.names = Append(@, name)]
    /\ UNCHANGED <<handle, value, wrote, got, keys, changes, listed>>

ListEnd ==
    /\ listing # None /\ NoMoreItems(listing.index)
    /\ listed' = listing
    /\ listing' = None
    /\ UNCHANGED <<handle, value, wrote, got, keys, changes>>

RegistryInit ==
    /\ handle = None /\ value = None /\ wrote = None /\ got = None
    /\ keys \in SUBSET Subkeys
    /\ changes = 0
    /\ listing = None /\ listed = None

Inputs(kind) ==
    CASE kind = "String" -> Texts
      [] kind = "multi" -> Lists
      [] kind = "bool" -> BOOLEAN
      [] kind = "binary" -> Texts
      [] OTHER -> Words

RegistryNext ==
    \/ open \/ create \/ builder_open
    \/ Drop
    \/ \E kind \in Kinds : \/ get_value(kind)
                           \/ \E v \in Inputs(kind) : set_value(kind, v)
    \/ value_exists \/ delete_value
    \/ \E f \in Foreign : OtherWrites(f)
    \/ \E k \in Subkeys : Change(k)
    \/ subkeys \/ value_names \/ ListStep \/ ListEnd

RegistrySpec == RegistryInit /\ [][RegistryNext]_registryVars

---------------------------------------------------------------------------
(* Properties.                                                              *)

\* What a value's type can hold: a list is written with a terminator after each
\* text, so an empty text, or one with a unit of 0, ends it or is split.
Representable(kind, v) ==
    kind = "multi" => \A i \in DOMAIN v : v[i] # <<>> /\ \A j \in DOMAIN v[i] : v[i][j] # 0

\* What is read with the type it was written with is what was written,
\* whichever type wrote it; a value that is too long for the reader's buffer
\* is refused, never cut.
ReadsWhatWasWritten ==
    (/\ wrote # None /\ got # None /\ got.kind = wrote.kind
     /\ Representable(wrote.kind, wrote.v)) => got.v = wrote.v

\* A listing of subkeys or value names that others change meanwhile: nothing that existed
\* throughout is missed unless a subkey was deleted, and nothing is listed
\* twice unless one was created (the index of subkeys()).
ListingShiftsOnly ==
    listed # None =>
        /\ ~listed.deleted => listed.start \subseteq {listed.names[i] : i \in DOMAIN listed.names}
        /\ ~listed.created => \A i, j \in DOMAIN listed.names :
                                  i # j => listed.names[i] # listed.names[j]

\* Neither a reader's buffer nor another program at work turns a value or a
\* list of names into a different one.
RegistryFaithful == ReadsWhatWasWritten /\ ListingShiftsOnly

\* "Read this key's security descriptor" (registry/key.rs:140): the target is
\* the key that is open.  A key of the 32-bit view is looked up by its path,
\* in the view of the process.
OwnDescriptor == handle # None => "view" \in DOMAIN security_target(handle) \/ handle.view = 64

\* "Try to get a value, returning None if it doesn't exist" (key.rs:267): a
\* value that exists with the type asked for is returned.  One that does not
\* fit the buffer is not.
Tag(kind) == [String |-> "SZ", u32 |-> "DWORD", u64 |-> "QWORD", bool |-> "DWORD",
              binary |-> "BINARY", multi |-> "MULTI"][kind]
NoneMeansAbsent ==
    [][\A kind \in Kinds :
          (get_value(kind) /\ got' = None) => (value = None \/ value.type # Tag(kind))]_registryVars
=============================================================================
