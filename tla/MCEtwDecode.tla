---------------------------- MODULE MCEtwDecode ----------------------------
(* A small instance of EtwDecode: two providers with events of two versions, *)
(* schemas with sizes and counts taken from other fields, a SID before a     *)
(* string, value maps of one name, classic process, image and registry       *)
(* records, two self-describing events under one key, and payloads the walk  *)
(* loses its way in; payloads are whole and cut within and between fields.   *)
EXTENDS EtwDecode, TLC

Key(p, id, opcode, version) ==
    [provider |-> p, id |-> id, opcode |-> opcode, version |-> version, level |-> 4]

F(size, num) ==
    [size |-> size, num |-> num, text |-> {}, bits |-> {}, utf8 |-> TRUE, family |-> 0]
T(size, text) == [F(size, -1) EXCEPT !.text = {text}]
B(size, bits) == [F(size, 3) EXCEPT !.bits = bits]

MCStray == F(1, 0)

\* An event is named by its key, but for the self-describing ones, whose key
\* is that of Log with id 0.
D(name, in, length) ==
    [name |-> name, in |-> in, out |-> "NONE", length |-> length, count |-> 0,
     flags |-> {}, map |-> ""]

\* Agent: version 1 has a SID before a string, version 2 a mapped state in
\* front of them; event 2 an array counted by its first field, a sized string
\* and out-types; event 3 a socket address, event 4 an ANSI string that may not
\* be UTF-8, event 5 an array of elements with a declared length, event 6 a text
\* the walk takes for UTF-8 and a flag with labels by text; event 9 is what the
\* application writes; Log's two events describe themselves.
MCManifest ==
    (Key("Agent", 1, 0, 1) :> <<D("Elevated", "UINT32", 4), D("Label", "SID", 0),
                                D("Image", "UNICODESTRING", 0)>>) @@
    (Key("Agent", 1, 0, 2) :> <<[D("State", "UINT16", 2) EXCEPT !.map = "States"],
                                D("Label", "SID", 0), D("Checksum", "HEXINT32", 4),
                                D("Image", "ANSISTRING", 0)>>) @@
    (Key("Other", 1, 0, 1) :> <<[D("Mode", "UINT8", 1) EXCEPT !.map = "States"],
                                [D("Up", "UINT32", 4) EXCEPT !.out = "BOOLEAN"],
                                D("Blob", "UINT8", 3)>>) @@
    (Key("Agent", 2, 0, 1) :>
        <<D("Count", "UINT8", 1),
          [D("Parts", "UINT32", 0) EXCEPT !.count = 0, !.flags = {"ParamCount"}],
          [D("Port", "UINT16", 2) EXCEPT !.out = "PORT"],
          [D("Size", "UINT16", 2) EXCEPT !.out = "NONE"],
          [D("Text", "UNICODESTRING", 3) EXCEPT !.flags = {"ParamLength"}],
          [D("Fixed", "UINT16", 0) EXCEPT !.count = 2, !.flags = {"ParamCount", "FixedCount"}],
          D("Ptr", "POINTER", 4)>>) @@
    (Key("Agent", 3, 0, 1) :>
        <<D("Size", "UINT8", 1),
          [D("From", "BINARY", 0) EXCEPT !.out = "SOCKETADDRESS", !.flags = {"ParamLength"}],
          D("Tail", "UINT8", 1)>>) @@
    (Key("Agent", 4, 0, 1) :> <<[D("Name", "ANSISTRING", 0) EXCEPT !.map = "Verbs"],
                                D("Tail", "UINT8", 1)>>) @@
    (Key("Agent", 5, 0, 1) :>
        <<D("Count", "UINT8", 1),
          [D("Words", "UINT16", 2) EXCEPT !.count = 0, !.flags = {"ParamCount"}],
          D("Tail", "UINT8", 1)>>) @@
    (Key("Agent", 6, 0, 1) :> <<[D("Path", "UNICODESTRING", 4) EXCEPT !.out = "STRING"],
                                D("Tail", "UINT8", 1)>>) @@
    (Key("Log", 1, 0, 0) :> <<D("Stage", "UINT16", 2), D("Host", "ANSISTRING", 0)>>) @@
    (Key("Log", 2, 0, 0) :> <<D("Code", "UINT32", 4)>>) @@
    (Key("Agent", 9, 0, 0) :> <<D("Id", "UINT64", 8), D("Load", "FLOAT", 4),
                                D("Name", "UNICODESTRING", 0), D("Code", "UINT32", 4)>>) @@
    (Key("Reg", 0, 19, 2) :> <<D("Status", "UINT32", 4), D("KeyName", "UNICODESTRING", 0)>>) @@
    (Key("Reg", 0, 14, 3) :> <<D("KeyName", "UNICODESTRING", 0), D("ValueName", "UNICODESTRING", 0)>>) @@
    (Key("Reg", 0, 11, 2) :> <<D("Status", "UINT32", 4), D("KeyName", "UNICODESTRING", 0)>>) @@
    (Key("Tcp", 0, 26, 2) :>
        <<[D("PID", "UINT32", 4) EXCEPT !.out = "PID"], D("size", "UINT32", 4),
          [D("daddr", "UINT32", 4) EXCEPT !.out = "IPV4"],
          [D("saddr", "UINT32", 4) EXCEPT !.out = "IPV4"]>>) @@
    (Key("Tcp", 0, 27, 3) :>
        <<[D("RemoteIpV6", "UINT8", 16) EXCEPT !.out = "IPV6"], D("LocalIpV6", "UINT8", 16)>>)

MCSounds(name) ==
    CASE name = "LocalIpV6" \/ \E i \in DOMAIN SourceNames : name = SourceNames[i] -> "source"
      [] name = "RemoteIpV6" \/ \E i \in DOMAIN DestinationNames : name = DestinationNames[i]
            -> "destination"
      [] OTHER -> "other"

MCMapsOf ==
    (<<"Agent", "States">> :>
        [kind |-> "Value", keys |-> "number", entries |-> {[key |-> {1}, label |-> "on"]}]) @@
    (<<"Agent", "Verbs">> :>
        [kind |-> "Value", keys |-> "text", entries |-> {[key |-> "run", label |-> "started"]}]) @@
    (<<"Other", "States">> :>
        [kind |-> "Bitmap", keys |-> "number", entries |-> {[key |-> {1}, label |-> "read"],
                                                         [key |-> {2}, label |-> "write"]}])

CutsOf(key, event, wrote, pointer, lens) ==
    {[key |-> key, event |-> event, wrote |-> wrote, len |-> n, pointer |-> pointer] : n \in lens}
Cuts(key, wrote, pointer, lens) == CutsOf(key, key, wrote, pointer, lens)

MCRecords ==
    Cuts(Key("Agent", 1, 0, 1), <<F(4, 1), T(12, "S-1-16-8192"), T(6, "ab")>>, 8, {15, 19, 22})
    \cup Cuts(Key("Agent", 1, 0, 2), <<B(2, {1}), T(12, "S-1-5-18"), F(4, 7), T(3, "ab")>>, 8,
              {18, 20, 21})
    \cup Cuts(Key("Other", 1, 0, 1), <<B(1, {1, 2}), F(4, 1), F(3, -1)>>, 8, {7, 8})
    \cup Cuts(Key("Agent", 2, 0, 1),
              <<F(1, 2), F(8, 0), F(2, 443), F(2, 4), T(4, "ab"), F(4, 0), F(4, 9)>>, 4,
              {9, 16, 25})
    \cup Cuts(Key("Agent", 2, 0, 1),
              <<F(1, 0), F(0, 0), F(2, 443), F(2, 4), T(4, "ab"), F(4, 0), F(4, 9)>>, 4, {17})
    \cup UNION {Cuts(Key("Agent", 3, 0, 1),
                     <<F(1, a[2]), [F(a[2], -1) EXCEPT !.family = a[1]], F(1, 9)>>, 8, {a[2] + 2}) :
                 a \in {<<2, 16>>, <<23, 28>>, <<1, 16>>}}
    \cup UNION {Cuts(Key("Agent", 4, 0, 1), <<[T(4, "run") EXCEPT !.utf8 = u], F(1, 9)>>, 8, {5}) :
                 u \in BOOLEAN}
    \cup UNION {Cuts(Key("Agent", 5, 0, 1), <<F(1, n), F(2 * n, 0), F(1, 9)>>, 8, {2 * n + 2}) :
                 n \in 1..3}
    \cup Cuts(Key("Agent", 6, 0, 1), <<T(4, "ab"), F(1, 9)>>, 8, {5})
    \cup CutsOf(Key("Log", 0, 0, 0), Key("Log", 1, 0, 0), <<F(2, 1), T(3, "ab")>>, 8, {5})
    \cup CutsOf(Key("Log", 0, 0, 0), Key("Log", 2, 0, 0), <<F(4, 7)>>, 8, {4})
    \cup Cuts(Key("Reg", 0, 19, 2), <<F(4, 0), T(6, "a value")>>, 8, {10})
    \cup Cuts(Key("Agent", 9, 0, 0), <<F(8, 5), F(4, -1), T(6, "ab"), F(4, 6)>>, 8, {17, 22})
    \cup Cuts(Key("Reg", 0, 14, 3), <<T(6, "a key"), [F(2, -1) EXCEPT !.text = {""}]>>, 8, {8})
    \cup Cuts(Key("Reg", 0, 11, 2), <<F(4, 0), T(6, "a key")>>, 8, {10})
    \cup Cuts(Key("Tcp", 0, 26, 2), <<F(4, 1), F(4, 2), F(4, 3), F(4, 4)>>, 8, {15, 16})
    \cup Cuts(Key("Tcp", 0, 27, 3), <<F(16, 5), F(16, 6)>>, 4, {32})
    \cup Cuts(Key("Proc", 0, 1, 3), <<F(52, 0), T(12, "sid"), T(6, "a.exe"), T(12, "a -b")>>, 8,
              {79, 80, 82})
    \cup Cuts(Key("Proc", 0, 2, 0), <<F(28, 0), T(12, "sid"), T(6, "a.exe")>>, 8, {43, 46})
    \cup Cuts(Key("Proc", 0, 3, 3), <<F(52, 0), T(12, "sid"), T(6, "a.exe"), T(12, "a -b")>>, 8, {82})
    \cup Cuts(Key("Image", 0, 10, 3), <<F(56, 0), T(26, "ntdll.dll")>>, 8, {82})

MCWritten ==
    {[key |-> Key("Agent", 9, 0, 0), event |-> Key("Agent", 9, 0, 0),
      data |-> <<[type |-> "U64", num |-> 5, chars |-> 0, text |-> {}],
                 [type |-> "F32", num |-> 0, chars |-> 0, text |-> {}],
                 [type |-> "Str", num |-> 0, chars |-> n, text |-> {"name"}],
                 [type |-> "U32", num |-> 6, chars |-> 0, text |-> {}]>>] : n \in {0, 2}}

\* Every payload was written by its description.
ASSUME \A r \in MCRecords :
    r.event \in DOMAIN MCManifest => Conforms(MCManifest[r.event], r.wrote, r.pointer)
=============================================================================
