-------------------------------- MODULE Host --------------------------------
(* The host itself (system/): the inventory snapshot, section by section,    *)
(* power actions behind a privilege, and what is worked out from raw data:   *)
(* the firmware identifier in the SMBIOS table, the list of users, the name  *)
(* of the product.                                                           *)
EXTENDS Integers, Sequences, FiniteSets, Orderings

CONSTANTS
    Tables,      \* firmware tables: sequences of [type, body, strings]
    Header,      \* bytes of a structure's header (4)
    UuidLength,  \* the length from which a structure holds an identifier (25)
    Profiles,    \* profile lists: sequences of [sid, name], name 0 unreadable
    Currents,    \* names the USERNAME variable may have, 0 for none
    Editions,    \* edition identifiers in the registry, "none" among them
    NoSid        \* a user without a SID

\* The bytes of a string of the table are not 0, and a string has some: two
\* bytes of 0 end the strings.
ASSUME HostAssumption ==
    /\ Header \in Nat /\ Header >= 2
    /\ UuidLength \in Nat /\ UuidLength >= Header
    /\ Tables \subseteq Seq([type : Nat, body : Seq(Nat), strings : Seq(Seq(Nat \ {0}) \ {<<>>})])
    /\ \A p \in Profiles : p \in Seq({p[k] : k \in DOMAIN p})
    /\ Editions # {}

VARIABLES
    section,    \* snapshot(): the section that comes next
    found,      \* the sections that have data
    failed,     \* ghost: the sections whose data could not be read
    errors,     \* section_errors
    power,      \* shutdown() or restart(): the step it is at
    token,      \* whether the process token is open
    privilege,  \* whether SeShutdownPrivilege is enabled, and whether held
    initiated,  \* how the system was asked to shut down, and with the privilege
    table,      \* the firmware table looked at
    profiles, current, \* the profile list and the current user looked at
    version     \* the version looked at: build, registry name, edition

snap == <<section, found, failed, errors>>
powerVars == <<power, token, privilege, initiated>>
data == <<table, profiles, current, version>>
hostVars == <<snap, powerVars, data>>

Sections == <<"Identity", "Os", "Guids", "Bios", "LogicalDisks", "PhysicalDisks",
              "Network", "Users">>

ProductNames == {<<"none", "none">>, <<"Windows 10", "Pro">>, <<"Windows Server", "Standard">>}
Versions ==
    [build : {19045, 22000, 26100}, server : BOOLEAN, edition : Editions, name : ProductNames]
AnyVersion == CHOOSE v \in Versions : TRUE

\* One caller, one call at a time; what an earlier call gave is forgotten.
NoSnapshot == section' = Len(Sections) + 1 /\ found' = {} /\ failed' = {} /\ errors' = <<>>
NoPower == power' = "none" /\ token' = FALSE /\ initiated' = [from |-> "none", privileged |-> FALSE]
NoData == table' = <<>> /\ profiles' = <<>> /\ current' = 0 /\ version' = AnyVersion
Quiet == section > Len(Sections) /\ power = "none"

---------------------------------------------------------------------------
(* snapshot                                                                 *)

\* guid_info, bios_info, physical_disks and users turn every failure into
\* missing data of their own.
Reports == {"Identity", "Os", "LogicalDisks", "Network"}

SnapshotBegin ==
    /\ Quiet
    /\ section' = 1 /\ found' = {} /\ failed' = {} /\ errors' = <<>>
    /\ NoPower /\ NoData
    /\ UNCHANGED privilege

SectionRead ==
    /\ section <= Len(Sections)
    /\ found' = found \cup {Sections[section]}
    /\ section' = section + 1
    /\ UNCHANGED <<failed, errors, powerVars, data>>

\* The section gets a default and, if its function has an error to return,
\* an entry in section_errors.
SectionFails ==
    /\ section <= Len(Sections)
    /\ failed' = failed \cup {Sections[section]}
    /\ errors' = IF Sections[section] \in Reports THEN Append(errors, Sections[section]) ELSE errors
    /\ section' = section + 1
    /\ UNCHANGED <<found, powerVars, data>>

---------------------------------------------------------------------------
(* Power actions.                                                           *)

\* shutdown and restart; the variants with an enabled privilege skip to the
\* request.
PowerBegin(first) ==
    /\ Quiet
    /\ power' = first
    /\ NoSnapshot /\ NoData
    /\ UNCHANGED <<token, privilege, initiated>>

PowerFails ==
    /\ power \in {"open", "lookup", "adjust"}
    /\ power' = "none"
    /\ token' = FALSE
    /\ UNCHANGED <<privilege, initiated, snap, data>>

OpenToken ==
    /\ power = "open"
    /\ power' = "lookup" /\ token' = TRUE
    /\ UNCHANGED <<privilege, initiated, snap, data>>

LookupPrivilege ==
    /\ power = "lookup"
    /\ power' = "adjust"
    /\ UNCHANGED <<token, privilege, initiated, snap, data>>

\* GetLastError is not ERROR_NOT_ALL_ASSIGNED.
Assigned == privilege.held

\* AdjustTokenPrivileges succeeds also when it has nothing to enable.
enable_shutdown_privilege ==
    /\ power = "adjust"
    /\ privilege' = [privilege EXCEPT !.enabled = privilege.held]
    /\ power' = IF Assigned THEN "request" ELSE "none"
    /\ token' = FALSE
    /\ UNCHANGED <<initiated, snap, data>>

\* InitiateSystemShutdownExW refuses without the privilege.
execute_power_action ==
    /\ power \in {"request", "direct"}
    /\ initiated' = [from |-> power, privileged |-> privilege.enabled]
    /\ power' = "none"
    /\ UNCHANGED <<token, privilege, snap, data>>

---------------------------------------------------------------------------
(* The SMBIOS table: structures of a type, a length, a formatted area and    *)
(* strings that end with two bytes of 0.                                     *)

StructureLength(s) == Header + Len(s.body)

\* The strings of a structure, with what ends them.
EncodeStrings(texts) ==
    IF texts = <<>> THEN <<0, 0>>
    ELSE Concat([n \in DOMAIN texts |-> texts[n] \o <<0>>]) \o <<0>>

EncodeArea(s) == <<s.type, StructureLength(s)>> \o [i \in 1..(Header - 2) |-> 9] \o s.body
Encode(t) == Concat([k \in DOMAIN t |-> EncodeArea(t[k]) \o EncodeStrings(t[k].strings)])

\* A mutant: one byte after the first of the two.
AfterStrings_One(b, c) ==
    LET ends == {i \in c..(Len(b) - 2) : b[i+1] = 0 /\ b[i+2] = 0}
    IN  IF ends = {} THEN Len(b) ELSE 1 + CHOOSE i \in ends : \A j \in ends : i <= j

\* The cursor after the strings that begin at c; without an end, the end.
AfterStrings(b, c) ==
    LET ends == {i \in c..(Len(b) - 2) : b[i+1] = 0 /\ b[i+2] = 0}
    IN  IF ends = {} THEN Len(b) ELSE 2 + CHOOSE i \in ends : \A j \in ends : i <= j

\* No structure at the cursor: the loop ends.
NoStructure(b, c) == c + Header > Len(b) \/ b[c + 2] < Header \/ c + b[c + 2] > Len(b)

\* A system structure that is long enough to have an identifier.
SystemAt(b, c) == ~NoStructure(b, c) /\ b[c + 1] = 1 /\ b[c + 2] >= UuidLength

\* The cursor after a round of the loop.
Round(b, c) ==
    IF NoStructure(b, c) \/ SystemAt(b, c) THEN c ELSE AfterStrings(b, c + b[c + 2])

\* Where the loop ends: a round that goes on moves the cursor.
Cursor(b) ==
    LET after[n \in 0..Len(b)] == IF n = 0 THEN 0 ELSE Round(b, after[n-1])
    IN  after[Len(b)]

\* The bytes of the identifier, <<>> for none: the formatted area after the
\* header here.
parse_firmware_uuid_from_raw_smbios(b) ==
    LET c == Cursor(b)
    IN  IF SystemAt(b, c) THEN SubSeq(b, c + Header + 1, c + UuidLength) ELSE <<>>

---------------------------------------------------------------------------
(* Users: the current one, then the profile list; the first of a name stays.  *)

Candidates ==
    (IF current = 0 THEN <<>> ELSE <<[sid |-> NoSid, name |-> current]>>)
        \o AtPlaces(profiles, {k \in DOMAIN profiles : profiles[k].name # 0})

All == {Candidates[k] : k \in DOMAIN Candidates}
HasSid == {u \in All : u.sid # NoSid}

\* filter is the set of the users the caller's function accepts.
users_with_filter(filter) ==
    AtPlaces(Candidates, {k \in DOMAIN Candidates :
        /\ \A j \in 1..(k-1) : Candidates[j].name # Candidates[k].name
        /\ Candidates[k] \in filter})

---------------------------------------------------------------------------
(* The product's name, as <<family, edition>>.                              *)

derive_release_label(build) == IF build >= 22000 THEN "Windows 11" ELSE "Windows 10"

is_server_installation(v) == v.server

\* The registry may still say "Windows 10" on a later build.
NameOnWindows11(v) ==
    IF v.name[1] = "Windows 10" THEN <<"Windows 11", v.name[2]>>
    ELSE IF v.name[1] # "none" THEN v.name
    ELSE <<IF is_server_installation(v) THEN "Windows Server" ELSE "Windows 11", v.edition>>

resolve_product_name_from_registry(v) == IF v.build >= 22000 THEN NameOnWindows11(v) ELSE v.name

---------------------------------------------------------------------------

Look ==
    /\ Quiet /\ NoSnapshot /\ NoPower
    /\ \/ table' \in Tables /\ profiles' = <<>> /\ current' = 0 /\ version' = AnyVersion
       \/ profiles' \in Profiles /\ current' \in Currents /\ table' = <<>> /\ version' = AnyVersion
       \/ version' \in Versions /\ table' = <<>> /\ profiles' = <<>> /\ current' = 0
    /\ UNCHANGED privilege

HostInit ==
    /\ section = Len(Sections) + 1 /\ found = {} /\ failed = {} /\ errors = <<>>
    /\ power = "none" /\ token = FALSE
    /\ privilege \in [held : BOOLEAN, enabled : {FALSE}]
    /\ initiated = [from |-> "none", privileged |-> FALSE]
    /\ table = <<>> /\ profiles = <<>> /\ current = 0
    /\ version = AnyVersion

HostNext ==
    \/ SnapshotBegin \/ SectionRead \/ SectionFails
    \/ \E first \in {"open", "direct"} : PowerBegin(first)
    \/ PowerFails \/ OpenToken \/ LookupPrivilege
    \/ enable_shutdown_privilege \/ execute_power_action
    \/ Look

HostSpec == HostInit /\ [][HostNext]_hostVars

---------------------------------------------------------------------------
(* Properties.                                                              *)

\* shutdown() and restart() ask the system only once the privilege is really
\* enabled, and hold the token no longer than the call: AdjustTokenPrivileges
\* reports success also for a privilege that the token lacks.
ShutdownPrivileged ==
    /\ initiated.from = "request" => initiated.privileged
    /\ power \in {"none", "request", "direct"} => ~token

HasIdentifier(s) == s.type = 1 /\ StructureLength(s) >= UuidLength

\* The identifier found is that of the first system structure long enough to
\* hold one, whatever strings the structures before it have
\* (parse_firmware_uuid_from_raw_smbios).
SmbiosFaithful ==
    LET system == {k \in DOMAIN table : HasIdentifier(table[k])}
    IN  parse_firmware_uuid_from_raw_smbios(Encode(table)) =
            IF system = {} THEN <<>>
            ELSE SubSeq(table[CHOOSE k \in system : \A j \in system : k <= j].body, 1, UuidLength - Header)

\* Filtering during the enumeration gives what filtering afterwards gives,
\* and every user is listed once (users_with_filter).
UsersFiltered ==
    LET users == users_with_filter(All)
    IN  /\ users_with_filter(HasSid) = Filter(users, HasSid)
        /\ \A i, j \in DOMAIN users : i < j => users[i].name # users[j].name

\* "section failures are recorded in `section_errors` and collection
\* continues" (system/mod.rs:53).  Half of the sections have no error to
\* return.
FailuresRecorded ==
    section > Len(Sections) => failed = {errors[k] : k \in DOMAIN errors}

\* Product name and release label of a workstation name the same release,
\* though the registry still says "Windows 10" on Windows 11
\* (resolve_product_name_from_registry, derive_release_label).
NamesAgree ==
    (~version.server /\ version.name[1] # "Windows Server") =>
        resolve_product_name_from_registry(version)[1] \in {derive_release_label(version.build), "none"}

\* What the machine says of itself is read as it is written, and it is told to
\* shut down only with the privilege to do so.
HostFaithful == SmbiosFaithful /\ UsersFiltered /\ NamesAgree /\ ShutdownPrivileged
=============================================================================
