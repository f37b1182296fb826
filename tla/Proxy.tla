-------------------------------- MODULE Proxy --------------------------------
(* Proxy discovery (proxy/): the settings in the registry, read value by     *)
(* value while the user may change them, and the resolution of a URL through *)
(* WinHTTP, which hands over strings the caller frees.                       *)
EXTENDS Integers, Sequences, FiniteSets

CONSTANTS
    Servers,     \* raw ProxyServer values: sequences of <<scheme, endpoint>>; << >> is a blank one
    MaxSettings, \* bound on how often the settings change
    NoValue      \* a value that is not there

\* A value that is not there is none of the values written.
ASSUME ServersAssumption == NoValue \notin Servers

Hives == {"LocalMachine", "CurrentUser"}
Names == {"ProxyEnable", "ProxyServer", "ProxyOverride", "AutoDetect", "AutoConfigURL"}

VARIABLES
    settings,  \* per hive: [enable, server, detect, url]
    perUser,   \* the ProxySettingsPerUser policy
    settled,   \* how often the settings have changed
    reader,    \* the read under way: where it is, and the values it has
    gap,       \* history: how the hive went without a server since its last read began
    strings,   \* strings WinHTTP has handed over to the call and it has not freed
    leaked,    \* whether a call has left strings behind
    session,   \* whether a WinHTTP session is open
    resolving, \* get_ie_proxy_config or get_proxy_for_url: its step, the settings it got
    answer     \* what the last call returned

settingVars == <<settings, perUser, settled, reader, gap>>
winhttpVars == <<strings, leaked, session, resolving>>
proxyVars == <<settingVars, winhttpVars, answer>>

HiveSettings == [enable : BOOLEAN, server : Servers \union {NoValue}, detect : BOOLEAN, url : BOOLEAN]

NotReading == [at |-> 0, hive |-> "LocalMachine", enable |-> FALSE, server |-> NoValue,
               detect |-> FALSE, url |-> FALSE]
IeConfigs == [detect : BOOLEAN, url : BOOLEAN, proxy : BOOLEAN, bypass : BOOLEAN]
NoCall == [at |-> "idle", forUrl |-> FALSE,
           ie |-> [detect |-> FALSE, url |-> FALSE, proxy |-> FALSE, bypass |-> FALSE]]

ProxyInit ==
    /\ settings \in [Hives -> HiveSettings]
    /\ perUser \in BOOLEAN
    /\ settled = 0 /\ reader = NotReading /\ gap = {}
    /\ strings = {} /\ leaked = FALSE /\ session = FALSE /\ resolving = NoCall
    /\ answer = "none"

Idle == reader.at = 0 /\ resolving.at = "idle"

---------------------------------------------------------------------------
(* The settings, edited value by value and in any order by their user          *)
(* (external): a server may be written, blanked or removed at any time.       *)

\* What read_string_optional(..).filter(..) keeps: a value that is not blank.
Given(v) == v # NoValue /\ v # << >>

\* The proxy is on and has no server.
Bare(s) == s.enable /\ ~Given(s.server)

\* How the change from the settings s to the settings t leaves them without a server.
GapOf(s, t) == {g \in {"bare", "taken"} : IF g = "bare" THEN Bare(t)
                                           ELSE Given(s.server) /\ ~Given(t.server)}

Edit(h) ==
    /\ settled < MaxSettings
    /\ settled' = settled + 1
    /\ \/ \E s \in Servers \union {NoValue} : settings' = [settings EXCEPT ![h].server = s]
       \/ settings' = [settings EXCEPT ![h].enable = ~@]
       \/ settings' = [settings EXCEPT ![h].detect = ~@]
       \/ settings' = [settings EXCEPT ![h].url = ~@]
    /\ gap' = IF reader.at # 0 /\ h = reader.hive THEN gap \union GapOf(settings[h], settings'[h]) ELSE gap
    /\ UNCHANGED <<perUser, reader, winhttpVars, answer>>

---------------------------------------------------------------------------
(* get_system_proxy, get_user_proxy, get_effective_proxy                      *)

Begin(h) ==
    /\ reader' = [NotReading EXCEPT !.at = 1, !.hive = h]
    /\ gap' = {g \in {"bare"} : Bare(settings[h])}
    /\ answer' = "none"

BeginRead ==
    /\ Idle
    /\ \E h \in Hives : Begin(h)
    /\ UNCHANGED <<settings, perUser, settled, winhttpVars>>

\* The policy is read under the current user; a value that is not there is 0.
use_user_proxy_settings == IF perUser THEN "CurrentUser" ELSE "LocalMachine"

\* An error of reading the policy is the call's own.
get_effective_proxy ==
    /\ Idle
    /\ \/ Begin(use_user_proxy_settings)
       \/ answer' = "RegistryError" /\ UNCHANGED <<reader, gap>>
    /\ UNCHANGED <<settings, perUser, settled, winhttpVars>>

\* A mutant: the server is read before the switch.
ReadOrder_ServerFirst == <<"ProxyServer", "ProxyEnable", "ProxyOverride", "AutoDetect", "AutoConfigURL">>

\* The order in which get_proxy_from_hive reads the values, one call each.
ReadOrder == <<"ProxyEnable", "ProxyServer", "ProxyOverride", "AutoDetect", "AutoConfigURL">>

Seen(name) ==
    LET s == settings[reader.hive]
    IN CASE name = "ProxyEnable" -> [reader EXCEPT !.enable = s.enable]
         [] name = "ProxyServer" -> [reader EXCEPT !.server = IF Given(s.server) THEN s.server ELSE NoValue]
         [] name = "ProxyOverride" -> reader
         [] name = "AutoDetect" -> [reader EXCEPT !.detect = s.detect]
         [] name = "AutoConfigURL" -> [reader EXCEPT !.url = s.url]

\* A key or a value that is not there is None; another error ends the call.
read_optional ==
    /\ reader.at \in DOMAIN ReadOrder
    /\ \/ reader' = [Seen(ReadOrder[reader.at]) EXCEPT !.at = @ + 1] /\ UNCHANGED answer
       \/ reader' = NotReading /\ answer' = "RegistryError"
    /\ UNCHANGED <<settings, perUser, settled, gap, winhttpVars>>

\* parse_proxy_server: an entry without a scheme is for all of them, one with
\* an empty part is dropped, and the last entry of a scheme wins.
Entry(e) == e[2] # ""
Scheme(e) == IF e[1] = "" THEN "all" ELSE e[1]
parse_proxy_server(raw) ==
    LET kept == {i \in DOMAIN raw : Entry(raw[i])}
        last(s) == CHOOSE i \in kept : Scheme(raw[i]) = s /\ \A j \in kept : Scheme(raw[j]) = s => j <= i
    IN [s \in {Scheme(raw[i]) : i \in kept} |-> raw[last(s)][2]]

get_proxy_from_hive ==
    /\ reader.at = Len(ReadOrder) + 1
    /\ answer' = CASE ~reader.enable /\ ~reader.detect /\ ~reader.url -> "None"
                   [] reader.enable /\ reader.server = NoValue -> "InvalidConfig"
                   [] reader.enable /\ reader.server # NoValue ->
                        IF DOMAIN parse_proxy_server(reader.server) = {} THEN "NoEndpoint" ELSE "Server"
                   [] OTHER -> "Auto"
    /\ reader' = NotReading
    /\ UNCHANGED <<settings, perUser, settled, gap, winhttpVars>>

---------------------------------------------------------------------------
(* get_ie_proxy_config, get_proxy_for_url                                     *)

\* WinHttpGetIEProxyConfigForCurrentUser hands over the strings there are.
\* For a URL, one that is empty is refused before.
get_ie_proxy_config(forUrl) ==
    /\ Idle /\ answer' = "none"
    /\ \/ \E ie \in IeConfigs :
            /\ strings' = {s \in {"url", "proxy", "bypass"} : ie[s]}
            /\ resolving' = [at |-> "url", forUrl |-> forUrl, ie |-> ie]
       \/ UNCHANGED <<strings, resolving>>
    /\ UNCHANGED <<leaked, session, settingVars>>

\* take_optional_pwstr: the string is copied and freed; when GlobalFree says it
\* failed, the call ends and the strings after it are never freed.
After == [url |-> "proxy", proxy |-> "bypass", bypass |-> "config",
          infoProxy |-> "infoBypass", infoBypass |-> "done"]

End(a) == resolving' = NoCall /\ session' = FALSE /\ answer' = a

take_optional_pwstr ==
    /\ resolving.at \in DOMAIN After
    /\ \/ /\ strings' = strings \ {resolving.at}
          /\ resolving' = [resolving EXCEPT !.at = After[@]]
          /\ UNCHANGED <<leaked, session, answer>>
       \/ /\ resolving.at \in strings
          /\ leaked' = (leaked \/ strings # {resolving.at})
          /\ strings' = {} /\ End("WindowsApi")
    /\ UNCHANGED settingVars

ConfigDone ==
    /\ resolving.at = "config"
    /\ IF ~resolving.forUrl THEN End("Config")
       ELSE \/ session' = TRUE /\ resolving' = [resolving EXCEPT !.at = "resolve"] /\ UNCHANGED answer
            \/ End("ResolutionFailed")
    /\ UNCHANGED <<strings, leaked, settingVars>>

\* A PAC script or detection that gives nothing ends as None; the static proxy
\* is used only when neither is set.
get_proxy_for_url ==
    /\ resolving.at = "resolve"
    /\ IF resolving.ie.url \/ resolving.ie.detect
       THEN \/ /\ \E info \in SUBSET {"infoProxy", "infoBypass"} : strings' = strings \union info
               /\ resolving' = [resolving EXCEPT !.at = "infoProxy"] /\ UNCHANGED <<session, answer>>
            \/ End("None") /\ UNCHANGED strings
       ELSE End(IF resolving.ie.proxy THEN "Static" ELSE "None") /\ UNCHANGED strings
    /\ UNCHANGED <<leaked, settingVars>>

from_winhttp == resolving.at = "done" /\ End("Resolved") /\ UNCHANGED <<strings, leaked, settingVars>>

ProxyNext ==
    \/ \E h \in Hives : Edit(h)
    \/ BeginRead \/ get_effective_proxy \/ read_optional \/ get_proxy_from_hive
    \/ \E forUrl \in BOOLEAN : get_ie_proxy_config(forUrl)
    \/ take_optional_pwstr \/ ConfigDone \/ get_proxy_for_url \/ from_winhttp

ProxySpec == ProxyInit /\ [][ProxyNext]_proxyVars

---------------------------------------------------------------------------
(* Properties                                                                *)

\* "ProxyEnable is 1 but ProxyServer is missing" is never the doing of a user who
\* writes the server before switching the proxy on: get_proxy_from_hive says it
\* only when, during the read, the proxy was on without a server or the server
\* was blanked or removed.  The flag is read before the server it stands for.
EnabledHasServer == answer = "InvalidConfig" => gap # {}

\* What the error's words say: the proxy was on and had no server.  A user who
\* switches it off and then removes the server, between the two reads, never
\* had such settings.
InvalidIsTrue == answer = "InvalidConfig" => "bare" \in gap

\* WinHTTP's strings are the caller's to free: no call leaves one
\* behind.  The first GlobalFree that reports an error leaves the others.
StringsFreed == ~leaked

\* What the parsed endpoints promise: an answer with a proxy has an endpoint.
\* A ProxyServer value like "http=" has none.
ServerHasEndpoint == answer # "NoEndpoint"
=============================================================================
