---------------------------- MODULE MCInventory ----------------------------
(* What is listed while it changes: the pipes a poller watches, services,    *)
(* modules, threads, drives and adapters, a service restarted among other    *)
(* clients, and what the machine says of itself.  A behaviour follows one of *)
(* these modules.                                                            *)
EXTENDS PipePoller, Services, Enumerations, Host

CONSTANTS s1, s2, s3

VARIABLES part      \* the module this behaviour follows

\* SMBIOS tables: a structure with an identifier first, behind one with two
\* strings, behind one without strings, and absent.
Structure(type, body, strings) == [type |-> type, body |-> body, strings |-> strings]
MCTables ==
    { <<>>,
      <<Structure(1, <<7, 8>>, <<>>)>>,
      <<Structure(0, <<0>>, << <<5>>, <<6, 6>> >>), Structure(1, <<3, 0>>, <<>>)>>,
      <<Structure(2, <<0, 0>>, <<>>), Structure(1, <<4>>, << <<5>> >>),
        Structure(1, <<0, 2>>, << <<1, 2>> >>)>>,
      <<Structure(3, <<1>>, <<>>), Structure(0, <<0, 0, 1>>, << <<4>> >>)>> }

Profile(sid, name) == [sid |-> sid, name |-> name]
MCProfiles ==
    { <<>>, <<Profile(s1, 1)>>, <<Profile(s1, 1), Profile(s2, 2)>>,
      <<Profile(s1, 2), Profile(s2, 0), Profile(s3, 2)>> }

MCInit ==
    /\ part \in {"pipes", "lists", "service", "host"}
    /\ Init /\ (part # "pipes" => pipes = {} /\ known = {})
    /\ ListInit /\ (part # "lists" => items = {} /\ \A c \in Capacities : buffer.cap <= c)
    /\ ServiceInit /\ (part # "service" => state = "Stopped")
    /\ HostInit /\ (part # "host" => ~privilege.held)

MCNext ==
    \/ part = "pipes" /\ Next /\ UNCHANGED <<part, listVars, serviceVars, hostVars>>
    \/ part = "lists" /\ ListNext /\ UNCHANGED <<part, vars, serviceVars, hostVars>>
    \/ part = "service" /\ ServiceNext /\ UNCHANGED <<part, vars, listVars, hostVars>>
    \/ part = "host" /\ HostNext /\ UNCHANGED <<part, vars, listVars, serviceVars>>

MCSpec ==
    /\ MCInit
    /\ [][MCNext]_<<part, vars, listVars, serviceVars, hostVars>>
    \* The polling thread runs and sleep returns; the listing thread runs.
    /\ WF_vars(part = "pipes" /\ PollerStep)
    /\ WF_listVars(part = "lists" /\ Step)

---------------------------------------------------------------------------
(* Properties of the composition.                                           *)

\* Every scan of the pipe directory and every other listing ends, though what
\* it lists keeps changing (NamedPipePoller::poll, the list functions).
ScansEnd == PollEnds /\ ListEnds
=============================================================================
