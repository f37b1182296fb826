------------------------------ MODULE Mitigation ------------------------------
(* Process mitigations (mitigation/mod.rs): a plan is applied to the current *)
(* process policy by policy, each step irrevocable, and the status of a      *)
(* process is read back policy by policy.                                    *)
EXTENDS Integers, Sequences, FiniteSets

CONSTANTS Supported  \* the payload bits this Windows accepts

Signed == "MicrosoftSignedOnly"
Remote == "BlockRemoteImages"
System32 == "PreferSystem32Images"
Dynamic == "DisableDynamicCode"
Payload == "RestrictPayload"
Child == "BlockChildProcessCreation"
Mitigations == {Signed, Remote, System32, Dynamic, Payload, Child}

\* The policies of a process, in the order in which apply_to_current sets them
\* and query_from_handle reads them, and the flags each one has.
Policies == <<"signature", "image_load", "dynamic_code", "payload_restriction", "child_process">>
Bits == {"Eaf", "EafPlus", "Iaf", "RopPivot", "RopCaller", "RopSimExec"}

VARIABLES
    plan,      \* MitigationPlan.mitigations
    flags,     \* the policies of the process
    policy,    \* the policy apply_to_current or query_process is at, 0 for none
    doing,     \* "apply", "query" or "none"
    mask,      \* apply_payload_mitigation: the candidate it tries
    status,    \* what the query under way has read
    result     \* what the last call returned

mitigationVars == <<plan, flags, policy, doing, mask, status, result>>

MitigationInit ==
    /\ plan = {}
    /\ flags = [p \in {Policies[i] : i \in DOMAIN Policies} |-> {}]
    /\ policy = 0 /\ doing = "none" /\ mask = 0
    /\ status = {} /\ result = "none"

Return(outcome) ==
    /\ doing' = "none" /\ policy' = 0 /\ mask' = 0
    /\ result' = outcome

---------------------------------------------------------------------------
(* The plan                                                                  *)

Plan(mitigations) ==
    /\ doing = "none"
    /\ plan' = mitigations /\ result' = "none" /\ status' = {}
    /\ UNCHANGED <<flags, policy, doing, mask>>

new == Plan({})

\* enable() takes a mitigation once: a Vec without duplicates is a set, for
\* apply_to_current only asks what it contains.
enable(m) == m \notin plan /\ Plan(plan \union {m})

---------------------------------------------------------------------------
(* apply_to_current                                                          *)

\* A mutant: one flag per call, the last one standing.
ImageLoad_LastFlag == IF System32 \in plan THEN {System32} ELSE plan \intersect {Remote}

\* Both image-load flags in one call.
ImageLoad == plan \intersect {Remote, System32}

\* The masks apply_payload_mitigation tries, from the fullest to the least.
Candidates ==
    << Bits, Bits \ {"RopSimExec"}, {"Eaf", "EafPlus", "Iaf", "RopPivot", "RopCaller"},
       {"Eaf", "Iaf", "RopPivot"}, {"Eaf"} >>

\* The flags a policy is set to; nothing is set for a policy the plan does not ask for.
Wanted(p) ==
    CASE p = "signature" -> plan \intersect {Signed}
      [] p = "image_load" -> ImageLoad
      [] p = "dynamic_code" -> plan \intersect {Dynamic}
      [] p = "payload_restriction" -> IF Payload \in plan THEN Candidates[mask + 1] ELSE {}
      [] p = "child_process" -> plan \intersect {Child}

BeginCall(call) ==
    /\ doing = "none"
    /\ doing' = call /\ policy' = 1 /\ mask' = 0 /\ status' = {} /\ result' = "none"
    /\ UNCHANGED <<plan, flags>>

apply_to_current == BeginCall("apply")

Advance == IF policy = Len(Policies) THEN Return(IF doing = "apply" THEN "applied" ELSE "read")
           ELSE policy' = policy + 1 /\ mask' = 0 /\ UNCHANGED <<doing, result>>

\* SetProcessMitigationPolicy replaces the policy, or refuses.
Set == flags' = [flags EXCEPT ![Policies[policy]] = Wanted(Policies[policy])]

SkipPolicy ==
    /\ doing = "apply" /\ Wanted(Policies[policy]) = {}
    /\ Advance /\ UNCHANGED <<plan, flags, status>>

apply_single_mitigation ==
    /\ doing = "apply" /\ Wanted(Policies[policy]) # {} /\ Policies[policy] # "payload_restriction"
    /\ \/ Set /\ Advance
       \/ UNCHANGED flags /\ Return("ApplyFailed")
    /\ UNCHANGED <<plan, status>>

\* ERROR_INVALID_PARAMETER, which is what a mask with a bit this Windows does
\* not know meets, moves on to the next candidate; any other error is returned.
\* The next policy is set only if this one was.
apply_payload_mitigation ==
    /\ doing = "apply" /\ Policies[policy] = "payload_restriction" /\ Payload \in plan
    /\ \/ Candidates[mask + 1] \subseteq Supported /\ Set /\ Advance
       \/ /\ ~(Candidates[mask + 1] \subseteq Supported)
          /\ IF mask + 1 < Len(Candidates)
             THEN mask' = mask + 1 /\ UNCHANGED <<policy, doing, result>>
             ELSE Return("ApplyFailed")
          /\ UNCHANGED flags
       \/ UNCHANGED flags /\ Return("ApplyFailed")
    /\ UNCHANGED <<plan, status>>

---------------------------------------------------------------------------
(* query_current, query_process                                              *)

\* The current process's own handle is borrowed; another process may be gone.
query_process == BeginCall("query")

open_query_process_handle ==
    /\ doing = "query" /\ policy = 1
    /\ Return("QueryFailed") /\ UNCHANGED <<plan, flags, status>>

Reported(p) ==
    CASE p = "payload_restriction" -> IF flags[p] \intersect Bits # {} THEN {Payload} ELSE {}
      [] OTHER -> flags[p]

\* Five separate reads: one that fails fails the query.
query_from_handle ==
    /\ doing = "query"
    /\ \/ /\ status' = status \union Reported(Policies[policy])
          /\ Advance
       \/ Return("QueryFailed") /\ status' = {}
    /\ UNCHANGED <<plan, flags>>

MitigationNext ==
    \/ new \/ \E m \in Mitigations : enable(m)
    \/ apply_to_current \/ SkipPolicy \/ apply_single_mitigation \/ apply_payload_mitigation
    \/ query_process \/ open_query_process_handle \/ query_from_handle

MitigationSpec == MitigationInit /\ [][MitigationNext]_mitigationVars

---------------------------------------------------------------------------
(* Properties                                                                *)

\* When apply_to_current returns Ok, every mitigation of the plan is in force,
\* which is what a query of the process will say: the two image-load flags
\* share a policy and are set together, the payload bits fall back to what
\* this Windows accepts.
PlanInForce ==
    result = "applied" => plan \subseteq UNION {Reported(p) : p \in DOMAIN flags}

\* "Enable payload restrictions (EAF, IAF, ROP checks)" (mitigation/mod.rs:67):
\* RestrictPayload in force has all three.  The last candidate has only EAF.
PayloadIsWhole ==
    Reported("payload_restriction") # {} => {"Eaf", "Iaf"} \subseteq flags["payload_restriction"]
=============================================================================
