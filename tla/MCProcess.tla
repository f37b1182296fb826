----------------------------- MODULE MCProcess -----------------------------
(* Processes: killing a tree among four identifiers, one of them protected;  *)
(* spawning, waiting and injecting; looking into a process from outside;     *)
(* mitigations.  A behaviour follows one of these modules.                   *)
EXTENDS ProcessTree, ProcessInspect, ProcessControl, Mitigation, TLC

CONSTANTS p1, p2, p3, p4

VARIABLE part  \* the module this behaviour follows

MCPids == {p1, p2, p3, p4}
MCThree == {p1, p2, p3}
MCProtected == {p4}
MCSymmetry == Permutations(MCThree)

MCInit ==
    /\ part \in {"tree", "control", "inspect", "mitigation"}
    /\ Init /\ (part # "tree" => live = {p1})
    /\ ControlInit
    /\ InspectInit
    /\ MitigationInit

MCNext ==
    \/ part = "tree" /\ Next /\ UNCHANGED <<part, controlVars, inspectVars, mitigationVars>>
    \/ part = "control" /\ ControlNext /\ UNCHANGED <<part, vars, inspectVars, mitigationVars>>
    \/ part = "inspect" /\ InspectNext /\ UNCHANGED <<part, vars, controlVars, mitigationVars>>
    \/ part = "mitigation" /\ MitigationNext /\ UNCHANGED <<part, vars, controlVars, inspectVars>>

MCSpec == MCInit /\ [][MCNext]_<<part, vars, controlVars, inspectVars, mitigationVars>>
=============================================================================
