---------------------------- MODULE MCEtwSession ----------------------------
(* A small instance of EtwSession: two owners of the shared kernel logger, a *)
(* private system logger and a user-mode trace that compete for one name,    *)
(* and a builder whose configuration start() refuses.  Two traces meet in    *)
(* one behaviour; the others are not started.                                *)
EXTENDS EtwSession

CONSTANTS k1, k2, p1, u1, bad

MCKernelLogger == "NT Kernel Logger"
MCTraces == {k1, k2, p1, u1, bad}

Conf(system, user, private) ==
    [name |-> "agent", nameLen |-> 1, system |-> system, user |-> user,
     private |-> private, minBuffers |-> 2, maxBuffers |-> 20]

MCBuilder ==
    [t \in MCTraces |->
        CASE t \in {k1, k2} -> Conf(1, 0, FALSE)
          [] t = p1 -> Conf(1, 0, TRUE)
          [] t = u1 -> Conf(0, 2, FALSE)
          [] t = bad -> Conf(0, 0, FALSE)]

\* The traces that meet: the two owners of the kernel logger, and the private
\* logger and the user-mode trace of its name.  Other tools use the names.
Meetings == {{k1, k2}, {p1, u1}, {bad}}

Meet ==
    \E S \in Meetings :
        /\ \A t \in MCTraces \ S : pc[t] = "idle"
        /\ p1 \notin S => table["agent"] = NoSession

MCSpec == Init /\ [][Next /\ Meet']_vars /\ Fairness
=============================================================================
