---------------------------- MODULE MCNamedPipe ----------------------------
(* A small instance of NamedPipe: two clients, one of them on the            *)
(* allow-list, and few messages in the two directions together.              *)
EXTENDS NamedPipe

CONSTANTS
    c1, c2,
    MaxTraffic   \* bound: messages in both directions

MCClients == {c1, c2}
MCAllowed == {c1}

MCSpec == Init /\ [][Next /\ (sent + wrote <= MaxTraffic)']_vars /\ CallReturns /\ AcceptLoop
=============================================================================
