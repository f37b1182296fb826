----------------------------- MODULE Orderings -----------------------------
(* Sequences made of numbers, of parts of a sequence and of other sequences, *)
(* in the order a loop meets them.  Written without fold and recursion on    *)
(* sequences, so that proofs can unfold them.                                *)
EXTENDS Integers, Sequences, FiniteSets

\* The numbers of a finite set, the smallest first: the i-th is the one that i
\* of them do not exceed.
InOrder(S) ==
    [i \in 1 .. Cardinality(S) |-> CHOOSE k \in S : Cardinality({j \in S : j <= k}) = i]

\* The members of a sequence at the places of a set, in their order.
AtPlaces(s, S) == LET places == InOrder(S) IN [i \in DOMAIN places |-> s[places[i]]]

\* The members of a sequence that are in a set, in their order.
Filter(s, wanted) == AtPlaces(s, {k \in DOMAIN s : s[k] \in wanted})

\* Sequences one after the other.
Concat(l) ==
    LET upTo[n \in 0 .. Len(l)] == IF n = 0 THEN <<>> ELSE upTo[n-1] \o l[n]
    IN  upTo[Len(l)]
=============================================================================
