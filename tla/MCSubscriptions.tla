-------------------------- MODULE MCSubscriptions --------------------------
(* A small instance of Subscriptions for TLC. *)
EXTENDS Subscriptions, TLC

CONSTANTS d1, d2, w1, w2, nsA, nsB, o1, o2

Symmetric ==
    Permutations({d1, d2}) \cup Permutations({w1, w2}) \cup
    Permutations({nsA, nsB}) \cup Permutations({o1, o2})
=============================================================================
