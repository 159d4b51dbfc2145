------------------------------ MODULE MCPGPool ------------------------------
(* A small instance of PGPool for TLC. *)
EXTENDS PGPool, TLC

CONSTANTS t1, t2, t3, c1, c2, c3, c4

NoLimit == -1

Symmetric == Permutations({t1, t2, t3}) \cup Permutations({c1, c2, c3, c4})
=============================================================================
