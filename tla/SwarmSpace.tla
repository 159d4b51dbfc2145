----------------------------- MODULE SwarmSpace -----------------------------
(***************************************************************************)
(* Which swarm an account belongs to (spns/swarmpubkey.cpp).  Swarm ids    *)
(* and account positions are points of the ring of 64-bit integers; an     *)
(* account belongs to the swarm nearest to its position.                   *)
(***************************************************************************)
EXTENDS Integers, FiniteSets

CONSTANT RingSize   \* 2^64

ASSUME RingAssumption == RingSize \in Nat /\ RingSize > 1

Ring == 0..(RingSize - 1)

INVALID_SWARM_ID == RingSize - 1

(* What get_service_nodes may report as swarms. *)
ValidIds == Ring \ {INVALID_SWARM_ID}

(* Subtraction of uint64_t values. *)
Minus(a, b) == (a - b) % RingSize

(* swarm_ids is a sorted vector without repetitions, here the set of its   *)
(* elements: begin() is its minimum and prev(end()) its maximum.           *)

Min(S) == CHOOSE x \in S : \A y \in S : x <= y
Max(S) == CHOOSE x \in S : \A y \in S : x >= y

(* Seeded fault: a position after the last swarm does not wrap around. *)
FaultNoWrap(ids, space) ==
    LET above == {x \in ids : x >= space}
    IN  IF above = {} THEN Max(ids) ELSE Min(above)

(* lower_bound, then the wrap from the last swarm to the first. *)
right_it(ids, space) ==
    LET above == {x \in ids : x >= space}
    IN  IF above = {} THEN Min(ids) ELSE Min(above)

(* Seeded fault: the swarm before the first is taken to be the second. *)
FaultLeftIsNext(ids, right) ==
    IF right = Min(ids) THEN Min(ids \ {right}) ELSE Max({x \in ids : x < right})

left_it(ids, right) ==
    IF right = Min(ids) THEN Max(ids) ELSE Max({x \in ids : x < right})

closest(ids, space) ==
    IF ids = {} THEN INVALID_SWARM_ID
    ELSE LET right == right_it(ids, space)
             left == left_it(ids, right)
             dright == Minus(right, space)
             dleft == Minus(space, left)
         IN  IF Cardinality(ids) = 1 \/ dright < dleft THEN right ELSE left

----------------------------------------------------------------------------
(* Reference definition: the distance of two points is the shorter way     *)
(* around the ring.                                                        *)
Distance(a, b) == IF Minus(a, b) < Minus(b, a) THEN Minus(a, b) ELSE Minus(b, a)

IsNearest(id, ids, space) ==
    id \in ids /\ \A x \in ids : Distance(space, id) <= Distance(space, x)
=============================================================================
