---------------------------- MODULE SwarmsProofs ----------------------------
(* Proofs about swarm membership.  First update_swarm (SwarmPubkey): the   *)
(* swarm that it finds is the nearest, on a ring of any size.  Then who is *)
(* asked to monitor what (Swarms), for every number of accounts, devices,  *)
(* nodes and swarms and every order of responses, subscriptions, merges    *)
(* and connections.                                                        *)
EXTENDS Swarms, SwarmPubkey, FiniteSetTheorems, WellFoundedInduction, TLAPS

(* A non-empty set of naturals has a least element. *)
LEMMA LeastExists ==
    ASSUME NEW T, T \subseteq Nat, T # {}
    PROVE  \E x \in T : \A y \in T : x <= y
<1> DEFINE R == {ss \in Nat \X Nat : ss[1] < ss[2]}
<1>1. IsWellFoundedOn(R, Nat)
  BY NatLessThanWellFounded DEF OpToRel
<1>2. \A x \in Nat : \A y \in Nat : x < y => <<x, y>> \in R
  OBVIOUS
<1> HIDE DEF R
<1>3. PICK x \in T : \A y \in T : ~(<<y, x>> \in R)
  BY <1>1, WFMin
<1>4. ASSUME NEW y \in T PROVE x <= y
  <2>1. x \in Nat /\ y \in Nat
    OBVIOUS
  <2>2. ~(y < x)
    BY <1>2, <1>3, <2>1
  <2>. QED BY <2>1, <2>2
<1>. QED BY <1>4

(* A non-empty set of points of the ring has a greatest element: the least *)
(* one of the mirrored set.                                                *)
LEMMA GreatestExists ==
    ASSUME NEW T, T \subseteq Ring, T # {}
    PROVE  \E x \in T : \A y \in T : x >= y
<1> DEFINE M == {RingSize - x : x \in T}
<1>1. M \subseteq Nat
  BY RingAssumption DEF Ring
<1>2. M # {}
  OBVIOUS
<1>3. \E m \in M : \A y \in M : m <= y
  <2> HIDE DEF M
  <2>. QED BY <1>1, <1>2, LeastExists
<1>4. PICK x \in T : \A y \in M : RingSize - x <= y
  BY <1>3
<1>5. ASSUME NEW y \in T PROVE x >= y
  <2>1. RingSize - x <= RingSize - y
    BY <1>4
  <2>. QED BY <2>1, RingAssumption DEF Ring
<1>. QED BY <1>5

LEMMA MinProperty ==
    ASSUME NEW T, T \subseteq Ring, T # {}
    PROVE  Min(T) \in T /\ \A y \in T : Min(T) <= y
<1>1. T \subseteq Nat
  BY RingAssumption DEF Ring
<1>2. \E x \in T : \A y \in T : x <= y
  BY <1>1, LeastExists
<1>. QED BY <1>2 DEF Min

LEMMA MaxProperty ==
    ASSUME NEW T, T \subseteq Ring, T # {}
    PROVE  Max(T) \in T /\ \A y \in T : Max(T) >= y
BY GreatestExists DEF Max

----------------------------------------------------------------------------
(* Unsigned subtraction without the modulus. *)
LEMMA MinusCases ==
    ASSUME NEW a \in Ring, NEW b \in Ring
    PROVE  Minus(a, b) = IF a >= b THEN a - b ELSE a - b + RingSize
<1>1. ASSUME NEW x \in 0..(RingSize - 1) PROVE x % RingSize = x
  BY RingAssumption
<1>2. ASSUME NEW x \in 1..(RingSize - 1) PROVE (x - RingSize) % RingSize = x
  BY RingAssumption
<1>3. CASE a >= b
  <2>1. a - b \in 0..(RingSize - 1)
    BY <1>3, RingAssumption DEF Ring
  <2>2. (a - b) % RingSize = a - b
    BY <1>1, <2>1
  <2>. QED BY <1>3, <2>2 DEF Minus
<1>4. CASE ~(a >= b)
  <2>1. a - b + RingSize \in 1..(RingSize - 1)
    BY <1>4, RingAssumption DEF Ring
  <2>2. a - b = (a - b + RingSize) - RingSize
    BY RingAssumption DEF Ring
  <2>3. (a - b) % RingSize = a - b + RingSize
    BY <1>2, <2>1, <2>2
  <2>. QED BY <1>4, <2>3 DEF Minus
<1>. QED BY <1>3, <1>4

(* The two swarms next to a position s: right is the first one met going   *)
(* up from s, left the first one met going down from below right.          *)

LEMMA RightProperty ==
    ASSUME NEW ids, ids \subseteq Ring, ids # {}, NEW s \in Ring
    PROVE  /\ right_it(ids, s) \in ids
           /\ \A x \in ids : Minus(right_it(ids, s), s) <= Minus(x, s)
<1> DEFINE above == {x \in ids : x >= s}
<1>1. CASE above = {}
  <2>1. right_it(ids, s) = Min(ids)
    BY <1>1 DEF right_it
  <2>2. Min(ids) \in ids /\ \A y \in ids : Min(ids) <= y
    BY MinProperty
  <2>3. ASSUME NEW x \in ids PROVE Minus(Min(ids), s) <= Minus(x, s)
    <3>1. Min(ids) \in Ring /\ x \in Ring /\ Min(ids) <= x
      BY <2>2
    <3>2. ~(x >= s) /\ ~(Min(ids) >= s)
      BY <1>1, <2>2
    <3>. QED BY <3>1, <3>2, RingAssumption, MinusCases DEF Ring
  <2>. QED BY <2>1, <2>2, <2>3
<1>2. CASE above # {}
  <2>1. right_it(ids, s) = Min(above)
    BY <1>2 DEF right_it
  <2>2. Min(above) \in above /\ \A y \in above : Min(above) <= y
    <3>1. above \subseteq Ring
      OBVIOUS
    <3> HIDE DEF above
    <3>. QED BY <1>2, <3>1, MinProperty
  <2>3. Min(above) \in ids /\ Min(above) >= s
    BY <2>2
  <2>4. ASSUME NEW x \in ids PROVE Minus(Min(above), s) <= Minus(x, s)
    <3>1. Min(above) \in Ring /\ x \in Ring
      BY <2>3
    <3>2. x >= s => Min(above) <= x
      BY <2>2
    <3> HIDE DEF above
    <3>. QED BY <2>3, <3>1, <3>2, RingAssumption, MinusCases DEF Ring
  <2>. QED BY <2>1, <2>3, <2>4
<1>. QED BY <1>1, <1>2

LEMMA LeftProperty ==
    ASSUME NEW ids, ids \subseteq Ring, ids # {}, NEW s \in Ring
    PROVE  LET left == left_it(ids, right_it(ids, s))
           IN  /\ left \in ids
               /\ s \notin ids => \A x \in ids : Minus(s, left) <= Minus(s, x)
<1> DEFINE above == {x \in ids : x >= s}
           right == right_it(ids, s)
           below == {x \in ids : x < right}
           left == left_it(ids, right)
<1>1. right \in ids
  BY RightProperty
<1>2. Min(ids) \in ids /\ \A y \in ids : Min(ids) <= y
  BY MinProperty
<1>3. Max(ids) \in ids /\ \A y \in ids : Max(ids) >= y
  BY MaxProperty
<1>4. CASE right = Min(ids)
  <2>1. left = Max(ids)
    BY <1>4 DEF left_it
  <2>2. ASSUME s \notin ids, NEW x \in ids PROVE Minus(s, Max(ids)) <= Minus(s, x)
    <3>1. x \in Ring /\ Max(ids) \in Ring /\ x <= Max(ids) /\ x # s /\ Max(ids) # s
      BY <1>3, <2>2
    <3>2. x < s => Max(ids) < s
      <4>1. SUFFICES ASSUME x < s, Max(ids) >= s PROVE FALSE
        BY <3>1 DEF Ring
      <4>2. above # {} /\ x \notin above
        BY <4>1, <1>3, <3>1 DEF Ring
      <4>3. right = Min(above)
        BY <4>2 DEF right_it
      <4>4. Min(above) \in above
        <5>1. above \subseteq Ring
          OBVIOUS
        <5> HIDE DEF above
        <5>. QED BY <4>2, <5>1, MinProperty
      <4>5. Min(ids) >= s
        BY <4>3, <4>4, <1>4
      <4>6. Min(ids) <= x /\ Min(ids) \in Ring
        BY <1>2, <2>2
      <4>. QED BY <4>1, <4>5, <4>6, <3>1 DEF Ring
    <3>. QED BY <3>1, <3>2, RingAssumption, MinusCases DEF Ring
  <2>. QED BY <2>1, <2>2, <1>3
<1>5. CASE right # Min(ids)
  <2>1. right = Min(above) /\ above # {}
    BY <1>5 DEF right_it
  <2>2. Min(above) \in above /\ \A y \in above : Min(above) <= y
    <3>1. above \subseteq Ring
      OBVIOUS
    <3> HIDE DEF above
    <3>. QED BY <2>1, <3>1, MinProperty
  <2>3. Min(ids) \in below
    <3>1. Min(ids) <= right /\ Min(ids) \in Ring /\ right \in Ring
      BY <1>1, <1>2
    <3>2. Min(ids) < right
      BY <3>1, <1>5 DEF Ring
    <3>. QED BY <3>2, <1>2
  <2>4. left = Max(below)
    BY <1>5 DEF left_it
  <2>5. Max(below) \in below /\ \A y \in below : Max(below) >= y
    <3>1. below \subseteq Ring
      OBVIOUS
    <3> HIDE DEF below
    <3>. QED BY <2>3, <3>1, MaxProperty
  <2>6. left \in ids /\ left < right
    BY <2>4, <2>5
  <2>7. ASSUME s \notin ids, NEW x \in ids PROVE Minus(s, left) <= Minus(s, x)
    <3>1. x \in Ring /\ left \in Ring /\ right \in Ring /\ x # s
      BY <1>1, <2>6, <2>7
    <3>2. right >= s
      BY <2>1, <2>2
    <3>3. left < s
      <4>1. ~(left >= s)
        <5>1. SUFFICES ASSUME left >= s PROVE FALSE
          OBVIOUS
        <5>2. left \in above
          BY <5>1, <2>6
        <5>3. right <= left
          BY <5>2, <2>1, <2>2
        <5>. QED BY <5>3, <2>6, <3>1 DEF Ring
      <4>. QED BY <4>1, <3>1 DEF Ring
    <3>4. x < s => x <= left
      <4>1. SUFFICES ASSUME x < s PROVE x <= left
        OBVIOUS
      <4>2. x < right
        BY <4>1, <3>1, <3>2 DEF Ring
      <4>3. x \in below
        BY <4>2
      <4>. QED BY <4>3, <2>4, <2>5, <3>1 DEF Ring
    <3> HIDE DEF left, right, above, below
    <3>. QED BY <3>1, <3>3, <3>4, RingAssumption, MinusCases DEF Ring
  <2>. QED BY <2>6, <2>7
<1>. QED BY <1>4, <1>5

(* The code's special case for a single swarm gives what the general case  *)
(* gives.                                                                  *)
LEMMA ClosestChoice ==
    ASSUME NEW ids, ids \subseteq Ring, ids # {}, NEW s \in Ring
    PROVE  LET right == right_it(ids, s)
               left == left_it(ids, right)
           IN  closest(ids, s) = IF Minus(right, s) < Minus(s, left) THEN right ELSE left
<1> DEFINE right == right_it(ids, s)
           left == left_it(ids, right)
<1>1. right \in ids /\ left \in ids
  BY RightProperty, LeftProperty
<1>2. IsFiniteSet(ids)
  <2>1. IsFiniteSet(Ring)
    BY RingAssumption, FS_Interval DEF Ring
  <2>. QED BY <2>1, FS_Subset
<1>3. Cardinality(ids) = 1 => right = left
  <2>1. SUFFICES ASSUME Cardinality(ids) = 1 PROVE right = left
    OBVIOUS
  <2>2. PICK e : ids = {e}
    BY <2>1, <1>2, FS_Singleton
  <2>. QED BY <2>2, <1>1
<1>4. closest(ids, s) = IF Cardinality(ids) = 1 \/ Minus(right, s) < Minus(s, left)
                        THEN right ELSE left
  BY DEF closest
<1> HIDE DEF right, left
<1>5. closest(ids, s) = IF Minus(right, s) < Minus(s, left) THEN right ELSE left
  BY <1>3, <1>4
<1>. QED BY <1>5 DEF right, left

(* The result is at least as near going down as every swarm either way, or *)
(* at least as near going up and strictly nearer than all those below.     *)
LeftBest(c, ids, s) ==
    \A x \in ids : Minus(s, c) <= Minus(s, x) /\ Minus(s, c) <= Minus(x, s)
RightBest(c, ids, s) ==
    \A x \in ids : Minus(c, s) <= Minus(x, s) /\ Minus(c, s) < Minus(s, x)

LEMMA MinusInRing ==
    ASSUME NEW a \in Ring, NEW b \in Ring
    PROVE  Minus(a, b) \in Nat /\ (Minus(a, b) = 0 <=> a = b)
BY RingAssumption, MinusCases DEF Ring

LEMMA ClosestBest ==
    ASSUME NEW ids, ids \subseteq Ring, ids # {}, NEW s \in Ring
    PROVE  /\ closest(ids, s) \in ids
           /\ LeftBest(closest(ids, s), ids, s) \/ RightBest(closest(ids, s), ids, s)
<1> DEFINE right == right_it(ids, s)
           left == left_it(ids, right)
           c == closest(ids, s)
<1>1. right \in ids /\ \A x \in ids : Minus(right, s) <= Minus(x, s)
  BY RightProperty
<1>2. left \in ids /\ (s \notin ids => \A x \in ids : Minus(s, left) <= Minus(s, x))
  BY LeftProperty
<1>3. c = IF Minus(right, s) < Minus(s, left) THEN right ELSE left
  BY ClosestChoice
<1>4. c \in ids
  BY <1>1, <1>2, <1>3
<1> HIDE DEF right, left, c
<1>5. /\ Minus(right, s) \in Nat /\ Minus(s, left) \in Nat
      /\ \A x \in ids : Minus(s, x) \in Nat /\ Minus(x, s) \in Nat
  BY <1>1, <1>2, MinusInRing
<1>6. CASE s \in ids
  <2>1. Minus(s, s) = 0 /\ Minus(right, s) = 0
    BY <1>1, <1>5, <1>6, MinusInRing
  <2>2. right = s
    BY <2>1, <1>1, MinusInRing
  <2>3. c = s
    <3>1. CASE Minus(right, s) < Minus(s, left)
      BY <3>1, <1>3, <2>2
    <3>2. CASE ~(Minus(right, s) < Minus(s, left))
      <4>1. Minus(s, left) = 0
        BY <3>2, <2>1, <1>5
      <4>. QED BY <4>1, <1>2, <1>3, <3>2, MinusInRing
    <3>. QED BY <3>1, <3>2
  <2>4. LeftBest(c, ids, s)
    BY <2>1, <2>3, <1>5 DEF LeftBest
  <2>. QED BY <1>4, <2>4 DEF c
<1>7. CASE s \notin ids
  <2>1. CASE Minus(right, s) < Minus(s, left)
    <3>1. c = right
      BY <2>1, <1>3
    <3>2. ASSUME NEW x \in ids
          PROVE  Minus(c, s) <= Minus(x, s) /\ Minus(c, s) < Minus(s, x)
      BY <3>1, <2>1, <1>1, <1>2, <1>5, <1>7
    <3>3. RightBest(c, ids, s)
      BY <3>2 DEF RightBest
    <3>. QED BY <3>3, <1>4 DEF c
  <2>2. CASE ~(Minus(right, s) < Minus(s, left))
    <3>1. c = left
      BY <2>2, <1>3
    <3>2. ASSUME NEW x \in ids
          PROVE  Minus(s, c) <= Minus(s, x) /\ Minus(s, c) <= Minus(x, s)
      BY <3>1, <2>2, <1>1, <1>2, <1>5, <1>7
    <3>3. LeftBest(c, ids, s)
      BY <3>2 DEF LeftBest
    <3>. QED BY <3>3, <1>4 DEF c
  <2>. QED BY <2>1, <2>2
<1>. QED BY <1>6, <1>7

(* Whatever the ring and the swarms, closest finds a swarm that no other   *)
(* one is nearer than, in either direction around the ring.                *)
THEOREM ClosestIsNearest ==
    ASSUME NEW ids, ids \subseteq Ring, ids # {}, NEW s \in Ring
    PROVE  IsNearest(closest(ids, s), ids, s)
<1> DEFINE c == closest(ids, s)
<1>1. c \in ids /\ (LeftBest(c, ids, s) \/ RightBest(c, ids, s))
  BY ClosestBest
<1> HIDE DEF c
<1>2. ASSUME NEW x \in ids PROVE Distance(s, c) <= Distance(s, x)
  <2>1. /\ Minus(s, c) \in Nat /\ Minus(c, s) \in Nat
        /\ Minus(s, x) \in Nat /\ Minus(x, s) \in Nat
    BY <1>1, MinusInRing
  <2>2. \/ Minus(s, c) <= Minus(s, x) /\ Minus(s, c) <= Minus(x, s)
        \/ Minus(c, s) <= Minus(x, s) /\ Minus(c, s) < Minus(s, x)
    BY <1>1 DEF LeftBest, RightBest
  <2>. QED BY <2>1, <2>2 DEF Distance
<1>. QED BY <1>1, <1>2 DEF IsNearest, c

----------------------------------------------------------------------------
(* The swarm that the code picks is a point of the ring. *)
LEMMA ClosestInRing ==
    ASSUME NEW ids, ids \subseteq Ring, NEW s \in Ring
    PROVE  closest(ids, s) \in Ring
<1>1. CASE ids = {}
  BY <1>1, RingAssumption DEF closest, INVALID_SWARM_ID, Ring
<1>2. CASE ids # {}
  BY <1>2, ClosestBest
<1>. QED BY <1>1, <1>2

(* One account, as SwarmPubkey describes it: between two updates its swarm *)
(* is what closest returns, so that ties are no choice.                    *)
PubkeyInv == PubkeyTypeOK /\ swarm = closest(swarm_ids, swarm_space)

LEMMA PubkeyInvAlways == PubkeySpec => []PubkeyInv
<1>1. PubkeyInit => PubkeyInv
  BY RingAssumption DEF PubkeyInit, PubkeyInv, PubkeyTypeOK, closest, INVALID_SWARM_ID, Ring
<1>2. PubkeyInv /\ [PubkeyNext]_pubkeyVars => PubkeyInv'
  <2>1. ASSUME PubkeyInv, NEW ids \in SUBSET ValidIds, update_swarm(ids) PROVE PubkeyInv'
    BY <2>1, ClosestInRing DEF PubkeyInv, PubkeyTypeOK, update_swarm, ValidIds
  <2>2. ASSUME PubkeyInv, UNCHANGED pubkeyVars PROVE PubkeyInv'
    BY <2>2 DEF PubkeyInv, PubkeyTypeOK, pubkeyVars
  <2>. QED BY <2>1, <2>2 DEF PubkeyNext
<1>. QED BY <1>1, <1>2, PTL DEF PubkeySpec

(* After every update_swarm the account's swarm is the nearest one, on a   *)
(* ring of any size and for any swarms.                                    *)
THEOREM NearestSwarmHolds == PubkeySpec => []NearestSwarm
<1>1. PubkeyInv => NearestSwarm
  <2> SUFFICES ASSUME PubkeyInv PROVE NearestSwarm
    OBVIOUS
  <2>1. swarm_space \in Ring /\ swarm_ids \subseteq Ring
    BY DEF PubkeyInv, PubkeyTypeOK, ValidIds
  <2>2. CASE swarm_ids = {}
    BY <2>2 DEF PubkeyInv, NearestSwarm, closest
  <2>3. CASE swarm_ids # {}
    BY <2>1, <2>3, ClosestIsNearest DEF PubkeyInv, NearestSwarm
  <2>. QED BY <2>2, <2>3
<1>. QED BY <1>1, PubkeyInvAlways, PTL

(* Two updates disagree about an account only if one of them does not know *)
(* the swarm that the other one chose.                                     *)
LEMMA SameChoice ==
    ASSUME NEW old, old \subseteq Ring, old # {}, NEW new, new \subseteq Ring, new # {},
           NEW s \in Ring, closest(old, s) \in new, closest(new, s) \in old
    PROVE  closest(old, s) = closest(new, s)
<1> DEFINE c == closest(old, s)
           d == closest(new, s)
<1>1. /\ c \in old /\ (LeftBest(c, old, s) \/ RightBest(c, old, s))
      /\ d \in new /\ (LeftBest(d, new, s) \/ RightBest(d, new, s))
  BY ClosestBest
<1>2. c \in new /\ d \in old
  OBVIOUS
<1> HIDE DEF c, d
<1>3. c \in Ring /\ d \in Ring
  BY <1>1
<1>4. \/ Minus(s, c) <= Minus(s, d) /\ Minus(s, c) <= Minus(d, s)
      \/ Minus(c, s) <= Minus(d, s) /\ Minus(c, s) < Minus(s, d)
  BY <1>1, <1>2 DEF LeftBest, RightBest
<1>5. \/ Minus(s, d) <= Minus(s, c) /\ Minus(s, d) <= Minus(c, s)
      \/ Minus(d, s) <= Minus(c, s) /\ Minus(d, s) < Minus(s, c)
  BY <1>1, <1>2 DEF LeftBest, RightBest
<1>6. /\ Minus(s, c) \in Nat /\ Minus(c, s) \in Nat
      /\ Minus(s, d) \in Nat /\ Minus(d, s) \in Nat
  BY <1>3, MinusInRing
<1>7. Minus(s, c) = Minus(s, d) \/ Minus(c, s) = Minus(d, s)
  BY <1>4, <1>5, <1>6
<1>8. c = d
  BY <1>3, <1>7, RingAssumption, MinusCases DEF Ring
<1>. QED BY <1>8 DEF c, d

(* An account changes its swarm only to one that has just appeared, or     *)
(* because its own has gone, ties included.                                *)
THEOREM MovesOnlyIfNeededHolds == PubkeySpec => MovesOnlyIfNeeded
<1>1. PubkeyInv /\ [PubkeyNext]_pubkeyVars =>
        [swarm' # swarm => swarm \notin swarm_ids' \/ swarm' \notin swarm_ids]_pubkeyVars
  <2> SUFFICES ASSUME PubkeyInv, NEW ids \in SUBSET ValidIds, update_swarm(ids),
                      swarm \in ids, swarm' \in swarm_ids
               PROVE  swarm' = swarm
    BY DEF PubkeyNext, update_swarm
  <2>1. swarm_ids \subseteq Ring /\ ids \subseteq Ring /\ swarm_space \in Ring
    BY DEF PubkeyInv, PubkeyTypeOK, ValidIds
  <2>2. swarm_ids # {} /\ ids # {}
    OBVIOUS
  <2>3. swarm = closest(swarm_ids, swarm_space) /\ swarm' = closest(ids, swarm_space)
    BY DEF PubkeyInv, update_swarm
  <2>. QED BY <2>1, <2>2, <2>3, SameChoice
<1>. QED BY <1>1, PubkeyInvAlways, PTL DEF PubkeySpec, MovesOnlyIfNeeded

----------------------------------------------------------------------------
(* Swarms: types.                                                          *)
LEMMA IdsOfType ==
    ASSUME NEW block \in Blocks
    PROVE  IdsOf(block) \in SUBSET SwarmIds
BY DEF IdsOf, Blocks

LEMMA SwarmIdsInRing == SwarmIds \subseteq Ring /\ INVALID_SWARM_ID \in Ring
BY SwarmsAssumptions, RingAssumption DEF ValidIds, Ring, INVALID_SWARM_ID

----------------------------------------------------------------------------
(* What one pass of check_subs does: nothing becomes due, and an account   *)
(* is submitted with all its current settings, or nothing changes for it.  *)
NodeAccounts == [Nodes -> SUBSET Accounts]
NodeSettings == [Nodes -> [Accounts -> SUBSET Settings]]

LEMMA CheckSubsEffect ==
    ASSUME NEW conns, NEW d \in NodeAccounts, NEW sub \in NodeSettings,
           subscribers_ \in [Accounts -> SUBSET Settings], untold \in NodeSettings,
           check_subs(conns, d, sub)
    PROVE  /\ due' \in NodeAccounts
           /\ submitted' \in NodeSettings /\ untold' \in NodeSettings
           /\ \A n \in Nodes : due'[n] \subseteq d[n]
           /\ \A n \in Nodes, a \in Accounts :
                \/ submitted'[n][a] = Current(a)
                \/ /\ submitted'[n][a] = sub[n][a] /\ untold'[n][a] = untold[n][a]
                   /\ a \in d[n] => a \in due'[n]
<1>1. PICK sent \in NodeAccounts :
        /\ due' = [n \in Nodes |-> d[n] \ sent[n]]
        /\ submitted' = [n \in Nodes |-> [a \in Accounts |->
                IF a \in sent[n] THEN Current(a) ELSE sub[n][a]]]
        /\ untold' = [n \in Nodes |-> [a \in Accounts |->
                IF a \in sent[n] THEN {} ELSE untold[n][a]]]
  BY DEF check_subs, NodeAccounts
<1>2. due' \in NodeAccounts /\ \A n \in Nodes : due'[n] \subseteq d[n]
  BY <1>1 DEF NodeAccounts
<1>3. submitted' \in NodeSettings
  <2>1. ASSUME NEW n \in Nodes, NEW a \in Accounts
        PROVE  (IF a \in sent[n] THEN Current(a) ELSE sub[n][a]) \in SUBSET Settings
    <3>1. sub[n][a] \in SUBSET Settings /\ Current(a) \in SUBSET Settings
      BY DEF NodeSettings, Current
    <3>. QED BY <3>1
  <2>. QED BY <1>1, <2>1 DEF NodeSettings
<1>4. untold' \in NodeSettings
  <2>1. ASSUME NEW n \in Nodes, NEW a \in Accounts
        PROVE  (IF a \in sent[n] THEN {} ELSE untold[n][a]) \in SUBSET Settings
    BY DEF NodeSettings
  <2>. QED BY <1>1, <2>1 DEF NodeSettings
<1>5. ASSUME NEW n \in Nodes, NEW a \in Accounts
      PROVE  \/ submitted'[n][a] = Current(a)
             \/ /\ submitted'[n][a] = sub[n][a] /\ untold'[n][a] = untold[n][a]
                /\ a \in d[n] => a \in due'[n]
  BY <1>1
<1>. QED BY <1>2, <1>3, <1>4, <1>5

----------------------------------------------------------------------------
(* Type correctness.  TypeOK also says that accounts are due only where    *)
(* they are on the list, and that a node that has left has no list.        *)

TypesOfMembers ==
    /\ subs_ \in NodeAccounts
    /\ entrySwarm \in [Nodes -> [Accounts -> Ring]]
    /\ due \in NodeAccounts
    /\ submitted \in NodeSettings
    /\ \A n \in Nodes : due[n] \subseteq subs_[n] /\ (subs_[n] # {} => n \in sns_)

TypesOfNetwork ==
    /\ swarm_ids_ \in SUBSET SwarmIds
    /\ sns_ \in SUBSET Nodes
    /\ nodeSwarm \in [Nodes -> SwarmIds \cup {INVALID_SWARM_ID}]
    /\ connected_ \in SUBSET sns_

TypesOfMemory ==
    /\ rows \in [Accounts \X Devices -> Settings \cup {NoRow}]
    /\ merges \in SUBSET Merges /\ txns \in Nat
    /\ subscribers_ \in [Accounts -> SUBSET Settings]
    /\ stale \in [Accounts -> SUBSET Settings]
    /\ pkSwarm \in [Accounts -> Ring]

TypesOfHistory == missed \in SUBSET Accounts /\ untold \in NodeSettings

LEMMA TypeParts ==
    TypeOK <=> TypesOfMembers /\ TypesOfNetwork /\ TypesOfMemory /\ TypesOfHistory
BY DEF TypeOK, TypesOfMembers, TypesOfNetwork, TypesOfMemory, TypesOfHistory,
       NodeAccounts, NodeSettings

LEMMA TypePartsNext ==
    TypesOfMembers' /\ TypesOfNetwork' /\ TypesOfMemory' /\ TypesOfHistory' => TypeOK'
BY DEF TypeOK, TypesOfMembers, TypesOfNetwork, TypesOfMemory, TypesOfHistory,
       NodeAccounts, NodeSettings

LEMMA NothingType == Nothing \in [Accounts -> SUBSET Settings]
BY DEF Nothing

LEMMA InitTypeOK == Init => TypeOK
<1> SUFFICES ASSUME Init PROVE TypeOK
  OBVIOUS
<1>1. TypesOfMembers
  BY SwarmIdsInRing DEF Init, TypesOfMembers, NodeAccounts, NodeSettings, NoSwarm, Nothing
<1>2. TypesOfNetwork
  BY DEF Init, TypesOfNetwork
<1>3. TypesOfMemory
  <2>1. PICK expired \in SUBSET (Accounts \X Devices) :
          subscribers_ = [a \in Accounts |->
            {rows[<<a, d>>] : d \in {e \in Devices : <<a, e>> \notin expired}} \ {NoRow}]
    BY DEF Init, load_saved_subscriptions
  <2>2. rows \in [Accounts \X Devices -> Settings \cup {NoRow}]
    BY DEF Init
  <2>3. ASSUME NEW a \in Accounts
        PROVE  {rows[<<a, d>>] : d \in {e \in Devices : <<a, e>> \notin expired}} \ {NoRow}
                    \in SUBSET Settings
    BY <2>2
  <2>4. subscribers_ \in [Accounts -> SUBSET Settings]
    BY <2>1, <2>3
  <2>5. pkSwarm \in [Accounts -> Ring]
    BY SwarmIdsInRing DEF Init, NoSwarm
  <2>6. stale \in [Accounts -> SUBSET Settings]
    BY NothingType DEF Init
  <2>. QED BY <2>2, <2>4, <2>5, <2>6 DEF Init, TypesOfMemory
<1>4. TypesOfHistory
  BY DEF Init, TypesOfHistory, NodeSettings, Nothing
<1>. QED BY <1>1, <1>2, <1>3, <1>4, TypeParts

(* The update of the node list, without a recheck. *)
LEMMA UpdateNodesType ==
    ASSUME TypesOfMembers, TypesOfNetwork, NEW block \in Blocks,
           NEW nodes \in SUBSET Listable(block), NEW done \in SUBSET nodes, NEW readdressed,
           swarm_ids_' = IdsOf(block),
           UpdateNodes(block, nodes, done, readdressed)
    PROVE  TypesOfMembers' /\ TypesOfNetwork'
<1> DEFINE now == (sns_ \cap nodes) \cup done
           same == {n \in now : n \notin done \/ n \in Unmoved(block, nodes)}
<1>1. /\ sns_' = now
      /\ nodeSwarm' = [n \in Nodes |-> IF n \notin now THEN INVALID_SWARM_ID
                                       ELSE IF n \in done THEN block[n]
                                       ELSE nodeSwarm[n]]
      /\ connected_' = (connected_ \cap now) \ readdressed
      /\ subs_' = [n \in Nodes |-> IF n \in same THEN subs_[n] ELSE {}]
      /\ due' = [n \in Nodes |-> IF n \in same THEN due[n] ELSE {}]
      /\ submitted' = [n \in Nodes |->
                IF n \in connected_ \cap now /\ n \notin readdressed
                THEN submitted[n] ELSE Nothing]
      /\ entrySwarm' = entrySwarm
  BY DEF UpdateNodes
<1>2. now \in SUBSET Nodes /\ same \subseteq now
  BY DEF Listable, TypesOfNetwork
<1> HIDE DEF now, same
<1>3. TypesOfNetwork'
  <2>1. nodeSwarm' \in [Nodes -> SwarmIds \cup {INVALID_SWARM_ID}]
    BY <1>1 DEF TypesOfNetwork, Blocks
  <2>. QED BY <1>1, <1>2, <2>1, IdsOfType DEF TypesOfNetwork
<1>4. TypesOfMembers'
  <2>1. subs_' \in NodeAccounts /\ due' \in NodeAccounts
    BY <1>1 DEF TypesOfMembers, NodeAccounts
  <2>2. submitted' \in NodeSettings
    BY <1>1, NothingType DEF TypesOfMembers, NodeSettings
  <2>3. \A n \in Nodes : due'[n] \subseteq subs_'[n] /\ (subs_'[n] # {} => n \in sns_')
    BY <1>1, <1>2 DEF TypesOfMembers
  <2>. QED BY <1>1, <2>1, <2>2, <2>3 DEF TypesOfMembers
<1>. QED BY <1>3, <1>4

(* The full recheck: every listed node has the accounts of its swarm, and  *)
(* those that were not on its list are due, or were sent at once.          *)
LEMMA RecheckEffect ==
    ASSUME TypesOfMembers, TypesOfNetwork, TypesOfMemory, TypesOfHistory,
           NEW block \in Blocks, NEW nodes \in SUBSET Listable(block), NEW readdressed,
           swarm_ids_' = IdsOf(block),
           Recheck(block, nodes, readdressed)
    PROVE  /\ TypesOfMembers' /\ TypesOfNetwork' /\ pkSwarm' \in [Accounts -> Ring]
           /\ untold' \in NodeSettings
           /\ \A n \in sns_' : \A a \in Subscribed :
                closest(swarm_ids_', Position[a]) = nodeSwarm'[n] => a \in subs_'[n]
           /\ connected_' \subseteq connected_
           /\ \A n \in connected_', a \in Accounts : a \in subs_'[n] =>
                \/ a \in due'[n]
                \/ submitted'[n][a] = Current(a)
                \/ /\ a \in subs_[n] \ due[n]
                   /\ submitted'[n][a] = submitted[n][a] /\ untold'[n][a] = untold[n][a]
<1> DEFINE sw == [a \in Accounts |-> IF a \in Subscribed
                                     THEN closest(IdsOf(block), Position[a])
                                     ELSE pkSwarm[a]]
           held(n) == IF n \in Unmoved(block, nodes) THEN Remaining(block, n) ELSE {}
           added(n) == BelongsTo(block, n, sw) \ held(n)
           conns == (connected_ \cap nodes) \ readdressed
           d == [n \in Nodes |-> IF n \in nodes
                                 THEN (due[n] \cap held(n)) \cup added(n) ELSE {}]
           sub == [n \in Nodes |-> IF n \in conns THEN submitted[n] ELSE Nothing]
<1>1. /\ pkSwarm' = sw
      /\ sns_' = nodes /\ connected_' = conns
      /\ nodeSwarm' = [n \in Nodes |-> IF n \in nodes THEN block[n] ELSE INVALID_SWARM_ID]
      /\ subs_' = [n \in Nodes |-> IF n \in nodes THEN held(n) \cup added(n) ELSE {}]
      /\ entrySwarm' = [n \in Nodes |-> [a \in Accounts |->
                IF n \in nodes /\ a \in added(n) THEN sw[a] ELSE entrySwarm[n][a]]]
      /\ check_subs(conns, d, sub)
  BY DEF Recheck
<1>2. sw \in [Accounts -> Ring]
  <2>1. IdsOf(block) \subseteq Ring
    BY IdsOfType, SwarmIdsInRing
  <2>2. ASSUME NEW a \in Accounts PROVE closest(IdsOf(block), Position[a]) \in Ring
    BY <2>1, ClosestInRing, SwarmsAssumptions
  <2>. QED BY <2>2 DEF TypesOfMemory
<1>3. nodes \in SUBSET Nodes /\ conns \subseteq nodes /\ conns \subseteq connected_
  BY DEF Listable
<1>4. \A n \in Nodes : /\ held(n) \subseteq subs_[n] /\ held(n) \subseteq Accounts
                       /\ added(n) \subseteq Accounts
  BY DEF Remaining, BelongsTo, Subscribed, TypesOfMembers, NodeAccounts
<1>5. \A n \in Nodes : \A a \in Subscribed : sw[a] = block[n] => a \in held(n) \cup added(n)
  BY DEF BelongsTo
<1>6. \A a \in Subscribed : a \in Accounts /\ sw[a] = closest(IdsOf(block), Position[a])
  BY DEF Subscribed
<1> HIDE DEF sw, held, added, conns
<1>7. d \in NodeAccounts
  BY <1>4 DEF NodeAccounts
<1>8. sub \in NodeSettings
  BY NothingType DEF NodeSettings, TypesOfMembers
<1>9. /\ \A n \in nodes : d[n] = (due[n] \cap held(n)) \cup added(n)
      /\ \A n \in Nodes \ nodes : d[n] = {}
      /\ \A n \in conns : sub[n] = submitted[n]
  BY <1>3
<1> HIDE DEF d, sub
<1>10. /\ due' \in NodeAccounts
       /\ submitted' \in NodeSettings /\ untold' \in NodeSettings
       /\ \A n \in Nodes : due'[n] \subseteq d[n]
       /\ \A n \in Nodes, a \in Accounts :
            \/ submitted'[n][a] = Current(a)
            \/ /\ submitted'[n][a] = sub[n][a] /\ untold'[n][a] = untold[n][a]
               /\ a \in d[n] => a \in due'[n]
  BY <1>1, <1>7, <1>8, CheckSubsEffect DEF TypesOfMemory, TypesOfHistory
<1>11. TypesOfNetwork'
  <2>1. nodeSwarm' \in [Nodes -> SwarmIds \cup {INVALID_SWARM_ID}]
    BY <1>1 DEF Blocks
  <2>. QED BY <1>1, <1>3, <2>1, IdsOfType DEF TypesOfNetwork
<1>12. TypesOfMembers'
  <2>1. subs_' \in NodeAccounts
    BY <1>1, <1>4 DEF NodeAccounts
  <2>2. entrySwarm' \in [Nodes -> [Accounts -> Ring]]
    <3>1. ASSUME NEW n \in Nodes, NEW a \in Accounts
          PROVE  (IF n \in nodes /\ a \in added(n) THEN sw[a] ELSE entrySwarm[n][a]) \in Ring
      BY <1>2 DEF TypesOfMembers
    <3>. QED BY <1>1, <3>1
  <2>3. ASSUME NEW n \in Nodes
        PROVE  due'[n] \subseteq subs_'[n] /\ (subs_'[n] # {} => n \in sns_')
    <3>1. CASE n \in nodes
      BY <1>1, <1>9, <1>10, <3>1
    <3>2. CASE n \notin nodes
      BY <1>1, <1>9, <1>10, <3>2
    <3>. QED BY <3>1, <3>2
  <2>. QED BY <1>10, <2>1, <2>2, <2>3 DEF TypesOfMembers
<1>13. ASSUME NEW n \in sns_', NEW a \in Subscribed,
              closest(swarm_ids_', Position[a]) = nodeSwarm'[n]
       PROVE  a \in subs_'[n]
  <2>1. n \in Nodes /\ n \in nodes /\ nodeSwarm'[n] = block[n]
    BY <1>1, <1>3
  <2>2. sw[a] = block[n]
    BY <1>6, <1>13, <2>1
  <2>. QED BY <1>1, <1>5, <2>1, <2>2
<1>14. ASSUME NEW n \in connected_', NEW a \in Accounts, a \in subs_'[n]
       PROVE  \/ a \in due'[n]
              \/ submitted'[n][a] = Current(a)
              \/ /\ a \in subs_[n] \ due[n]
                 /\ submitted'[n][a] = submitted[n][a] /\ untold'[n][a] = untold[n][a]
  <2>1. n \in conns /\ n \in nodes /\ n \in Nodes
    BY <1>1, <1>3
  <2>2. a \in held(n) \/ a \in added(n)
    BY <1>1, <1>14, <2>1
  <2>3. sub[n][a] = submitted[n][a]
    BY <1>9, <2>1
  <2>. QED BY <1>4, <1>9, <1>10, <2>1, <2>2, <2>3
<1>. QED BY <1>1, <1>2, <1>3, <1>10, <1>11, <1>12, <1>13, <1>14

----------------------------------------------------------------------------
(* The merge of a subscription. *)
LEMMA MergeAddEffect ==
    ASSUME TypeOK, NEW m \in merges, NEW old \in BOOLEAN, MergeAdd(m, old)
    PROVE  /\ TypeOK'
           /\ subscribers_' = [subscribers_ EXCEPT ![m.account] = @ \cup {m.sub}]
           /\ \A a \in Accounts \ {m.account} : stale'[a] = stale[a]
           /\ stale[m.account] \subseteq stale'[m.account] \cup {m.sub}
           /\ UNCHANGED <<network, connected_, submitted>>
           /\ \A n \in Nodes :
                /\ subs_[n] \subseteq subs_'[n] /\ due[n] \subseteq due'[n]
                /\ subs_'[n] \subseteq subs_[n] \cup {m.account}
                /\ \A a \in Accounts \ {m.account} : untold'[n][a] = untold[n][a]
                /\ \/ m.account \in due'[n]
                   \/ /\ untold'[n][m.account] =
                            untold[n][m.account] \cup ({m.sub} \ Current(m.account))
                      /\ subs_'[n] = subs_[n]
           /\ m.new_sub => /\ missed' = missed \ {m.account}
                           /\ \A n \in sns_ :
                                nodeSwarm[n] = closest(swarm_ids_, Position[m.account]) =>
                                    m.account \in subs_'[n]
           /\ ~m.new_sub => missed' = IF m.account \in Subscribed THEN missed
                                      ELSE missed \cup {m.account}
<1> DEFINE a == m.account
           sw == closest(swarm_ids_, Position[a])
           told == IF m.new_sub THEN {n \in sns_ : nodeSwarm[n] = sw} ELSE {}
<1>0. TypesOfMembers /\ TypesOfNetwork /\ TypesOfMemory /\ TypesOfHistory
  BY TypeParts
<1>1. /\ merges' = merges \ {m}
      /\ subscribers_' = [subscribers_ EXCEPT ![a] = @ \cup {m.sub}]
      /\ stale' = [stale EXCEPT ![a] = IF old THEN @ \cup ({m.sub} \ subscribers_[a])
                                             ELSE @ \ {m.sub}]
      /\ pkSwarm' = IF a \in Subscribed THEN pkSwarm ELSE [pkSwarm EXCEPT ![a] = sw]
      /\ subs_' = [n \in Nodes |-> IF n \in told THEN subs_[n] \cup {a} ELSE subs_[n]]
      /\ entrySwarm' = [n \in Nodes |->
                IF n \in told THEN [entrySwarm[n] EXCEPT ![a] = sw] ELSE entrySwarm[n]]
      /\ due' = [n \in Nodes |-> IF n \in told THEN due[n] \cup {a} ELSE due[n]]
      /\ missed' = IF m.new_sub THEN missed \ {a}
                     ELSE IF a \in Subscribed THEN missed ELSE missed \cup {a}
      /\ untold' = [n \in Nodes |-> [untold[n] EXCEPT ![a] =
                IF n \in told THEN {} ELSE @ \cup ({m.sub} \ Current(a))]]
      /\ UNCHANGED <<rows, txns, network, connected_, submitted>>
  BY DEF MergeAdd, add_account
<1>2. a \in Accounts /\ m.sub \in Settings
  BY <1>0 DEF TypesOfMemory, Merges
<1>3. sw \in Ring
  <2>1. swarm_ids_ \subseteq Ring /\ Position[a] \in Ring
    BY <1>0, <1>2, SwarmIdsInRing, SwarmsAssumptions DEF TypesOfNetwork
  <2>. QED BY <2>1, ClosestInRing
<1>4. told \subseteq sns_
  OBVIOUS
<1>5. m.new_sub => told = {n \in sns_ : nodeSwarm[n] = sw}
  OBVIOUS
<1> HIDE DEF sw, told
<1>6. TypesOfMemory'
  <2>1. subscribers_' \in [Accounts -> SUBSET Settings]
    BY <1>0, <1>1, <1>2 DEF TypesOfMemory
  <2>2. pkSwarm' \in [Accounts -> Ring]
    BY <1>0, <1>1, <1>3 DEF TypesOfMemory
  <2>3. stale' \in [Accounts -> SUBSET Settings]
    BY <1>0, <1>1, <1>2 DEF TypesOfMemory
  <2>. QED BY <1>0, <1>1, <2>1, <2>2, <2>3 DEF TypesOfMemory
<1>7. TypesOfNetwork'
  BY <1>0, <1>1 DEF TypesOfNetwork, network
<1>8. TypesOfMembers'
  <2>1. subs_' \in NodeAccounts /\ due' \in NodeAccounts
    BY <1>0, <1>1, <1>2 DEF TypesOfMembers, NodeAccounts
  <2>2. entrySwarm' \in [Nodes -> [Accounts -> Ring]]
    BY <1>0, <1>1, <1>3 DEF TypesOfMembers
  <2>3. \A n \in Nodes : due'[n] \subseteq subs_'[n] /\ (subs_'[n] # {} => n \in sns_')
    BY <1>0, <1>1, <1>4 DEF TypesOfMembers, network
  <2>. QED BY <1>0, <1>1, <2>1, <2>2, <2>3 DEF TypesOfMembers
<1>9. untold' \in NodeSettings
  <2>1. ASSUME NEW n \in Nodes
        PROVE  [untold[n] EXCEPT ![a] = IF n \in told THEN {}
                    ELSE @ \cup ({m.sub} \ Current(a))] \in [Accounts -> SUBSET Settings]
    <3>1. untold[n] \in [Accounts -> SUBSET Settings]
      BY <1>0 DEF TypesOfHistory, NodeSettings
    <3>. QED BY <1>2, <3>1
  <2>. QED BY <1>1, <2>1 DEF NodeSettings
<1>10. missed' \in SUBSET Accounts
  BY <1>0, <1>1, <1>2 DEF TypesOfHistory
<1>11. TypeOK'
  BY <1>6, <1>7, <1>8, <1>9, <1>10, TypePartsNext DEF TypesOfHistory
<1>12. ASSUME NEW n \in Nodes
       PROVE  /\ subs_[n] \subseteq subs_'[n] /\ due[n] \subseteq due'[n]
              /\ subs_'[n] \subseteq subs_[n] \cup {a}
              /\ \A b \in Accounts \ {a} : untold'[n][b] = untold[n][b]
              /\ \/ a \in due'[n]
                 \/ /\ untold'[n][a] = untold[n][a] \cup ({m.sub} \ Current(a))
                    /\ subs_'[n] = subs_[n]
  <2>1. untold[n] \in [Accounts -> SUBSET Settings]
    BY <1>0 DEF TypesOfHistory, NodeSettings
  <2>2. CASE n \in told
    BY <1>1, <1>2, <2>1, <2>2
  <2>3. CASE n \notin told
    BY <1>1, <1>2, <2>1, <2>3
  <2>. QED BY <2>2, <2>3
<1>13. ASSUME m.new_sub
       PROVE  /\ missed' = missed \ {a}
              /\ \A n \in sns_ : nodeSwarm[n] = sw => a \in subs_'[n]
  <2>1. missed' = missed \ {a}
    BY <1>1, <1>13
  <2>2. ASSUME NEW n \in sns_, nodeSwarm[n] = sw PROVE a \in subs_'[n]
    <3>1. n \in told /\ n \in Nodes
      BY <1>0, <1>5, <1>13, <2>2 DEF TypesOfNetwork
    <3>. QED BY <1>1, <3>1
  <2>. QED BY <2>1, <2>2
<1>14. ASSUME ~m.new_sub
       PROVE  missed' = IF a \in Subscribed THEN missed ELSE missed \cup {a}
  BY <1>1, <1>14
<1>15. /\ \A b \in Accounts \ {a} : stale'[b] = stale[b]
       /\ stale[a] \subseteq stale'[a] \cup {m.sub}
  BY <1>0, <1>1, <1>2 DEF TypesOfMemory
<1>. QED BY <1>1, <1>11, <1>12, <1>13, <1>14, <1>15 DEF sw

(* A pass of check_subs, by the timer or over a new connection. *)
LEMMA PassEffect ==
    ASSUME TypeOK, NEW conns, NEW d \in NodeAccounts, check_subs(conns, d, submitted),
           \A n \in Nodes : d[n] \subseteq subs_[n],
           connected_' \in SUBSET sns_,
           UNCHANGED <<rows, merges, txns, memory, network, subs_, entrySwarm, missed>>
    PROVE  /\ TypeOK'
           /\ \A n \in Nodes, a \in Accounts :
                \/ submitted'[n][a] = Current(a)
                \/ /\ submitted'[n][a] = submitted[n][a] /\ untold'[n][a] = untold[n][a]
                   /\ a \in d[n] => a \in due'[n]
<1>0. TypesOfMembers /\ TypesOfNetwork /\ TypesOfMemory /\ TypesOfHistory
  BY TypeParts
<1>1. /\ due' \in NodeAccounts
      /\ submitted' \in NodeSettings /\ untold' \in NodeSettings
      /\ \A n \in Nodes : due'[n] \subseteq d[n]
      /\ \A n \in Nodes, a \in Accounts :
            \/ submitted'[n][a] = Current(a)
            \/ /\ submitted'[n][a] = submitted[n][a] /\ untold'[n][a] = untold[n][a]
               /\ a \in d[n] => a \in due'[n]
  BY <1>0, CheckSubsEffect DEF TypesOfMembers, TypesOfMemory, TypesOfHistory
<1>2. TypesOfMembers'
  BY <1>0, <1>1 DEF TypesOfMembers, network
<1>3. TypesOfNetwork'
  BY <1>0 DEF TypesOfNetwork, network
<1>4. TypesOfMemory' /\ TypesOfHistory'
  BY <1>0, <1>1 DEF TypesOfMemory, TypesOfHistory, memory
<1>. QED BY <1>1, <1>2, <1>3, <1>4, TypePartsNext

LEMMA CheckSubsPass ==
    ASSUME TypeOK, CheckSubs
    PROVE  /\ TypeOK' /\ UNCHANGED <<memory, network, connected_, subs_, missed>>
           /\ \A n \in Nodes, a \in Accounts :
                \/ submitted'[n][a] = Current(a)
                \/ /\ submitted'[n][a] = submitted[n][a] /\ untold'[n][a] = untold[n][a]
                   /\ a \in due[n] => a \in due'[n]
<1>0. TypesOfMembers /\ TypesOfNetwork
  BY TypeParts
<1>. QED BY <1>0, PassEffect DEF CheckSubs, TypesOfMembers, TypesOfNetwork

LEMMA ConnectedPass ==
    ASSUME TypeOK, NEW n \in Nodes, on_connected(n)
    PROVE  /\ TypeOK' /\ connected_' = connected_ \cup {n}
           /\ UNCHANGED <<memory, network, subs_, missed>>
           /\ \A k \in Nodes, a \in Accounts :
                \/ submitted'[k][a] = Current(a)
                \/ /\ submitted'[k][a] = submitted[k][a] /\ untold'[k][a] = untold[k][a]
                   /\ a \in due[k] \/ (k = n /\ a \in subs_[k]) => a \in due'[k]
<1> DEFINE d == [due EXCEPT ![n] = subs_[n]]
<1>0. TypesOfMembers /\ TypesOfNetwork
  BY TypeParts
<1>1. d \in NodeAccounts /\ \A k \in Nodes : d[k] \subseteq subs_[k]
  BY <1>0 DEF TypesOfMembers, NodeAccounts
<1>2. \A k \in Nodes, a \in Accounts : a \in due[k] \/ (k = n /\ a \in subs_[k]) => a \in d[k]
  BY <1>0 DEF TypesOfMembers, NodeAccounts
<1>3. check_subs({n}, d, submitted)
  BY DEF on_connected
<1>4. connected_' \in SUBSET sns_ /\ connected_' = connected_ \cup {n}
  BY <1>0 DEF on_connected, TypesOfNetwork
<1>5. UNCHANGED <<rows, merges, txns, memory, network, subs_, entrySwarm, missed>>
  BY DEF on_connected
<1> HIDE DEF d
<1>6. /\ TypeOK'
      /\ \A k \in Nodes, a \in Accounts :
            \/ submitted'[k][a] = Current(a)
            \/ /\ submitted'[k][a] = submitted[k][a] /\ untold'[k][a] = untold[k][a]
               /\ a \in d[k] => a \in due'[k]
  BY <1>1, <1>3, <1>4, <1>5, PassEffect
<1>. QED BY <1>2, <1>4, <1>5, <1>6

----------------------------------------------------------------------------
LEMMA NextTypeOK == TypeOK /\ [Next]_vars => TypeOK'
<1> SUFFICES ASSUME TypeOK, [Next]_vars PROVE TypeOK'
  OBVIOUS
<1>0. TypesOfMembers /\ TypesOfNetwork /\ TypesOfMemory /\ TypesOfHistory
  BY TypeParts
<1>1. ASSUME NEW block \in Blocks, NEW nodes \in SUBSET Listable(block),
             NEW readdressed \in SUBSET (connected_ \cap nodes),
             on_sns_response(block, nodes, readdressed)
      PROVE  TypeOK'
  <2>1. /\ swarm_ids_' = IdsOf(block)
        /\ UNCHANGED <<rows, merges, txns, subscribers_, stale>>
    BY <1>1 DEF on_sns_response
  <2>2. CASE Recheck(block, nodes, readdressed) /\ missed' = {}
    <3>1. /\ TypesOfMembers' /\ TypesOfNetwork' /\ pkSwarm' \in [Accounts -> Ring]
          /\ untold' \in NodeSettings
      BY <1>0, <2>1, <2>2, RecheckEffect
    <3>2. TypesOfMemory' /\ TypesOfHistory'
      BY <1>0, <2>1, <2>2, <3>1 DEF TypesOfMemory, TypesOfHistory
    <3>. QED BY <3>1, <3>2, TypePartsNext
  <2>3. CASE UpdateNodes(block, nodes, nodes, readdressed) /\ UNCHANGED <<pkSwarm, history>>
    <3>1. TypesOfMembers' /\ TypesOfNetwork'
      BY <1>0, <2>1, <2>3, UpdateNodesType
    <3>2. TypesOfMemory' /\ TypesOfHistory'
      BY <1>0, <2>1, <2>3 DEF TypesOfMemory, TypesOfHistory, history
    <3>. QED BY <3>1, <3>2, TypePartsNext
  <2>. QED BY <1>1, <2>2, <2>3 DEF on_sns_response
<1>2. ASSUME NEW block \in Blocks, ResponseThrowsInList(block) PROVE TypeOK'
  <2>1. TypesOfMembers' /\ TypesOfNetwork' /\ TypesOfMemory' /\ TypesOfHistory'
    BY <1>0, <1>2, IdsOfType
       DEF ResponseThrowsInList, TypesOfMembers, TypesOfNetwork, TypesOfMemory,
           TypesOfHistory, memory, members
  <2>. QED BY <2>1, TypePartsNext
<1>3. ASSUME NEW block \in Blocks, NEW nodes \in SUBSET Listable(block),
             NEW done \in SUBSET nodes, NEW readdressed \in SUBSET (connected_ \cap nodes),
             ResponseThrowsAtNode(block, nodes, done, readdressed)
      PROVE  TypeOK'
  <2>1. TypesOfMembers' /\ TypesOfNetwork'
    BY <1>0, <1>3, UpdateNodesType DEF ResponseThrowsAtNode
  <2>2. TypesOfMemory' /\ TypesOfHistory'
    BY <1>0, <1>3 DEF ResponseThrowsAtNode, TypesOfMemory, TypesOfHistory, memory
  <2>. QED BY <2>1, <2>2, TypePartsNext
<1>4. ASSUME NEW a \in Accounts, NEW d \in Devices, CommitRemove(a, d) PROVE TypeOK'
  <2>1. TypesOfMembers' /\ TypesOfNetwork' /\ TypesOfMemory' /\ TypesOfHistory'
    BY <1>0, <1>4 DEF CommitRemove, TypesOfMembers, TypesOfNetwork, TypesOfMemory,
           TypesOfHistory, memory, members, network, history
  <2>. QED BY <2>1, TypePartsNext
<1>5. ASSUME NEW a \in Accounts, NEW d \in Devices, NEW s \in Settings, CommitAdd(a, d, s)
      PROVE  TypeOK'
  <2>1. (rows[<<a, d>>] = NoRow) \in BOOLEAN
    BY Zenon
  <2>2. [id |-> txns, account |-> a, sub |-> s, new_sub |-> rows[<<a, d>>] = NoRow] \in Merges
    BY <1>0, <2>1 DEF Merges, TypesOfMemory
  <2>3. TypesOfMemory'
    BY <1>0, <1>5, <2>2 DEF CommitAdd, TypesOfMemory, memory
  <2>4. TypesOfMembers' /\ TypesOfNetwork' /\ TypesOfHistory'
    BY <1>0, <1>5 DEF CommitAdd, TypesOfMembers, TypesOfNetwork, TypesOfHistory, members,
           network, history
  <2>. QED BY <2>3, <2>4, TypePartsNext
<1>6. CASE CheckSubs
  BY <1>6, CheckSubsPass
<1>7. ASSUME NEW m \in merges, NEW old \in BOOLEAN, MergeAdd(m, old) PROVE TypeOK'
  BY <1>7, MergeAddEffect
<1>8. ASSUME NEW n \in Nodes, on_connected(n) PROVE TypeOK'
  BY <1>8, ConnectedPass
<1>9. ASSUME NEW n \in Nodes, on_disconnected(n) PROVE TypeOK'
  <2>1. submitted' \in NodeSettings
    BY <1>0, <1>9, NothingType DEF on_disconnected, TypesOfMembers, NodeSettings
  <2>2. TypesOfMembers' /\ TypesOfNetwork' /\ TypesOfMemory' /\ TypesOfHistory'
    BY <1>0, <1>9, <2>1 DEF on_disconnected, TypesOfMembers, TypesOfNetwork, TypesOfMemory,
           TypesOfHistory, memory, network, history
  <2>. QED BY <2>2, TypePartsNext
<1>10. ASSUME NEW n \in Nodes, NEW a \in Accounts, ResubscribeTime(n, a) PROVE TypeOK'
  <2>1. due' \in NodeAccounts /\ \A k \in Nodes : due'[k] \subseteq subs_[k]
    BY <1>0, <1>10 DEF ResubscribeTime, TypesOfMembers, NodeAccounts
  <2>2. TypesOfMembers' /\ TypesOfNetwork' /\ TypesOfMemory' /\ TypesOfHistory'
    BY <1>0, <1>10, <2>1 DEF ResubscribeTime, TypesOfMembers, TypesOfNetwork, TypesOfMemory,
           TypesOfHistory, memory, network, history
  <2>. QED BY <2>2, TypePartsNext
<1>11. ASSUME NEW a \in Accounts, NEW s \in Settings, SignatureExpires(a, s) PROVE TypeOK'
  <2>1. stale' \in [Accounts -> SUBSET Settings]
    BY <1>0, <1>11 DEF SignatureExpires, TypesOfMemory
  <2>2. TypesOfMembers' /\ TypesOfNetwork' /\ TypesOfMemory' /\ TypesOfHistory'
    BY <1>0, <1>11, <2>1 DEF SignatureExpires, TypesOfMembers, TypesOfNetwork, TypesOfMemory,
           TypesOfHistory, members, network, history
  <2>. QED BY <2>2, TypePartsNext
<1>12. CASE UNCHANGED vars
  BY <1>12 DEF TypeOK, vars, memory, network, members, history
<1>. QED
  BY <1>1, <1>2, <1>3, <1>4, <1>5, <1>6, <1>7, <1>8, <1>9, <1>10, <1>11, <1>12
     DEF Next, Response, ResponseThrows, Transaction, Loop

----------------------------------------------------------------------------
(* The members of an account's swarm have it on their list.  Every action  *)
(* that can leave an account out replaces the lists or adds to `missed`.   *)

LEMMA InitMembersCovered == Init => MembersCovered
BY DEF Init, MembersCovered

(* A response without a recheck changes neither the swarms nor the lists   *)
(* of the nodes that stay.                                                 *)
LEMMA QuietResponse ==
    ASSUME TypeOK, NEW block \in Blocks, NEW nodes \in SUBSET Listable(block), NEW readdressed,
           swarm_ids_' = IdsOf(block), ~NeedsRecheck(block, nodes),
           UpdateNodes(block, nodes, nodes, readdressed)
    PROVE  /\ swarm_ids_' = swarm_ids_ /\ sns_' \subseteq sns_
           /\ \A n \in sns_' : nodeSwarm'[n] = nodeSwarm[n] /\ subs_'[n] = subs_[n]
<1>0. TypesOfNetwork
  BY TypeParts
<1>1. IdsOf(block) = swarm_ids_ /\ Unmoved(block, nodes) = nodes
  BY DEF NeedsRecheck
<1>2. \A n \in nodes : n \in Nodes /\ n \in sns_ /\ nodeSwarm[n] = block[n]
  BY <1>0, <1>1 DEF Unmoved, TypesOfNetwork
<1>3. sns_' = nodes
  BY <1>2 DEF UpdateNodes
<1>4. ASSUME NEW n \in nodes PROVE nodeSwarm'[n] = nodeSwarm[n] /\ subs_'[n] = subs_[n]
  BY <1>1, <1>2 DEF UpdateNodes
<1>. QED BY <1>1, <1>2, <1>3, <1>4

LEMMA NextMembersCovered == TypeOK /\ MembersCovered /\ [Next]_vars => MembersCovered'
<1> SUFFICES ASSUME TypeOK, MembersCovered, [Next]_vars PROVE MembersCovered'
  OBVIOUS
<1>0. TypesOfMembers /\ TypesOfNetwork /\ TypesOfMemory /\ TypesOfHistory
  BY TypeParts
<1>1. ASSUME NEW block \in Blocks, NEW nodes \in SUBSET Listable(block),
             NEW readdressed \in SUBSET (connected_ \cap nodes),
             on_sns_response(block, nodes, readdressed)
      PROVE  MembersCovered'
  <2>1. swarm_ids_' = IdsOf(block) /\ subscribers_' = subscribers_
    BY <1>1 DEF on_sns_response
  <2>2. Subscribed' = Subscribed
    BY <2>1 DEF Subscribed
  <2>3. CASE NeedsRecheck(block, nodes)
    <3>1. Recheck(block, nodes, readdressed)
      BY <1>1, <2>3 DEF on_sns_response
    <3>2. \A n \in sns_' : \A a \in Subscribed :
            closest(swarm_ids_', Position[a]) = nodeSwarm'[n] => a \in subs_'[n]
      BY <1>0, <2>1, <3>1, RecheckEffect
    <3>. QED BY <2>2, <3>2 DEF MembersCovered
  <2>4. CASE ~NeedsRecheck(block, nodes)
    <3>1. UpdateNodes(block, nodes, nodes, readdressed) /\ missed' = missed
      BY <1>1, <2>4 DEF on_sns_response, history
    <3>2. /\ swarm_ids_' = swarm_ids_ /\ sns_' \subseteq sns_
          /\ \A n \in sns_' : nodeSwarm'[n] = nodeSwarm[n] /\ subs_'[n] = subs_[n]
      BY <2>1, <2>4, <3>1, QuietResponse
    <3>. QED BY <2>2, <3>1, <3>2 DEF MembersCovered
  <2>. QED BY <2>3, <2>4
<1>2. CASE missed' = Accounts
  BY <1>2 DEF MembersCovered, Subscribed
<1>3. ASSUME NEW m \in merges, NEW old \in BOOLEAN, MergeAdd(m, old) PROVE MembersCovered'
  <2>0. m.account \in Accounts
    BY <1>0 DEF TypesOfMemory, Merges
  <2>1. /\ swarm_ids_' = swarm_ids_ /\ sns_' = sns_ /\ nodeSwarm' = nodeSwarm
        /\ subscribers_' = [subscribers_ EXCEPT ![m.account] = @ \cup {m.sub}]
        /\ \A n \in Nodes : subs_[n] \subseteq subs_'[n]
    BY <1>3, MergeAddEffect DEF network
  <2>2. Subscribed' = Subscribed \cup {m.account}
    BY <1>0, <2>0, <2>1 DEF Subscribed, TypesOfMemory
  <2>3. SUFFICES ASSUME NEW n \in sns_, NEW a \in Subscribed' \ missed',
                        closest(swarm_ids_, Position[a]) = nodeSwarm[n]
                 PROVE  a \in subs_'[n]
    BY <2>1 DEF MembersCovered
  <2>4. n \in Nodes
    BY <1>0 DEF TypesOfNetwork
  <2>5. CASE a \in Subscribed \ missed
    BY <2>1, <2>3, <2>4, <2>5 DEF MembersCovered
  <2>6. CASE m.new_sub
    <3>1. missed' = missed \ {m.account} /\ (a = m.account => a \in subs_'[n])
      BY <1>3, <2>3, <2>6, MergeAddEffect
    <3>. QED BY <2>2, <2>5, <3>1
  <2>7. CASE ~m.new_sub
    <3>1. missed' = IF m.account \in Subscribed THEN missed ELSE missed \cup {m.account}
      BY <1>3, <2>7, MergeAddEffect
    <3>. QED BY <2>2, <2>5, <3>1
  <2>. QED BY <2>6, <2>7
<1>4. CASE UNCHANGED <<subscribers_, network, subs_, missed>>
  BY <1>4 DEF MembersCovered, Subscribed, network
<1>5. ASSUME NEW block \in Blocks, ResponseThrowsInList(block) PROVE missed' = Accounts
  BY <1>5 DEF ResponseThrowsInList
<1>6. ASSUME NEW block \in Blocks, NEW nodes, NEW done, NEW readdressed,
             ResponseThrowsAtNode(block, nodes, done, readdressed)
      PROVE  missed' = Accounts
  BY <1>6 DEF ResponseThrowsAtNode
<1>7. ASSUME NEW a, NEW d, NEW s, CommitRemove(a, d) \/ CommitAdd(a, d, s)
      PROVE  UNCHANGED <<subscribers_, network, subs_, missed>>
  BY <1>7 DEF CommitRemove, CommitAdd, memory, members, history
<1>7a. ASSUME NEW a, NEW d, CommitRemove(a, d)
      PROVE  UNCHANGED <<subscribers_, network, subs_, missed>>
  BY <1>7a DEF CommitRemove, CommitAdd, memory, members, history
<1>8. ASSUME NEW n, on_connected(n) \/ on_disconnected(n) \/ CheckSubs
      PROVE  UNCHANGED <<subscribers_, network, subs_, missed>>
  BY <1>8 DEF on_connected, on_disconnected, CheckSubs, memory, history
<1>9. ASSUME NEW n, NEW a, ResubscribeTime(n, a)
      PROVE  UNCHANGED <<subscribers_, network, subs_, missed>>
  BY <1>9 DEF ResubscribeTime, memory, history
<1>9a. ASSUME NEW a, NEW s, SignatureExpires(a, s)
      PROVE  UNCHANGED <<subscribers_, network, subs_, missed>>
  BY <1>9a DEF SignatureExpires, members, history
<1>10. CASE UNCHANGED vars
  BY <1>4, <1>10 DEF vars, memory, members, history
<1>11. CASE Response
  BY <1>1, <1>11 DEF Response
<1>12. CASE ResponseThrows
  BY <1>2, <1>5, <1>6, <1>12 DEF ResponseThrows
<1>13. CASE Transaction
  BY <1>4, <1>7, <1>7a, <1>13 DEF Transaction
<1>14. CASE Loop
  BY <1>3, <1>4, <1>8, <1>9, <1>9a, <1>14 DEF Loop
<1>. QED BY <1>10, <1>11, <1>12, <1>13, <1>14 DEF Next

----------------------------------------------------------------------------
(* The settings of an account on a node's list were sent, or are due.  The *)
(* condition on one account at one node, and what keeps it.                *)

InPlace(n, a) ==
    Current(a) \ untold[n][a] \subseteq submitted[n][a] \/ a \in due[n]

LEMMA SettingsInPlaceByPair ==
    SettingsInPlace <=> \A n \in connected_ : \A a \in subs_[n] : InPlace(n, a)
BY DEF SettingsInPlace, InPlace

LEMMA InitSettingsInPlace == Init => SettingsInPlace
BY DEF Init, SettingsInPlace

LEMMA NextSettingsInPlace == TypeOK /\ SettingsInPlace /\ [Next]_vars => SettingsInPlace'
<1> SUFFICES ASSUME TypeOK, SettingsInPlace, [Next]_vars PROVE SettingsInPlace'
  OBVIOUS
<1>0. TypesOfMembers /\ TypesOfNetwork /\ TypesOfMemory /\ TypesOfHistory
  BY TypeParts
<1>a. \A n \in connected_ : n \in Nodes /\ n \in sns_
  BY <1>0 DEF TypesOfNetwork
<1>b. \A n \in Nodes : subs_[n] \subseteq Accounts
  BY <1>0 DEF TypesOfMembers, NodeAccounts
<1>1. ASSUME NEW block \in Blocks, NEW nodes \in SUBSET Listable(block),
             NEW readdressed \in SUBSET (connected_ \cap nodes),
             swarm_ids_' = IdsOf(block), subscribers_' = subscribers_, stale' = stale,
             Recheck(block, nodes, readdressed)
      PROVE  SettingsInPlace'
  <2>1. /\ connected_' \subseteq connected_
        /\ \A n \in connected_', a \in Accounts : a \in subs_'[n] =>
                \/ a \in due'[n]
                \/ submitted'[n][a] = Current(a)
                \/ /\ a \in subs_[n] \ due[n]
                   /\ submitted'[n][a] = submitted[n][a] /\ untold'[n][a] = untold[n][a]
    BY <1>0, <1>1, RecheckEffect
  <2>2. TypesOfMembers'
    BY <1>0, <1>1, RecheckEffect
  <2>3. ASSUME NEW n \in connected_', NEW a \in subs_'[n]
        PROVE  InPlace(n, a)'
    <3>1. n \in connected_ /\ n \in Nodes
      BY <1>a, <2>1
    <3>2. a \in Accounts
      BY <2>2, <2>3, <3>1 DEF TypesOfMembers, NodeAccounts
    <3>3. a \in subs_[n] \ due[n] => Current(a) \ untold[n][a] \subseteq submitted[n][a]
      BY <3>1 DEF SettingsInPlace
    <3>4. Current(a)' = Current(a)
      BY <1>1 DEF Current
    <3>. QED BY <2>1, <2>3, <3>2, <3>3, <3>4 DEF InPlace
  <2>. QED BY <2>3 DEF SettingsInPlace, InPlace
<1>2. ASSUME NEW block, NEW nodes, NEW done, NEW readdressed,
             subscribers_' = subscribers_, stale' = stale, untold' = untold,
             UpdateNodes(block, nodes, done, readdressed)
      PROVE  SettingsInPlace'
  <2>1. ASSUME NEW n \in connected_', NEW a \in subs_'[n]
        PROVE  InPlace(n, a)'
    <3>1. n \in connected_ /\ n \in Nodes /\ submitted'[n] = submitted[n]
      BY <1>a, <1>2, <2>1 DEF UpdateNodes
    <3>2. a \in subs_[n] /\ due'[n] = due[n]
      BY <1>2, <2>1, <3>1 DEF UpdateNodes
    <3>3. Current(a)' = Current(a)
      BY <1>2 DEF Current
    <3>. QED BY <1>2, <3>1, <3>2, <3>3 DEF SettingsInPlace, InPlace
  <2>. QED BY <2>1 DEF SettingsInPlace, InPlace
<1>3. ASSUME NEW m \in merges, NEW old \in BOOLEAN, MergeAdd(m, old) PROVE SettingsInPlace'
  <2>0. m.account \in Accounts
    BY <1>0 DEF TypesOfMemory, Merges
  <2>1. /\ connected_' = connected_ /\ submitted' = submitted
        /\ subscribers_' = [subscribers_ EXCEPT ![m.account] = @ \cup {m.sub}]
        /\ \A a \in Accounts \ {m.account} : stale'[a] = stale[a]
        /\ stale[m.account] \subseteq stale'[m.account] \cup {m.sub}
    BY <1>3, MergeAddEffect
  <2>2. ASSUME NEW n \in connected_, NEW a \in subs_'[n]
        PROVE  InPlace(n, a)'
    <3>1. /\ n \in Nodes /\ due[n] \subseteq due'[n]
          /\ subs_'[n] \subseteq subs_[n] \cup {m.account}
          /\ \A b \in Accounts \ {m.account} : untold'[n][b] = untold[n][b]
          /\ \/ m.account \in due'[n]
             \/ /\ untold'[n][m.account] =
                        untold[n][m.account] \cup ({m.sub} \ Current(m.account))
                /\ subs_'[n] = subs_[n]
      BY <1>3, <1>a, MergeAddEffect
    <3>2. CASE a # m.account
      <4>1. a \in subs_[n] /\ a \in Accounts
        BY <1>b, <2>2, <3>1, <3>2
      <4>2. Current(a)' = Current(a) /\ untold'[n][a] = untold[n][a]
        BY <1>0, <2>1, <3>1, <3>2, <4>1 DEF TypesOfMemory, Current
      <4>. QED BY <2>1, <3>1, <4>1, <4>2 DEF SettingsInPlace, InPlace
    <3>3. CASE a = m.account /\ a \notin due'[n]
      <4>1. a \in subs_[n] /\ a \notin due[n]
        BY <2>2, <3>1, <3>3
      <4>2. Current(a)' \subseteq Current(a) \cup {m.sub}
        BY <1>0, <2>0, <2>1, <3>3 DEF TypesOfMemory, Current
      <4>3. untold'[n][a] = untold[n][a] \cup ({m.sub} \ Current(a))
        BY <3>1, <3>3
      <4>4. Current(a) \ untold[n][a] \subseteq submitted[n][a]
        BY <4>1 DEF SettingsInPlace
      <4>. QED BY <2>1, <4>2, <4>3, <4>4 DEF InPlace
    <3>. QED BY <3>2, <3>3 DEF InPlace
  <2>. QED BY <2>1, <2>2 DEF SettingsInPlace, InPlace
<1>4. CASE CheckSubs
  <2>1. /\ UNCHANGED <<memory, connected_, subs_>>
        /\ \A n \in Nodes, a \in Accounts :
                \/ submitted'[n][a] = Current(a)
                \/ /\ submitted'[n][a] = submitted[n][a] /\ untold'[n][a] = untold[n][a]
                   /\ a \in due[n] => a \in due'[n]
    BY <1>4, CheckSubsPass
  <2>2. ASSUME NEW n \in connected_, NEW a \in subs_[n]
        PROVE  InPlace(n, a)'
    <3>1. n \in Nodes /\ a \in Accounts
      BY <1>a, <1>b
    <3>2. Current(a)' = Current(a)
      BY <2>1 DEF Current, memory
    <3>. QED BY <2>1, <3>1, <3>2 DEF SettingsInPlace, InPlace
  <2>. QED BY <2>1, <2>2 DEF SettingsInPlace, InPlace
<1>5. ASSUME NEW n \in Nodes, on_connected(n) PROVE SettingsInPlace'
  <2>1. /\ UNCHANGED <<memory, subs_>> /\ connected_' = connected_ \cup {n}
        /\ \A k \in Nodes, a \in Accounts :
                \/ submitted'[k][a] = Current(a)
                \/ /\ submitted'[k][a] = submitted[k][a] /\ untold'[k][a] = untold[k][a]
                   /\ a \in due[k] \/ (k = n /\ a \in subs_[k]) => a \in due'[k]
    BY <1>5, ConnectedPass
  <2>2. ASSUME NEW k \in connected_', NEW a \in subs_[k]
        PROVE  InPlace(k, a)'
    <3>1. k \in Nodes /\ a \in Accounts /\ (k = n \/ k \in connected_)
      BY <1>a, <1>b, <2>1
    <3>2. Current(a)' = Current(a)
      BY <2>1 DEF Current, memory
    <3>. QED BY <2>1, <3>1, <3>2 DEF SettingsInPlace, InPlace
  <2>. QED BY <2>1, <2>2 DEF SettingsInPlace, InPlace
<1>6. ASSUME NEW n \in Nodes, on_disconnected(n) PROVE SettingsInPlace'
  <2>1. ASSUME NEW k \in connected_' PROVE k \in connected_ /\ submitted'[k] = submitted[k]
    BY <1>0, <1>6 DEF on_disconnected, TypesOfMembers, NodeSettings
  <2>2. \A a \in Accounts : Current(a)' = Current(a)
    BY <1>6 DEF Current, on_disconnected, memory
  <2>. QED BY <1>a, <1>b, <1>6, <2>1, <2>2 DEF SettingsInPlace, on_disconnected, history
<1>7. ASSUME NEW n \in Nodes, NEW a \in Accounts, ResubscribeTime(n, a) PROVE SettingsInPlace'
  <2>1. \A k \in Nodes : due[k] \subseteq due'[k]
    BY <1>0, <1>7 DEF ResubscribeTime, TypesOfMembers, NodeAccounts
  <2>2. \A b \in Accounts : Current(b)' = Current(b)
    BY <1>7 DEF Current, ResubscribeTime, memory
  <2>. QED BY <1>7, <1>a, <1>b, <2>1, <2>2 DEF SettingsInPlace, ResubscribeTime, history
<1>8. CASE UNCHANGED <<subscribers_, stale, connected_, members, untold>>
  BY <1>8 DEF SettingsInPlace, Current, members
<1>8a. ASSUME NEW a \in Accounts, NEW s \in Settings, SignatureExpires(a, s)
       PROVE  SettingsInPlace'
  <2>1. UNCHANGED <<subscribers_, connected_, subs_, due, submitted, untold>>
    BY <1>8a DEF SignatureExpires, members, history
  <2>2. \A b \in Accounts : stale[b] \subseteq stale'[b]
    BY <1>0, <1>8a DEF SignatureExpires, TypesOfMemory
  <2>3. \A b \in Accounts : Current(b)' \subseteq Current(b)
    BY <2>1, <2>2 DEF Current
  <2>. QED BY <1>a, <1>b, <2>1, <2>3 DEF SettingsInPlace
<1>9. CASE Response
  BY <1>1, <1>2, <1>9 DEF Response, on_sns_response, history
<1>10. CASE ResponseThrows
  <2>1. ASSUME NEW block \in Blocks, ResponseThrowsInList(block) PROVE SettingsInPlace'
    BY <1>8, <2>1 DEF ResponseThrowsInList, memory
  <2>2. ASSUME NEW block, NEW nodes, NEW done, NEW readdressed,
               ResponseThrowsAtNode(block, nodes, done, readdressed)
        PROVE  SettingsInPlace'
    BY <1>2, <2>2 DEF ResponseThrowsAtNode, memory
  <2>. QED BY <1>10, <2>1, <2>2 DEF ResponseThrows
<1>11. CASE Transaction
  BY <1>8, <1>11 DEF Transaction, CommitRemove, CommitAdd, memory, history
<1>12. CASE Loop
  BY <1>3, <1>4, <1>5, <1>6, <1>7, <1>8a, <1>12 DEF Loop
<1>13. CASE UNCHANGED vars
  BY <1>8, <1>13 DEF vars, memory, history
<1>. QED BY <1>9, <1>10, <1>11, <1>12, <1>13 DEF Next

----------------------------------------------------------------------------
(* Type correctness, and: accounts are due at a node only if they are on   *)
(* its list, and a node that the last response did not list has no list    *)
(* (on_sns_response, remove_stale_swarm_members, reset_swarm).             *)
THEOREM TypeCorrect == Spec => []TypeOK
<1>. QED BY InitTypeOK, NextTypeOK, PTL DEF Spec

(* Each known member of an account's swarm has the account on its list,    *)
(* through changes of nodes and swarms, subscriptions and merges; only a   *)
(* failed response, or a renewal of a row that was not loaded, leaves      *)
(* exceptions, until the next full recheck (on_sns_response,               *)
(* add_subscription).                                                      *)
THEOREM MembersCoveredHolds == Spec => []MembersCovered
<1>. QED
  BY InitTypeOK, NextTypeOK, InitMembersCovered, NextMembersCovered, PTL DEF Spec

(* Over the connection of each node, all settings of each account on its   *)
(* list whose signature is not too old were in the last submission or are  *)
(* due, but for those that were merged or renewed since without telling    *)
(* the node (add_account, check_subs, on_connected, reset_swarm,           *)
(* remove_stale_swarm_members, add_subscription).                          *)
THEOREM SettingsInPlaceHolds == Spec => []SettingsInPlace
<1>. QED
  BY InitTypeOK, NextTypeOK, InitSettingsInPlace, NextSettingsInPlace, PTL DEF Spec
============================================================================
