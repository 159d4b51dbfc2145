------------------------ MODULE ResubscriptionProofs ------------------------
(* Proofs about the renewal queue, for every number of accounts, every     *)
(* length of the queue, every limit and every choice of delays.            *)
EXTENDS Resubscription, FiniteSetTheorems, SequenceTheorems, WellFoundedInduction, TLAPS

(* A non-empty set of numbers in an interval has a greatest element. *)
LEMMA GreatestExists ==
    ASSUME NEW lo \in Nat, NEW hi \in Nat, NEW S, S \subseteq lo..hi, S # {}
    PROVE  Max(S) \in S /\ \A y \in S : y <= Max(S)
<1> DEFINE R == {ss \in Nat \X Nat : ss[1] < ss[2]}
           M == {hi - x : x \in S}
<1>1. IsWellFoundedOn(R, Nat)
  BY NatLessThanWellFounded DEF OpToRel
<1>2. \A x, y \in Nat : y < x => <<y, x>> \in R
  OBVIOUS
<1>3. \A x \in S : x \in Nat /\ x <= hi
  OBVIOUS
<1>4. M \subseteq Nat /\ M # {}
  <2>1. \A x \in S : hi - x \in Nat
    BY <1>3
  <2>2. M # {}
    OBVIOUS
  <2>. QED BY <2>1, <2>2
<1> HIDE DEF R
<1>5. PICK m \in M : \A y \in M : ~(<<y, m>> \in R)
  <2> HIDE DEF M
  <2>. QED BY <1>1, <1>4, WFMin
<1>6. \A y \in M : ~(y < m)
  BY <1>2, <1>4, <1>5
<1>7. PICK x \in S : m = hi - x
  BY <1>5
<1>8. ASSUME NEW y \in S PROVE x >= y
  <2>1. ~(hi - y < hi - x)
    BY <1>6, <1>7
  <2>. QED BY <1>3, <2>1
<1>9. Max(S) \in S /\ \A y \in S : Max(S) >= y
  BY <1>8 DEF Max
<1>. QED BY <1>3, <1>9

LEMMA FunctionIsSeq ==
    ASSUME NEW S, NEW n \in Nat, NEW f \in [1..n -> S]
    PROVE  f \in Seq(S) /\ Len(f) = n /\ DOMAIN f = 1..n
BY SeqDef

LEMMA EntriesOf ==
    ASSUME NEW q \in Seq(Entries)
    PROVE  /\ Len(q) \in Nat /\ DOMAIN q = 1..Len(q)
           /\ \A i \in 1..Len(q) : /\ q[i] \in Entries /\ q[i].time \in Nat
                                    /\ q[i].acct \in Accounts \cup {None}
<1>1. Len(q) \in Nat /\ DOMAIN q = 1..Len(q)
  OBVIOUS
<1>2. ASSUME NEW i \in 1..Len(q) PROVE q[i] \in Entries
  BY ElementOfSeq
<1>3. \A e \in Entries : e.time \in Nat /\ e.acct \in Accounts \cup {None}
  BY DEF Entries
<1>. QED BY <1>1, <1>2, <1>3

(* An arrangement of a finite set has each member at exactly one place. *)
LEMMA ArrangementIsBijection ==
    ASSUME NEW I, IsFiniteSet(I), NEW p \in SetToSeqs(I)
    PROVE  /\ Cardinality(I) \in Nat /\ p \in [1..Cardinality(I) -> I]
           /\ \A i, j \in 1..Cardinality(I) : i # j => p[i] # p[j]
           /\ \A x \in I : \E j \in 1..Cardinality(I) : p[j] = x
<1> DEFINE n == Cardinality(I)
<1>1. n \in Nat
  BY FS_CardinalityType
<1>2. p \in [1..n -> I] /\ \A i, j \in 1..n : i # j => p[i] # p[j]
  BY DEF SetToSeqs
<1>3. Cardinality(1..n) = n
  BY <1>1, FS_Interval
<1> HIDE DEF n
<1>4. p \in Injection(1..n, I)
  BY <1>2 DEF Injection, IsInjective
<1>5. p \in Surjection(1..n, I)
  BY <1>3, <1>4, FS_Injection DEF n
<1>. QED BY <1>1, <1>2, <1>5 DEF Surjection, n

----------------------------------------------------------------------------
(* The loop and the partition point.                                       *)

LEMMA DrainLengthEffect ==
    ASSUME NEW q \in Seq(Entries), clock \in Nat
    PROVE  /\ DrainLength(q) \in 0..Len(q)
           /\ \A i \in 1..DrainLength(q) : q[i].time <= clock
           /\ DrainLength(q) < Len(q) =>
                q[DrainLength(q) + 1].time > clock \/ RateLimited(q, DrainLength(q))
<1> DEFINE P(k) == \A i \in 1..k : q[i].time <= clock /\ ~RateLimited(q, i - 1)
           S == {k \in 0..Len(q) : P(k)}
           k == DrainLength(q)
<1>0. Len(q) \in Nat /\ \A i \in 1..Len(q) : q[i].time \in Nat
  BY EntriesOf
<1>1. S \subseteq 0..Len(q) /\ 0 \in S
  BY <1>0
<1>2. k = Max(S)
  BY DEF DrainLength
<1>3. k \in S /\ \A y \in S : y <= k
  <2> HIDE DEF S, k
  <2>. QED BY <1>0, <1>1, <1>2, GreatestExists
<1>4. ASSUME k < Len(q), ~(q[k + 1].time > clock), ~RateLimited(q, k) PROVE FALSE
  <2> HIDE DEF k
  <2>1. k \in Nat /\ k + 1 \in 0..Len(q) /\ P(k)
    BY <1>0, <1>3, <1>4
  <2>2. q[k + 1].time <= clock
    BY <1>0, <1>4, <2>1
  <2>3. \A i \in 1..(k + 1) : i \in 1..k \/ (i = k + 1 /\ i - 1 = k)
    BY <2>1
  <2>4. P(k + 1)
    BY <1>4, <2>1, <2>2, <2>3
  <2>5. k + 1 <= k
    BY <1>3, <2>1, <2>4
  <2>. QED BY <2>1, <2>5
<1>. QED BY <1>3, <1>4

LEMMA SortFromEffect ==
    ASSUME NEW q \in Seq(Entries), clock \in Nat, NEW k \in 0..Len(q)
    PROVE  /\ SortFrom(q, k) \in k..Len(q)
           /\ \A i \in (k + 1)..SortFrom(q, k) : q[i].time < clock + RESUBSCRIBE_MIN
           /\ SortFrom(q, k) < Len(q) =>
                q[SortFrom(q, k) + 1].time >= clock + RESUBSCRIBE_MIN
<1> DEFINE P(j) == \A i \in (k + 1)..j : q[i].time < clock + RESUBSCRIBE_MIN
           S == {j \in k..Len(q) : P(j)}
           it == SortFrom(q, k)
<1>0. Len(q) \in Nat /\ k \in Nat /\ \A i \in 1..Len(q) : q[i].time \in Nat
  BY EntriesOf
<1>1. S \subseteq k..Len(q) /\ k \in S
  BY <1>0
<1>2. it = Max(S)
  BY DEF SortFrom
<1>3. it \in S /\ \A y \in S : y <= it
  <2> HIDE DEF S, it
  <2>. QED BY <1>0, <1>1, <1>2, GreatestExists
<1>4. ASSUME it < Len(q), ~(q[it + 1].time >= clock + RESUBSCRIBE_MIN) PROVE FALSE
  <2> HIDE DEF it
  <2>1. it \in Nat /\ it + 1 \in k..Len(q) /\ P(it) /\ it + 1 \in 1..Len(q)
    BY <1>0, <1>3, <1>4
  <2>2. q[it + 1].time < clock + RESUBSCRIBE_MIN
    BY <1>0, <1>4, <2>1, ResubscriptionAssumptions
  <2>3. \A i \in (k + 1)..(it + 1) : i \in (k + 1)..it \/ i = it + 1
    BY <1>0, <2>1
  <2>4. P(it + 1)
    BY <2>1, <2>2, <2>3
  <2>5. it + 1 <= it
    BY <1>3, <2>1, <2>4
  <2>. QED BY <2>1, <2>5
<1>. QED BY <1>3, <1>4

----------------------------------------------------------------------------
(* What check_subs makes of a sorted queue q: a sorted queue r in which    *)
(* each entry stems from one of q.  The origin f loses only entries that   *)
(* were lazily deleted; the drained ones have a new time, and the others   *)
(* their old one.                                                          *)

StemsFrom(r, q, f) ==
    /\ f \in [DOMAIN r -> DOMAIN q]
    /\ \A i, j \in DOMAIN r : i # j => f[i] # f[j]
    /\ \A i \in DOMAIN q : i > DrainLength(q) \/ IsLive(q[i]) => \E j \in DOMAIN r : f[j] = i
    /\ \A j \in DOMAIN r :
        /\ r[j].acct = q[f[j]].acct
        /\ f[j] <= DrainLength(q) =>
            /\ IsLive(q[f[j]])
            /\ clock + RESUBSCRIBE_MIN <= r[j].time /\ r[j].time <= clock + RESUBSCRIBE_MAX
        /\ f[j] > DrainLength(q) => r[j].time = q[f[j]].time

LEMMA CheckSubsEffect ==
    ASSUME NEW q \in Seq(Entries), clock \in Nat, Sorted(q), check_subs(q)
    PROVE  /\ next_' \in Seq(Entries) /\ Sorted(next_')
           /\ \E f : StemsFrom(next_', q, f)
<1> DEFINE k == DrainLength(q)
           live == {i \in 1..k : IsLive(q[i])}
           it == SortFrom(q, k)
           I == live \cup (it + 1)..Len(q)
           n == Cardinality(I)
           soon == clock + RESUBSCRIBE_MIN
           late == clock + RESUBSCRIBE_MAX
<1>1. PICK delay \in [live -> RESUBSCRIBE_MIN..RESUBSCRIBE_MAX] :
        LET entry == [i \in DOMAIN q |->
                IF i \in live THEN [acct |-> q[i].acct, time |-> clock + delay[i]] ELSE q[i]]
        IN  \E o \in Arranged(entry, I) : next_' = SubSeq(q, k + 1, it) \o o
  BY DEF check_subs
<1> DEFINE entry == [i \in DOMAIN q |->
                IF i \in live THEN [acct |-> q[i].acct, time |-> clock + delay[i]] ELSE q[i]]
<1>2. PICK o \in Arranged(entry, I) : next_' = SubSeq(q, k + 1, it) \o o
  BY <1>1
<1>3. PICK p \in SetToSeqs(I) : o = [j \in DOMAIN p |-> entry[p[j]]]
  BY <1>2 DEF Arranged
<1>4. Sorted(o)
  BY <1>2 DEF Arranged
<1>5. /\ Len(q) \in Nat /\ DOMAIN q = 1..Len(q)
      /\ \A i \in 1..Len(q) : /\ q[i] \in Entries /\ q[i].time \in Nat
                              /\ q[i].acct \in Accounts \cup {None}
  BY EntriesOf
<1>6. k \in 0..Len(q)
  BY DrainLengthEffect
<1>7. /\ it \in k..Len(q)
      /\ \A i \in (k + 1)..it : q[i].time < soon
      /\ it < Len(q) => q[it + 1].time >= soon
  BY <1>6, SortFromEffect
<1>8. soon \in Nat /\ late \in Nat
  BY ResubscriptionAssumptions
<1>9. \A i, j \in 1..Len(q) : i < j => q[i].time <= q[j].time
  BY <1>5 DEF Sorted
<1>10. live \subseteq 1..k /\ \A i \in 1..k : i \in live <=> IsLive(q[i])
  OBVIOUS
<1>11. I \subseteq 1..Len(q) /\ \A i \in I : i \in live \/ i \in (it + 1)..Len(q)
  BY <1>5, <1>6, <1>7
<1>12. /\ n \in Nat /\ p \in [1..n -> I]
       /\ \A i, j \in 1..n : i # j => p[i] # p[j]
       /\ \A x \in I : \E j \in 1..n : p[j] = x
  <2>1. IsFiniteSet(1..Len(q))
    BY <1>5, FS_Interval
  <2>2. IsFiniteSet(I)
    BY <1>11, <2>1, FS_Subset
  <2> HIDE DEF I
  <2>. QED BY <1>3, <2>2, ArrangementIsBijection
<1>13. ASSUME NEW i \in 1..Len(q)
       PROVE  /\ entry[i] \in Entries /\ entry[i].acct = q[i].acct
              /\ i \in live => soon <= entry[i].time /\ entry[i].time <= late
              /\ i \notin live => entry[i] = q[i]
  <2>1. CASE i \in live
    <3>1. delay[i] \in Nat /\ RESUBSCRIBE_MIN <= delay[i] /\ delay[i] <= RESUBSCRIBE_MAX
      BY <2>1, ResubscriptionAssumptions
    <3>2. entry[i] = [acct |-> q[i].acct, time |-> clock + delay[i]]
      BY <1>5, <2>1
    <3>3. clock + delay[i] \in Nat /\ soon <= clock + delay[i] /\ clock + delay[i] <= late
      BY <3>1, ResubscriptionAssumptions
    <3> HIDE DEF entry, soon, late, live
    <3>4. entry[i] \in Entries
      BY <1>5, <3>2, <3>3 DEF Entries
    <3>. QED BY <2>1, <3>2, <3>3, <3>4
  <2>2. CASE i \notin live
    BY <1>5, <2>2
  <2>. QED BY <2>1, <2>2
<1> HIDE DEF entry, live, it, I, n, k
<1>14. ASSUME NEW i \in I PROVE entry[i].time >= soon
  <2>1. i \in 1..Len(q)
    BY <1>11
  <2>2. CASE i \in live
    <3>1. entry[i].time \in Nat
      BY <1>13, <2>1 DEF Entries
    <3>. QED BY <1>8, <1>13, <2>1, <2>2, <3>1
  <2>3. CASE i \notin live
    <3>1. i \in (it + 1)..Len(q)
      BY <1>11, <2>3
    <3>2. it \in Nat /\ it + 1 \in 1..Len(q) /\ q[it + 1].time >= soon
      BY <1>5, <1>6, <1>7, <3>1
    <3>3. q[i].time >= q[it + 1].time
      BY <1>5, <1>9, <2>1, <3>1, <3>2
    <3>4. q[i].time >= soon
      BY <1>5, <1>8, <2>1, <3>2, <3>3
    <3>. QED BY <1>13, <2>1, <2>3, <3>4
  <2>. QED BY <2>2, <2>3
<1>15. o \in Seq(Entries) /\ Len(o) = n /\ \A j \in 1..n : o[j] = entry[p[j]]
  <2>1. DOMAIN p = 1..n
    BY <1>12
  <2>2. \A j \in 1..n : entry[p[j]] \in Entries
    BY <1>11, <1>12, <1>13
  <2>3. o \in [1..n -> Entries] /\ \A j \in 1..n : o[j] = entry[p[j]]
    BY <1>3, <2>1, <2>2
  <2>. QED BY <1>12, <2>3, FunctionIsSeq
<1> DEFINE pre == SubSeq(q, k + 1, it)
           h == it - k
<1>16. /\ pre \in Seq(Entries) /\ Len(pre) = h /\ h \in Nat
       /\ \A j \in 1..h : pre[j] = q[k + j] /\ k + j \in (k + 1)..it /\ k + j \in 1..Len(q)
  <2>1. k \in Nat /\ it \in Nat /\ h \in Nat /\ k <= it /\ it <= Len(q)
    BY <1>5, <1>6, <1>7
  <2>2. \A i \in (k + 1)..it : q[i] \in Entries
    BY <1>5, <2>1
  <2>3. /\ pre \in Seq(Entries)
        /\ Len(pre) = IF k + 1 <= it THEN it - (k + 1) + 1 ELSE 0
        /\ \A j \in 1..(it - (k + 1) + 1) : pre[j] = q[(k + 1) + j - 1]
    BY <2>1, <2>2, SubSeqProperties
  <2>4. \A j \in 1..h : j \in 1..(it - (k + 1) + 1) /\ (k + 1) + j - 1 = k + j
    BY <2>1
  <2>5. \A j \in 1..h : k + j \in (k + 1)..it /\ k + j \in 1..Len(q)
    BY <1>5, <2>1
  <2>6. Len(pre) = h
    BY <2>1, <2>3
  <2>7. ASSUME NEW j \in 1..h PROVE pre[j] = q[k + j]
    BY <2>3, <2>4
  <2>. QED BY <2>1, <2>3, <2>5, <2>6, <2>7
<1> HIDE DEF pre, h
<1>17. /\ next_' \in Seq(Entries) /\ DOMAIN next_' = 1..(h + n)
       /\ \A j \in 1..h : next_'[j] = q[k + j]
       /\ \A j \in (h + 1)..(h + n) : j - h \in 1..n /\ next_'[j] = entry[p[j - h]]
  <2>1. next_' = pre \o o
    BY <1>2 DEF pre
  <2>2. /\ pre \o o \in Seq(Entries)
        /\ Len(pre \o o) = h + n
        /\ \A j \in 1..(h + n) : (pre \o o)[j] = IF j <= h THEN pre[j] ELSE o[j - h]
    BY <1>15, <1>16, ConcatProperties, ZenonT(60)
  <2>3. /\ \A j \in 1..h : j \in 1..(h + n) /\ j <= h
        /\ \A j \in (h + 1)..(h + n) : j - h \in 1..n /\ j \in 1..(h + n) /\ ~(j <= h)
    BY <1>12, <1>16
  <2>4. DOMAIN next_' = 1..(h + n)
    BY <2>1, <2>2
  <2>. QED BY <1>15, <1>16, <2>1, <2>2, <2>3, <2>4
<1>18. \A j \in 1..(h + n) : j \in 1..h \/ j \in (h + 1)..(h + n)
  BY <1>12, <1>16
<1>19. ASSUME NEW i \in 1..(h + n), NEW j \in 1..(h + n), i < j
       PROVE  next_'[i].time <= next_'[j].time
  <2>1. CASE j \in 1..h
    <3>1. i \in 1..h /\ k + i < k + j
      BY <1>6, <1>16, <1>19, <2>1
    <3>. QED BY <1>9, <1>16, <1>17, <2>1, <3>1
  <2>2. CASE i \in 1..h /\ j \in (h + 1)..(h + n)
    <3>1. next_'[i] = q[k + i] /\ q[k + i].time < soon /\ q[k + i].time \in Nat
      BY <1>5, <1>7, <1>16, <1>17, <2>2
    <3>2. next_'[j] = entry[p[j - h]] /\ p[j - h] \in I
      BY <1>12, <1>17, <2>2
    <3>3. entry[p[j - h]].time >= soon /\ entry[p[j - h]].time \in Nat
      BY <1>11, <1>13, <1>14, <3>2 DEF Entries
    <3> HIDE DEF soon
    <3>. QED BY <1>8, <3>1, <3>2, <3>3
  <2>3. CASE i \in (h + 1)..(h + n) /\ j \in (h + 1)..(h + n)
    <3>1. i - h \in 1..n /\ j - h \in 1..n /\ i - h < j - h
      BY <1>12, <1>16, <1>19, <2>3
    <3>2. o[i - h].time <= o[j - h].time
      BY <1>4, <1>15, <3>1 DEF Sorted
    <3>. QED BY <1>15, <1>17, <2>3, <3>1, <3>2
  <2>4. i \in (h + 1)..(h + n) => j \in (h + 1)..(h + n)
    BY <1>12, <1>16, <1>19
  <2>. QED BY <1>18, <2>1, <2>2, <2>3, <2>4
<1>20. Sorted(next_')
  BY <1>17, <1>19 DEF Sorted
<1> DEFINE f == [j \in 1..(h + n) |-> IF j <= h THEN k + j ELSE p[j - h]]
<1>21. /\ \A j \in 1..h : f[j] = k + j /\ f[j] > k /\ f[j] <= it
       /\ \A j \in (h + 1)..(h + n) : f[j] = p[j - h] /\ f[j] \in I /\ (f[j] <= k \/ f[j] > it)
  <2>1. ASSUME NEW j \in 1..h PROVE f[j] = k + j /\ f[j] > k /\ f[j] <= it
    <3>1. j \in 1..(h + n) /\ j <= h /\ k + j > k /\ k + j <= it
      BY <1>6, <1>7, <1>12, <1>16
    <3>. QED BY <3>1
  <2>2. ASSUME NEW j \in (h + 1)..(h + n)
        PROVE  f[j] = p[j - h] /\ f[j] \in I /\ (f[j] <= k \/ f[j] > it)
    <3>1. j \in 1..(h + n) /\ ~(j <= h)
      BY <1>12, <1>16
    <3>2. p[j - h] \in I
      BY <1>12, <1>17
    <3>3. \A x \in I : x <= k \/ x > it
      BY <1>5, <1>6, <1>7, <1>10, <1>11
    <3>. QED BY <3>1, <3>2, <3>3
  <2>. QED BY <2>1, <2>2
<1> HIDE DEF f
<1>22. f \in [DOMAIN next_' -> DOMAIN q]
  <2>1. ASSUME NEW j \in 1..(h + n) PROVE (IF j <= h THEN k + j ELSE p[j - h]) \in 1..Len(q)
    <3>1. CASE j \in 1..h
      BY <1>16, <3>1
    <3>2. CASE j \in (h + 1)..(h + n)
      <4>1. ~(j <= h) /\ j - h \in 1..n
        BY <1>12, <1>16, <3>2
      <4>2. p[j - h] \in 1..Len(q)
        BY <1>11, <1>12, <4>1
      <4>. QED BY <4>1, <4>2
    <3>. QED BY <1>18, <3>1, <3>2
  <2>. QED BY <1>5, <1>17, <2>1 DEF f
<1>23. ASSUME NEW i \in 1..(h + n), NEW j \in 1..(h + n), i # j PROVE f[i] # f[j]
  <2>1. CASE i \in 1..h /\ j \in 1..h
    BY <1>6, <1>21, <1>23, <2>1
  <2>2. CASE i \in (h + 1)..(h + n) /\ j \in (h + 1)..(h + n)
    <3>1. i - h # j - h /\ i - h \in 1..n /\ j - h \in 1..n
      BY <1>16, <1>17, <1>23, <2>2
    <3>. QED BY <1>12, <1>21, <2>2, <3>1
  <2>3. CASE i \in 1..h /\ j \in (h + 1)..(h + n)
    <3>1. f[i] \in Nat /\ f[j] \in Nat
      BY <1>5, <1>17, <1>22
    <3>. QED BY <1>6, <1>7, <1>21, <2>3, <3>1
  <2>4. CASE j \in 1..h /\ i \in (h + 1)..(h + n)
    <3>1. f[i] \in Nat /\ f[j] \in Nat
      BY <1>5, <1>17, <1>22
    <3>. QED BY <1>6, <1>7, <1>21, <2>4, <3>1
  <2>. QED BY <1>18, <2>1, <2>2, <2>3, <2>4
<1>24. ASSUME NEW i \in 1..Len(q), i > k \/ IsLive(q[i])
       PROVE  \E j \in 1..(h + n) : f[j] = i
  <2>1. CASE i \in (k + 1)..it
    <3>1. i - k \in 1..h /\ k + (i - k) = i /\ i - k \in 1..(h + n)
      BY <1>6, <1>7, <1>12, <1>16, <2>1 DEF h
    <3>. QED BY <1>21, <3>1
  <2>2. CASE i \in I
    <3>1. PICK j \in 1..n : p[j] = i
      BY <1>12, <2>2
    <3>2. h + j \in (h + 1)..(h + n) /\ (h + j) - h = j /\ h + j \in 1..(h + n)
      BY <1>12, <1>16
    <3>. QED BY <1>21, <3>1, <3>2
  <2>3. i \in (k + 1)..it \/ i \in I
    BY <1>5, <1>6, <1>7, <1>10, <1>24 DEF I
  <2>. QED BY <2>1, <2>2, <2>3
<1>25. ASSUME NEW j \in 1..(h + n)
       PROVE  /\ next_'[j].acct = q[f[j]].acct
              /\ f[j] <= k => /\ IsLive(q[f[j]])
                              /\ soon <= next_'[j].time /\ next_'[j].time <= late
              /\ f[j] > k => next_'[j].time = q[f[j]].time
  <2>1. CASE j \in 1..h
    <3>1. f[j] = k + j /\ f[j] > k /\ ~(f[j] <= k)
      BY <1>6, <1>16, <1>21, <2>1
    <3>. QED BY <1>17, <2>1, <3>1
  <2>2. CASE j \in (h + 1)..(h + n)
    <3>1. next_'[j] = entry[f[j]] /\ f[j] \in I /\ f[j] \in 1..Len(q)
      BY <1>11, <1>17, <1>21, <2>2
    <3>2. f[j] <= k => f[j] \in live /\ IsLive(q[f[j]])
      BY <1>5, <1>6, <1>7, <1>10, <1>11, <3>1
    <3>3. f[j] > k => f[j] \notin live
      BY <1>5, <1>6, <1>10, <3>1
    <3>. QED BY <1>13, <3>1, <3>2, <3>3
  <2>. QED BY <1>18, <2>1, <2>2
<1>26. StemsFrom(next_', q, f)
  BY <1>5, <1>17, <1>22, <1>23, <1>24, <1>25 DEF StemsFrom, k
<1>. QED BY <1>17, <1>20, <1>26

----------------------------------------------------------------------------
(* The inductive invariant.  OneEach says of positions what OneLiveEntry   *)
(* counts, and Scheduled is RenewalScheduled for any queue.                *)

OneEach(q, S) ==
    /\ \A i \in DOMAIN q : IsLive(q[i]) => q[i].acct \in S
    /\ \A i, j \in DOMAIN q : IsLive(q[i]) /\ q[i].acct = q[j].acct => i = j
    /\ \A a \in S : \E i \in DOMAIN q : q[i].acct = a

Scheduled(q, taken) ==
    \A i \in DOMAIN q : IsLive(q[i]) =>
        \/ q[i].time = 0
        \/ taken[q[i].acct] # None /\ q[i].time <= taken[q[i].acct] + RESUBSCRIBE_MAX

QueueInv ==
    /\ TypeOK /\ Sorted(next_) /\ OneEach(next_, subs_)
    /\ connected_ => Scheduled(next_, takenAt)

LEMMA OneEachCounts ==
    ASSUME NEW q \in Seq(Entries), NEW S \in SUBSET Accounts, OneEach(q, S), NEW a \in Accounts
    PROVE  Cardinality({i \in DOMAIN q : q[i].acct = a}) = IF a \in S THEN 1 ELSE 0
<1> DEFINE I == {i \in DOMAIN q : q[i].acct = a}
<1>0. \A i \in I : IsLive(q[i])
  BY ResubscriptionAssumptions DEF IsLive
<1>1. CASE a \in S
  <2>1. PICK i \in DOMAIN q : q[i].acct = a
    BY <1>1 DEF OneEach
  <2>2. I = {i}
    BY <1>0, <2>1 DEF OneEach
  <2> HIDE DEF I
  <2>3. Cardinality(I) = 1
    BY <2>2, FS_Singleton
  <2>. QED BY <1>1, <2>3 DEF I
<1>2. CASE a \notin S
  <2>1. I = {}
    BY <1>0, <1>2 DEF OneEach
  <2> HIDE DEF I
  <2>2. Cardinality(I) = 0
    BY <2>1, FS_EmptySet
  <2>. QED BY <1>2, <2>2 DEF I
<1>. QED BY <1>1, <1>2

LEMMA QueueInvImplies == QueueInv => QueueSorted /\ OneLiveEntry /\ RenewalScheduled
<1> SUFFICES ASSUME QueueInv PROVE QueueSorted /\ OneLiveEntry /\ RenewalScheduled
  OBVIOUS
<1>1. QueueSorted
  BY DEF QueueInv, QueueSorted
<1>2. OneLiveEntry
  BY OneEachCounts DEF QueueInv, OneLiveEntry, TypeOK
<1>3. RenewalScheduled
  BY DEF QueueInv, RenewalScheduled, Scheduled
<1>. QED BY <1>1, <1>2, <1>3

(* Some entries are lazily deleted. *)
LEMMA ClearedEffect ==
    ASSUME NEW q \in Seq(Entries), NEW G \in SUBSET Accounts, NEW r,
           r = [i \in DOMAIN q |-> IF q[i].acct \in G THEN [q[i] EXCEPT !.acct = None] ELSE q[i]]
    PROVE  /\ r \in Seq(Entries) /\ DOMAIN r = DOMAIN q /\ Len(r) = Len(q)
           /\ \A i \in DOMAIN q :
                /\ r[i].time = q[i].time
                /\ r[i].acct = IF q[i].acct \in G THEN None ELSE q[i].acct
<1>1. /\ Len(q) \in Nat /\ DOMAIN q = 1..Len(q)
      /\ \A i \in 1..Len(q) : q[i] \in Entries
  BY EntriesOf
<1>2. ASSUME NEW i \in 1..Len(q)
      PROVE  /\ r[i] \in Entries /\ r[i].time = q[i].time
             /\ r[i].acct = IF q[i].acct \in G THEN None ELSE q[i].acct
  <2>1. q[i] \in Entries
    BY <1>1
  <2>2. CASE q[i].acct \in G
    <3>1. r[i] = [q[i] EXCEPT !.acct = None]
      BY <1>1, <2>2
    <3>. QED BY <2>1, <2>2, <3>1 DEF Entries
  <2>3. CASE q[i].acct \notin G
    <3>1. r[i] = q[i]
      BY <1>1, <2>3
    <3>. QED BY <2>1, <2>3, <3>1
  <2>. QED BY <2>2, <2>3
<1>3. r \in [1..Len(q) -> Entries]
  BY <1>1, <1>2
<1>4. r \in Seq(Entries) /\ Len(r) = Len(q) /\ DOMAIN r = 1..Len(q)
  BY <1>1, <1>3, FunctionIsSeq
<1>. QED BY <1>1, <1>2, <1>4

LEMMA ResetTimesEffect ==
    ASSUME NEW q \in Seq(Entries)
    PROVE  /\ ResetTimes(q) \in Seq(Entries) /\ DOMAIN ResetTimes(q) = DOMAIN q
           /\ Sorted(ResetTimes(q))
           /\ \A i \in DOMAIN q :
                ResetTimes(q)[i].time = 0 /\ ResetTimes(q)[i].acct = q[i].acct
<1> DEFINE r == ResetTimes(q)
<1>1. /\ Len(q) \in Nat /\ DOMAIN q = 1..Len(q)
      /\ \A i \in 1..Len(q) : q[i] \in Entries
  BY EntriesOf
<1>2. ASSUME NEW i \in 1..Len(q)
      PROVE  r[i] \in Entries /\ r[i].time = 0 /\ r[i].acct = q[i].acct
  <2>1. q[i] \in Entries
    BY <1>1
  <2>2. r[i] = [q[i] EXCEPT !.time = 0]
    BY <1>1 DEF ResetTimes
  <2>. QED BY <2>1, <2>2 DEF Entries
<1>3. r \in [1..Len(q) -> Entries]
  <2>1. r = [i \in 1..Len(q) |-> [q[i] EXCEPT !.time = 0]]
    BY <1>1 DEF ResetTimes
  <2>2. \A i \in 1..Len(q) : [q[i] EXCEPT !.time = 0] \in Entries
    BY <1>2, <2>1
  <2>. QED BY <2>1, <2>2
<1> HIDE DEF r
<1>4. r \in Seq(Entries) /\ DOMAIN r = 1..Len(q)
  BY <1>1, <1>3, FunctionIsSeq
<1>5. Sorted(r)
  BY <1>2, <1>4 DEF Sorted
<1>. QED BY <1>1, <1>2, <1>4, <1>5 DEF r

----------------------------------------------------------------------------
(* One pass of check_subs keeps all parts, and is complete if it is not    *)
(* rate-limited.                                                           *)
LEMMA PassEffect ==
    ASSUME TypeOK, NEW q \in Seq(Entries), Sorted(q), OneEach(q, subs_), Scheduled(q, takenAt),
           check_subs(q)
    PROVE  /\ next_' \in Seq(Entries) /\ Sorted(next_')
           /\ OneEach(next_', subs_) /\ Scheduled(next_', takenAt')
           /\ requests' \in [Requests -> Nat] /\ takenAt' \in [Accounts -> Nat \cup {None}]
           /\ requests'["last"] > requests["last"] =>
                \A i \in DOMAIN next_' : next_'[i].time > clock
<1> DEFINE k == DrainLength(q)
           live == {i \in 1..k : IsLive(q[i])}
           accts == {q[i].acct : i \in live}
           req == IF RateLimited(q, k) THEN "rate_limited" ELSE "last"
<1>0. /\ clock \in Nat /\ subs_ \in SUBSET Accounts /\ requests \in [Requests -> Nat]
      /\ takenAt \in [Accounts -> Nat \cup {None}]
  BY DEF TypeOK
<1>1. next_' \in Seq(Entries) /\ Sorted(next_') /\ \E f : StemsFrom(next_', q, f)
  BY <1>0, CheckSubsEffect
<1>2. PICK f : StemsFrom(next_', q, f)
  BY <1>1
<1>3. /\ requests' = IF Size(q, k) > 0 THEN [requests EXCEPT ![req] = @ + 1] ELSE requests
      /\ takenAt' = [a \in Accounts |-> IF a \in accts THEN clock ELSE takenAt[a]]
  BY DEF check_subs
<1>4. /\ k \in 0..Len(q)
      /\ k < Len(q) => q[k + 1].time > clock \/ RateLimited(q, k)
  BY <1>0, DrainLengthEffect
<1>5. /\ Len(q) \in Nat /\ DOMAIN q = 1..Len(q)
      /\ \A i \in 1..Len(q) : q[i].time \in Nat /\ q[i].acct \in Accounts \cup {None}
  BY EntriesOf
<1>6. /\ Len(next_') \in Nat /\ DOMAIN next_' = 1..Len(next_')
      /\ \A i \in 1..Len(next_') : next_'[i].time \in Nat
  BY <1>1, EntriesOf
<1>7. /\ \A j \in DOMAIN next_' : f[j] \in DOMAIN q /\ f[j] \in Nat
      /\ \A i, j \in DOMAIN next_' : i # j => f[i] # f[j]
      /\ \A i \in DOMAIN q : i > k \/ IsLive(q[i]) => \E j \in DOMAIN next_' : f[j] = i
      /\ \A j \in DOMAIN next_' :
            /\ next_'[j].acct = q[f[j]].acct
            /\ f[j] <= k => /\ IsLive(q[f[j]])
                            /\ clock + RESUBSCRIBE_MIN <= next_'[j].time
                            /\ next_'[j].time <= clock + RESUBSCRIBE_MAX
            /\ f[j] > k => next_'[j].time = q[f[j]].time
  BY <1>2, <1>5 DEF StemsFrom
<1>8. \A j \in DOMAIN next_' : IsLive(next_'[j]) <=> IsLive(q[f[j]])
  BY <1>7 DEF IsLive
<1>9. \A i \in DOMAIN q : i \in live <=> i <= k /\ IsLive(q[i])
  BY <1>4, <1>5
<1>10. \A a : a \in accts <=> \E i \in live : q[i].acct = a
  OBVIOUS
<1>11. live \subseteq DOMAIN q
  BY <1>4, <1>5
<1> HIDE DEF k, live, accts
<1>12. OneEach(next_', subs_)
  <2>1. ASSUME NEW i \in DOMAIN next_', IsLive(next_'[i]) PROVE next_'[i].acct \in subs_
    BY <1>7, <1>8, <2>1 DEF OneEach
  <2>2. ASSUME NEW i \in DOMAIN next_', NEW j \in DOMAIN next_',
               IsLive(next_'[i]), next_'[i].acct = next_'[j].acct
        PROVE  i = j
    <3>1. f[i] = f[j]
      BY <1>7, <1>8, <2>2 DEF OneEach
    <3>. QED BY <1>7, <3>1
  <2>3. ASSUME NEW a \in subs_ PROVE \E j \in DOMAIN next_' : next_'[j].acct = a
    <3>1. PICK i \in DOMAIN q : q[i].acct = a
      BY DEF OneEach
    <3>2. IsLive(q[i])
      BY <1>0, <3>1, ResubscriptionAssumptions DEF IsLive
    <3>. QED BY <1>7, <3>1, <3>2
  <2>. QED BY <2>1, <2>2, <2>3 DEF OneEach
<1>13. Scheduled(next_', takenAt')
  <2>1. SUFFICES ASSUME NEW j \in DOMAIN next_', IsLive(next_'[j])
                 PROVE  \/ next_'[j].time = 0
                        \/ /\ takenAt'[next_'[j].acct] # None
                           /\ next_'[j].time <= takenAt'[next_'[j].acct] + RESUBSCRIBE_MAX
    BY DEF Scheduled
  <2>2. /\ f[j] \in DOMAIN q /\ f[j] \in Nat /\ IsLive(q[f[j]])
        /\ next_'[j].acct = q[f[j]].acct /\ q[f[j]].acct \in Accounts
    BY <1>0, <1>7, <1>8, <2>1 DEF OneEach
  <2>3. CASE f[j] <= k
    <3>1. next_'[j].acct \in accts
      BY <1>9, <1>10, <2>2, <2>3
    <3>2. takenAt'[next_'[j].acct] = clock
      BY <1>3, <2>2, <3>1
    <3>3. clock # None
      BY <1>0, ResubscriptionAssumptions
    <3>. QED BY <1>7, <2>3, <3>2, <3>3
  <2>4. CASE f[j] > k
    <3>1. next_'[j].acct \notin accts
      <4>1. SUFFICES ASSUME NEW i \in live, q[i].acct = q[f[j]].acct PROVE FALSE
        BY <1>10, <2>2
      <4>2. i \in DOMAIN q /\ i <= k /\ IsLive(q[i]) /\ i \in Nat
        BY <1>5, <1>9, <1>11, <4>1
      <4>3. i = f[j]
        BY <2>2, <4>1, <4>2 DEF OneEach
      <4>4. k \in Nat
        BY <1>4, <1>5
      <4>. QED BY <2>2, <2>4, <4>2, <4>3, <4>4
    <3>2. takenAt'[next_'[j].acct] = takenAt[q[f[j]].acct]
      BY <1>3, <2>2, <3>1
    <3>3. next_'[j].time = q[f[j]].time
      BY <1>7, <2>4
    <3>. QED BY <2>2, <3>2, <3>3 DEF Scheduled
  <2>5. f[j] <= k \/ f[j] > k
    BY <1>4, <1>5, <2>2
  <2>. QED BY <2>3, <2>4, <2>5
<1>14. requests' \in [Requests -> Nat]
  BY <1>0, <1>3 DEF Requests
<1>15. takenAt' \in [Accounts -> Nat \cup {None}]
  BY <1>0, <1>3
<1>16. ASSUME requests'["last"] > requests["last"], NEW j \in DOMAIN next_'
       PROVE  next_'[j].time > clock
  <2>1. ~RateLimited(q, k)
    <3>1. SUFFICES ASSUME RateLimited(q, k) PROVE requests'["last"] = requests["last"]
      <4>1. requests["last"] \in Nat
        BY <1>0 DEF Requests
      <4>. QED BY <1>16, <4>1
    <3>2. req = "rate_limited"
      BY <3>1
    <3>. QED BY <1>0, <1>3, <3>2 DEF Requests
  <2>2. f[j] \in 1..Len(q) /\ f[j] \in Nat /\ next_'[j].time \in Nat
    BY <1>5, <1>6, <1>7
  <2>3. CASE f[j] <= k
    <3>1. clock + RESUBSCRIBE_MIN <= next_'[j].time
      BY <1>7, <2>3
    <3>. QED BY <1>0, <2>2, <3>1, ResubscriptionAssumptions
  <2>4. CASE f[j] > k
    <3>1. k < Len(q) /\ k + 1 \in 1..Len(q) /\ (f[j] = k + 1 \/ k + 1 < f[j])
      BY <1>4, <1>5, <2>2, <2>4
    <3>2. q[k + 1].time > clock
      BY <1>4, <2>1, <3>1
    <3>3. q[k + 1].time <= q[f[j]].time
      BY <1>5, <2>2, <3>1 DEF Sorted
    <3>4. q[k + 1].time \in Nat /\ q[f[j]].time \in Nat /\ next_'[j].time = q[f[j]].time
      BY <1>5, <1>7, <2>2, <2>4, <3>1
    <3>. QED BY <1>0, <3>2, <3>3, <3>4
  <2>5. f[j] <= k \/ f[j] > k
    BY <1>4, <1>5, <2>2
  <2>. QED BY <2>3, <2>4, <2>5
<1>. QED BY <1>1, <1>12, <1>13, <1>14, <1>15, <1>16

----------------------------------------------------------------------------
(* The table of due times that the queue stands for.                       *)

(* The due time of an account is that of its live entry. *)
LEMMA DueOfEntry ==
    ASSUME NEW q \in Seq(Entries), NEW S \in SUBSET Accounts, OneEach(q, S)
    PROVE  /\ \A a \in Accounts : a \notin S => DueOf(q, S)[a] = None
           /\ \A i \in DOMAIN q : IsLive(q[i]) => DueOf(q, S)[q[i].acct] = q[i].time
           /\ \A a \in S : \E i \in DOMAIN q :
                q[i].acct = a /\ IsLive(q[i]) /\ DueOf(q, S)[a] = q[i].time
           /\ \A a \in S : DueOf(q, S)[a] \in Nat /\ DueOf(q, S)[a] # None
<1>0. \A i \in DOMAIN q : q[i].time \in Nat
  BY EntriesOf
<1>1. ASSUME NEW i \in DOMAIN q, IsLive(q[i]) PROVE DueOf(q, S)[q[i].acct] = q[i].time
  <2> DEFINE j == CHOOSE j \in DOMAIN q : q[j].acct = q[i].acct
  <2>1. j \in DOMAIN q /\ q[j].acct = q[i].acct
    OBVIOUS
  <2>2. q[i].acct \in S /\ q[i].acct \in Accounts
    BY <1>1 DEF OneEach
  <2>3. DueOf(q, S)[q[i].acct] = q[j].time
    BY <2>2 DEF DueOf
  <2> HIDE DEF j
  <2>4. j = i
    BY <1>1, <2>1 DEF OneEach, IsLive
  <2>. QED BY <2>3, <2>4
<1>2. ASSUME NEW a \in S
      PROVE  \E i \in DOMAIN q : q[i].acct = a /\ IsLive(q[i]) /\ DueOf(q, S)[a] = q[i].time
  <2>1. PICK i \in DOMAIN q : q[i].acct = a
    BY DEF OneEach
  <2>2. IsLive(q[i])
    BY <2>1, ResubscriptionAssumptions DEF IsLive
  <2>. QED BY <1>1, <2>1, <2>2
<1>3. \A a \in S : DueOf(q, S)[a] \in Nat /\ DueOf(q, S)[a] # None
  BY <1>0, <1>2, ResubscriptionAssumptions
<1>4. \A a \in Accounts : a \notin S => DueOf(q, S)[a] = None
  BY DEF DueOf
<1>. QED BY <1>1, <1>2, <1>3, <1>4

(* Queues that agree on the live entries give the same due times. *)
LEMMA SameDue ==
    ASSUME NEW q \in Seq(Entries), NEW S \in SUBSET Accounts, OneEach(q, S),
           NEW D, D = [a \in Accounts |-> D[a]],
           \A a \in Accounts : a \notin S => D[a] = None,
           \A i \in DOMAIN q : IsLive(q[i]) => D[q[i].acct] = q[i].time
    PROVE  DueOf(q, S) = D
<1>1. ASSUME NEW a \in Accounts PROVE DueOf(q, S)[a] = D[a]
  <2>1. CASE a \in S
    <3>1. PICK i \in DOMAIN q : q[i].acct = a /\ IsLive(q[i]) /\ DueOf(q, S)[a] = q[i].time
      BY <2>1, DueOfEntry
    <3>. QED BY <3>1
  <2>2. CASE a \notin S
    BY <2>2, DueOfEntry
  <2>. QED BY <2>1, <2>2
<1>. QED BY <1>1 DEF DueOf

----------------------------------------------------------------------------
LEMMA InitQueueInv == Init => QueueInv
<1> SUFFICES ASSUME Init PROVE QueueInv
  OBVIOUS
<1>1. next_ = <<>> /\ next_ \in Seq(Entries) /\ DOMAIN next_ = {}
  BY DEF Init
<1>2. TypeOK
  BY <1>1 DEF Init, TypeOK, Never
<1>. QED BY <1>1, <1>2 DEF Init, QueueInv, Sorted, OneEach, Scheduled

(* A new entry at the front, at system_epoch. *)
LEMMA AddAccountInv ==
    ASSUME QueueInv, NEW a \in Accounts, NEW force_now \in BOOLEAN, add_account(a, force_now)
    PROVE  QueueInv' /\ (Service!Demand(a) \/ UNCHANGED Service!vars)
<1> DEFINE u == [i \in DOMAIN next_ |->
                IF next_[i].acct \in {a} THEN [next_[i] EXCEPT !.acct = None] ELSE next_[i]]
           e == [acct |-> a, time |-> 0]
<1>0. /\ TypeOK /\ Sorted(next_) /\ OneEach(next_, subs_)
      /\ next_ \in Seq(Entries) /\ subs_ \in SUBSET Accounts
  BY DEF QueueInv, TypeOK
<1>1. subs_' = subs_ \cup {a} /\ UNCHANGED <<clock, connected_, requests, again, takenAt>>
  BY DEF add_account, traffic
<1>2. CASE a \in subs_ /\ ~force_now
  <2>1. next_' = next_ /\ subs_' = subs_
    BY <1>1, <1>2 DEF add_account
  <2>2. QueueInv'
    BY <1>1, <2>1 DEF QueueInv, TypeOK
  <2>3. UNCHANGED Service!vars
    BY <1>1, <2>1 DEF Service!vars, DueOf
  <2>. QED BY <2>2, <2>3
<1>3. CASE ~(a \in subs_ /\ ~force_now)
  <2>1. next_' = <<e>> \o u
    <3>1. /\ Len(next_) \in Nat /\ DOMAIN next_ = 1..Len(next_)
          /\ next_ = [i \in DOMAIN next_ |-> next_[i]]
      BY <1>0, EntriesOf
    <3>2. a # None
      BY ResubscriptionAssumptions
    <3>3. CASE a \notin subs_
      <4>1. \A i \in DOMAIN next_ : next_[i].acct # a
        BY <1>0, <3>2, <3>3 DEF OneEach, IsLive
      <4>2. u = [i \in DOMAIN next_ |-> next_[i]]
        BY <4>1
      <4>3. next_' = <<e>> \o next_
        BY <3>3 DEF add_account
      <4>. QED BY <3>1, <4>2, <4>3
    <3>4. CASE a \in subs_
      <4>1. \A i, j \in DOMAIN next_ : next_[i].acct = a /\ next_[j].acct = a => i = j
        BY <1>0, <3>2 DEF OneEach, IsLive
      <4>2. \A i \in DOMAIN next_ : \A j \in 1..(i - 1) : j \in DOMAIN next_ /\ j # i
        BY <3>1
      <4>3. \A i \in DOMAIN next_ : next_[i].acct = a =>
                \A j \in 1..(i - 1) : next_[j].acct # a
        BY <4>1, <4>2
      <4>4. u = Unqueue(next_, a)
        BY <4>3 DEF Unqueue
      <4>5. next_' = <<e>> \o Unqueue(next_, a)
        BY <1>3, <3>4 DEF add_account
      <4>. QED BY <4>4, <4>5
    <3>. QED BY <3>3, <3>4
  <2>2. u = [i \in DOMAIN next_ |->
                IF next_[i].acct \in {a} THEN [next_[i] EXCEPT !.acct = None] ELSE next_[i]]
    OBVIOUS
  <2> HIDE DEF u
  <2>3. /\ u \in Seq(Entries) /\ DOMAIN u = DOMAIN next_ /\ Len(u) = Len(next_)
        /\ \A i \in DOMAIN next_ :
            /\ u[i].time = next_[i].time
            /\ u[i].acct = IF next_[i].acct \in {a} THEN None ELSE next_[i].acct
    <3> DEFINE G == {a}
    <3>1. G \in SUBSET Accounts
      OBVIOUS
    <3>2. u = [i \in DOMAIN next_ |->
                IF next_[i].acct \in G THEN [next_[i] EXCEPT !.acct = None] ELSE next_[i]]
      BY <2>2
    <3> HIDE DEF G
    <3>3. /\ u \in Seq(Entries) /\ DOMAIN u = DOMAIN next_ /\ Len(u) = Len(next_)
          /\ \A i \in DOMAIN next_ :
                /\ u[i].time = next_[i].time
                /\ u[i].acct = IF next_[i].acct \in G THEN None ELSE next_[i].acct
      BY <1>0, <3>1, <3>2, ClearedEffect, SMTT(30)
    <3>. QED BY <3>3 DEF G
  <2>4. e \in Entries /\ e.acct = a /\ e.time = 0
    BY DEF Entries
  <2> HIDE DEF e
  <2>5. <<e>> \in Seq(Entries) /\ Len(<<e>>) = 1 /\ <<e>>[1] = e
    BY <2>4
  <2> DEFINE n == Len(next_)
  <2>6. /\ n \in Nat /\ DOMAIN next_ = 1..n
        /\ \A i \in 1..n : next_[i].time \in Nat
    BY <1>0, EntriesOf
  <2>7. /\ <<e>> \o u \in Seq(Entries)
        /\ Len(<<e>> \o u) = 1 + n
        /\ \A i \in 1..(1 + n) : (<<e>> \o u)[i] = IF i <= 1 THEN <<e>>[i] ELSE u[i - 1]
    BY <2>3, <2>5, ConcatProperties
  <2> HIDE DEF n
  <2>8. next_' \in Seq(Entries) /\ DOMAIN next_' = 1..(1 + n) /\ next_'[1] = e
    BY <2>1, <2>5, <2>6, <2>7
  <2>9. ASSUME NEW i \in 2..(1 + n)
        PROVE  /\ i - 1 \in 1..n /\ next_'[i].time = next_[i - 1].time
               /\ next_'[i].acct = IF next_[i - 1].acct = a THEN None ELSE next_[i - 1].acct
    <3>1. i - 1 \in 1..n /\ i \in 1..(1 + n) /\ ~(i <= 1)
      BY <2>6
    <3>2. next_'[i] = u[i - 1]
      BY <2>1, <2>7, <3>1
    <3>. QED BY <2>3, <2>6, <3>1, <3>2
  <2>10. /\ \A i \in 1..(1 + n) : i = 1 \/ i \in 2..(1 + n)
         /\ \A i \in 1..n : i + 1 \in 2..(1 + n) /\ (i + 1) - 1 = i /\ i + 1 \in 1..(1 + n)
         /\ \A i, j \in 2..(1 + n) : /\ i < j => i - 1 < j - 1
                                     /\ i - 1 = j - 1 => i = j
    BY <2>6
  <2>11. Sorted(next_')
    <3>1. SUFFICES ASSUME NEW i \in 1..(1 + n), NEW j \in 1..(1 + n), i < j
                   PROVE  next_'[i].time <= next_'[j].time
      BY <2>8 DEF Sorted
    <3>2. j \in 2..(1 + n)
      BY <2>6, <3>1
    <3>3. CASE i = 1
      BY <2>4, <2>6, <2>8, <2>9, <3>2, <3>3
    <3>4. CASE i \in 2..(1 + n)
      <4>1. next_[i - 1].time <= next_[j - 1].time
        BY <1>0, <2>6, <2>9, <2>10, <3>1, <3>2, <3>4 DEF Sorted
      <4>. QED BY <2>9, <3>2, <3>4, <4>1
    <3>. QED BY <2>10, <3>3, <3>4
  <2>12. a # None
    BY ResubscriptionAssumptions
  <2>13. OneEach(next_', subs_')
    <3>1. ASSUME NEW i \in 1..(1 + n), IsLive(next_'[i]) PROVE next_'[i].acct \in subs_'
      <4>1. CASE i = 1
        BY <1>1, <2>4, <2>8, <4>1
      <4>2. CASE i \in 2..(1 + n)
        BY <1>0, <1>1, <2>6, <2>9, <3>1, <4>2 DEF OneEach, IsLive
      <4>. QED BY <2>10, <4>1, <4>2
    <3>2. ASSUME NEW i \in 1..(1 + n), NEW j \in 1..(1 + n), IsLive(next_'[i]),
                 next_'[i].acct = next_'[j].acct
          PROVE  i = j
      <4>1. \A m \in 2..(1 + n) : next_'[m].acct # a
        BY <2>9, <2>12
      <4>2. CASE i = 1 \/ j = 1
        BY <2>4, <2>8, <2>10, <3>2, <4>1, <4>2
      <4>3. CASE i \in 2..(1 + n) /\ j \in 2..(1 + n)
        <5>1. /\ IsLive(next_[i - 1]) /\ next_[i - 1].acct = next_[j - 1].acct
              /\ i - 1 \in 1..n /\ j - 1 \in 1..n
          BY <2>9, <3>2, <4>3 DEF IsLive
        <5>2. i - 1 = j - 1
          BY <1>0, <2>6, <5>1 DEF OneEach
        <5>. QED BY <2>10, <4>3, <5>2
      <4>. QED BY <2>10, <4>2, <4>3
    <3>3. ASSUME NEW b \in subs_' PROVE \E i \in 1..(1 + n) : next_'[i].acct = b
      <4>1. CASE b = a
        BY <2>4, <2>6, <2>8, <4>1
      <4>2. CASE b # a
        <5>1. PICK i \in 1..n : next_[i].acct = b
          BY <1>0, <1>1, <2>6, <4>2 DEF OneEach
        <5>2. next_'[i + 1].acct = b
          BY <2>9, <2>10, <4>2, <5>1
        <5>. QED BY <2>10, <5>2
      <4>. QED BY <4>1, <4>2
    <3>. QED BY <2>8, <3>1, <3>2, <3>3 DEF OneEach
  <2>14. connected_ => Scheduled(next_', takenAt)
    <3>1. SUFFICES ASSUME connected_, NEW i \in 1..(1 + n), IsLive(next_'[i])
                   PROVE  \/ next_'[i].time = 0
                          \/ /\ takenAt[next_'[i].acct] # None
                             /\ next_'[i].time <= takenAt[next_'[i].acct] + RESUBSCRIBE_MAX
      BY <2>8 DEF Scheduled
    <3>2. CASE i = 1
      BY <2>4, <2>8, <3>2
    <3>3. CASE i \in 2..(1 + n)
      <4>1. /\ IsLive(next_[i - 1]) /\ next_'[i].acct = next_[i - 1].acct
            /\ next_'[i].time = next_[i - 1].time /\ i - 1 \in DOMAIN next_
        BY <2>6, <2>9, <3>1, <3>3 DEF IsLive
      <4>2. Scheduled(next_, takenAt)
        BY <3>1 DEF QueueInv
      <4>. QED BY <4>1, <4>2 DEF Scheduled
    <3>. QED BY <2>10, <3>2, <3>3
  <2>15. TypeOK'
    BY <1>0, <1>1, <2>8 DEF TypeOK
  <2>16. DueOf(next_', subs_') = [DueOf(next_, subs_) EXCEPT ![a] = 0]
    <3> DEFINE due == DueOf(next_, subs_)
               D == [due EXCEPT ![a] = 0]
    <3>1. due = [b \in Accounts |-> due[b]]
      BY DEF DueOf
    <3>2. /\ \A b \in Accounts : b \notin subs_ => due[b] = None
          /\ \A i \in DOMAIN next_ : IsLive(next_[i]) => due[next_[i].acct] = next_[i].time
      BY <1>0, DueOfEntry
    <3> HIDE DEF due
    <3>3. D = [b \in Accounts |-> D[b]] /\ D[a] = 0 /\ \A b \in Accounts \ {a} : D[b] = due[b]
      BY <3>1
    <3> HIDE DEF D
    <3>4. \A b \in Accounts : b \notin subs_' => D[b] = None
      BY <1>1, <3>2, <3>3
    <3>5. ASSUME NEW i \in DOMAIN next_', IsLive(next_'[i]) PROVE D[next_'[i].acct] = next_'[i].time
      <4>1. CASE i = 1
        BY <2>4, <2>8, <3>3, <4>1
      <4>2. CASE i \in 2..(1 + n)
        <5>1. /\ IsLive(next_[i - 1]) /\ next_'[i].acct = next_[i - 1].acct
              /\ next_[i - 1].acct # a /\ next_'[i].time = next_[i - 1].time
              /\ i - 1 \in DOMAIN next_
          BY <2>6, <2>9, <3>5, <4>2 DEF IsLive
        <5>2. next_[i - 1].acct \in Accounts
          BY <1>0, <5>1 DEF OneEach
        <5>. QED BY <3>2, <3>3, <5>1, <5>2
      <4>. QED BY <2>8, <2>10, <4>1, <4>2
    <3>6. subs_' \in SUBSET Accounts
      BY <1>0, <1>1
    <3>7. next_' \in Seq(Entries) /\ D = [b \in Accounts |-> D[b]]
      BY <2>8, <3>3
    <3>8. DueOf(next_', subs_') = D
      BY <2>13, <3>4, <3>5, <3>6, <3>7, SameDue
    <3>. QED BY <3>8 DEF D, due
  <2>17. Service!Demand(a)
    <3>1. DueOf(next_, subs_)' = DueOf(next_', subs_')
      BY DEF DueOf
    <3>. QED BY <1>1, <2>16, <3>1 DEF Service!Demand
  <2>18. QueueInv'
    BY <1>1, <2>11, <2>13, <2>14, <2>15 DEF QueueInv
  <2>. QED BY <2>17, <2>18
<1>. QED BY <1>2, <1>3

LEMMA RemoveStaleInv ==
    ASSUME QueueInv, NEW gone \in SUBSET subs_, remove_stale_swarm_members(gone)
    PROVE  QueueInv'
<1>0. /\ TypeOK /\ Sorted(next_) /\ OneEach(next_, subs_)
      /\ next_ \in Seq(Entries) /\ subs_ \in SUBSET Accounts
  BY DEF QueueInv, TypeOK
<1>1. subs_' = subs_ \ gone /\ UNCHANGED <<clock, connected_, requests, again, takenAt>>
  BY DEF remove_stale_swarm_members, traffic
<1>2. next_' = [i \in DOMAIN next_ |->
        IF next_[i].acct \in gone THEN [next_[i] EXCEPT !.acct = None] ELSE next_[i]]
  BY DEF remove_stale_swarm_members
<1>3. gone \in SUBSET Accounts
  BY <1>0
<1>4. /\ next_' \in Seq(Entries) /\ DOMAIN next_' = DOMAIN next_
      /\ \A i \in DOMAIN next_ :
            /\ next_'[i].time = next_[i].time
            /\ next_'[i].acct = IF next_[i].acct \in gone THEN None ELSE next_[i].acct
  BY <1>0, <1>2, <1>3, ClearedEffect, SMTT(30)
<1>5. \A i \in DOMAIN next_ : IsLive(next_'[i]) =>
        IsLive(next_[i]) /\ next_'[i].acct = next_[i].acct /\ next_[i].acct \notin gone
  BY <1>4 DEF IsLive
<1>6. Sorted(next_')
  BY <1>0, <1>4 DEF Sorted
<1>7. OneEach(next_', subs_')
  <2>1. ASSUME NEW i \in DOMAIN next_, IsLive(next_'[i]) PROVE next_'[i].acct \in subs_'
    BY <1>0, <1>1, <1>5, <2>1 DEF OneEach
  <2>2. ASSUME NEW i \in DOMAIN next_, NEW j \in DOMAIN next_, IsLive(next_'[i]),
               next_'[i].acct = next_'[j].acct
        PROVE  i = j
    <3>1. IsLive(next_'[j])
      BY <2>2 DEF IsLive
    <3>. QED BY <1>0, <1>5, <2>2, <3>1 DEF OneEach
  <2>3. ASSUME NEW b \in subs_' PROVE \E i \in DOMAIN next_ : next_'[i].acct = b
    BY <1>0, <1>1, <1>4 DEF OneEach
  <2>. QED BY <1>4, <2>1, <2>2, <2>3 DEF OneEach
<1>8. connected_ => Scheduled(next_', takenAt)
  BY <1>4, <1>5 DEF QueueInv, Scheduled
<1>9. TypeOK'
  BY <1>0, <1>1, <1>4 DEF TypeOK
<1>. QED BY <1>1, <1>6, <1>7, <1>8, <1>9 DEF QueueInv

(* The steps that call check_subs. *)
LEMMA PassInv ==
    ASSUME QueueInv, NEW q, check_subs(q),
           (q = next_ /\ connected_) \/ q = ResetTimes(next_),
           connected_' \in BOOLEAN, again' \in BOOLEAN, UNCHANGED <<clock, subs_>>
    PROVE  /\ QueueInv'
           /\ requests'["last"] > requests["last"] =>
                \A i \in DOMAIN next_' : next_'[i].time > clock
<1>0. /\ TypeOK /\ Sorted(next_) /\ OneEach(next_, subs_) /\ next_ \in Seq(Entries)
  BY DEF QueueInv, TypeOK
<1>1. q \in Seq(Entries) /\ Sorted(q) /\ OneEach(q, subs_) /\ Scheduled(q, takenAt)
  <2>1. CASE q = next_ /\ connected_
    BY <1>0, <2>1 DEF QueueInv
  <2>2. CASE q = ResetTimes(next_)
    <3>1. /\ q \in Seq(Entries) /\ DOMAIN q = DOMAIN next_ /\ Sorted(q)
          /\ \A i \in DOMAIN next_ : q[i].time = 0 /\ q[i].acct = next_[i].acct
      BY <1>0, <2>2, ResetTimesEffect
    <3>2. OneEach(q, subs_)
      BY <1>0, <3>1 DEF OneEach, IsLive
    <3>3. Scheduled(q, takenAt)
      BY <3>1 DEF Scheduled
    <3>. QED BY <3>1, <3>2, <3>3
  <2>. QED BY <2>1, <2>2
<1>2. /\ next_' \in Seq(Entries) /\ Sorted(next_')
      /\ OneEach(next_', subs_) /\ Scheduled(next_', takenAt')
      /\ requests' \in [Requests -> Nat] /\ takenAt' \in [Accounts -> Nat \cup {None}]
      /\ requests'["last"] > requests["last"] =>
            \A i \in DOMAIN next_' : next_'[i].time > clock
  BY <1>0, <1>1, PassEffect
<1>3. TypeOK'
  BY <1>0, <1>2 DEF TypeOK
<1>. QED BY <1>2, <1>3 DEF QueueInv

(* What DrainComplete says of one step. *)
Complete ==
    \A r \in Requests : requests'[r] > requests[r] =>
        r = "rate_limited" \/ \A i \in DOMAIN next_' : next_'[i].time > clock

LEMMA NextQueueInv == QueueInv /\ [Next]_vars => QueueInv' /\ (Complete \/ UNCHANGED vars)
<1> SUFFICES ASSUME QueueInv, [Next]_vars PROVE QueueInv' /\ (Complete \/ UNCHANGED vars)
  OBVIOUS
<1>0. TypeOK /\ requests \in [Requests -> Nat]
  BY DEF QueueInv, TypeOK
<1>a. \A r \in Requests : requests[r] \in Nat
  BY <1>0
<1>b. requests' = requests => Complete
  BY <1>a DEF Complete
<1>c. (requests'["last"] > requests["last"] => \A i \in DOMAIN next_' : next_'[i].time > clock)
        => Complete
  BY DEF Complete, Requests
<1>1. ASSUME NEW a \in Accounts, NEW force_now \in BOOLEAN, add_account(a, force_now)
      PROVE  QueueInv' /\ Complete
  BY <1>1, <1>b, AddAccountInv DEF add_account, traffic
<1>2. ASSUME reset_swarm PROVE QueueInv' /\ Complete
  <2>1. /\ next_' = <<>> /\ next_' \in Seq(Entries) /\ DOMAIN next_' = {} /\ subs_' = {}
        /\ UNCHANGED <<clock, connected_, requests, again, takenAt>>
    BY <1>2 DEF reset_swarm, traffic
  <2>2. TypeOK'
    BY <1>0, <2>1 DEF TypeOK
  <2>. QED BY <1>b, <2>1, <2>2 DEF QueueInv, Sorted, OneEach, Scheduled
<1>3. ASSUME NEW gone \in SUBSET subs_, remove_stale_swarm_members(gone)
      PROVE  QueueInv' /\ Complete
  BY <1>3, <1>b, RemoveStaleInv DEF remove_stale_swarm_members, traffic
<1>4. ASSUME TimerCheck PROVE QueueInv' /\ Complete
  <2>1. /\ connected_ /\ connected_' = connected_ /\ check_subs(next_) /\ again' = again
        /\ UNCHANGED <<clock, subs_>>
    BY <1>4 DEF TimerCheck
  <2>2. connected_' \in BOOLEAN /\ again' \in BOOLEAN
    BY <1>0, <2>1 DEF TypeOK
  <2>. QED BY <1>c, <2>1, <2>2, PassInv
<1>5. ASSUME CheckAgain PROVE QueueInv' /\ Complete
  <2>1. connected_' = connected_ /\ again' = FALSE /\ UNCHANGED <<clock, subs_>>
    BY <1>5 DEF CheckAgain
  <2>2. connected_' \in BOOLEAN /\ again' \in BOOLEAN
    BY <1>0, <2>1 DEF TypeOK
  <2>3. CASE connected_
    <3>1. check_subs(next_)
      BY <1>5, <2>3 DEF CheckAgain
    <3>. QED BY <1>c, <2>1, <2>2, <2>3, <3>1, PassInv
  <2>4. CASE ~connected_
    <3>1. UNCHANGED <<next_, requests, takenAt>>
      BY <1>5, <2>4 DEF CheckAgain
    <3>2. TypeOK'
      BY <1>0, <2>1, <2>2, <3>1 DEF TypeOK
    <3>. QED BY <1>b, <2>1, <3>1, <3>2 DEF QueueInv
  <2>. QED BY <2>3, <2>4
<1>6. ASSUME on_connected PROVE QueueInv' /\ Complete
  <2>1. /\ connected_' = TRUE /\ check_subs(ResetTimes(next_)) /\ again' = again
        /\ UNCHANGED <<clock, subs_>>
    BY <1>6 DEF on_connected
  <2>2. connected_' \in BOOLEAN /\ again' \in BOOLEAN
    BY <1>0, <2>1 DEF TypeOK
  <2>. QED BY <1>c, <2>1, <2>2, PassInv
<1>7. ASSUME on_disconnected PROVE QueueInv' /\ Complete
  <2>1. /\ connected_' = FALSE /\ UNCHANGED <<clock, subs_, next_, again>>
        /\ requests' = [r \in Requests |-> 0] /\ takenAt' = Never
    BY <1>7 DEF on_disconnected, queue
  <2>2. TypeOK'
    BY <1>0, <2>1 DEF TypeOK, Never
  <2>3. Complete
    BY <1>a, <2>1 DEF Complete
  <2>. QED BY <2>1, <2>2, <2>3 DEF QueueInv
<1>8. ASSUME NEW r \in Requests, MonitorAccepted(r) \/ MonitorFails(r)
      PROVE  QueueInv' /\ Complete
  <2>1. /\ requests[r] > 0 /\ requests' = [requests EXCEPT ![r] = @ - 1]
        /\ UNCHANGED <<clock, connected_, subs_, next_, takenAt>>
    BY <1>8 DEF MonitorAccepted, MonitorFails, queue
  <2>2. again' \in BOOLEAN
    BY <1>0, <1>8, Zenon DEF MonitorAccepted, MonitorFails, TypeOK
  <2>3. TypeOK'
    BY <1>0, <1>a, <2>1, <2>2 DEF TypeOK
  <2>4. Complete
    BY <1>0, <1>a, <2>1 DEF Complete
  <2>. QED BY <2>1, <2>3, <2>4 DEF QueueInv
<1>9. ASSUME Tick PROVE QueueInv' /\ Complete
  <2>1. clock' = clock + 1 /\ UNCHANGED <<connected_, subs_, next_, requests, again, takenAt>>
    BY <1>9 DEF Tick, queue, traffic
  <2>2. TypeOK'
    BY <1>0, <2>1 DEF TypeOK
  <2>. QED BY <1>b, <2>1, <2>2 DEF QueueInv
<1>10. CASE UNCHANGED vars
  BY <1>10 DEF QueueInv, TypeOK, vars, queue, traffic
<1>. QED
  BY <1>1, <1>2, <1>3, <1>4, <1>5, <1>6, <1>7, <1>8, <1>9, <1>10 DEF Next

----------------------------------------------------------------------------
(* Type correctness of the queue, the requests and the times, for queues   *)
(* of any length.                                                          *)
THEOREM TypeCorrect == Spec => []TypeOK
<1>1. QueueInv => TypeOK
  BY DEF QueueInv
<1>. QED BY InitQueueInv, NextQueueInv, <1>1, PTL DEF Spec

(* The queue is sorted after every step: after forced insertions at the    *)
(* front, drains that stop anywhere and any choice of delays, sorting only *)
(* from now + RESUBSCRIBE_MIN is enough (add_account, check_subs).         *)
THEOREM QueueSortedHolds == Spec => []QueueSorted
<1>. QED BY InitQueueInv, NextQueueInv, QueueInvImplies, PTL DEF Spec

(* Each account of the node has exactly one entry that is not lazily       *)
(* deleted, and nobody else has one: no account is lost or doubled by      *)
(* add_account, remove_stale_swarm_members or check_subs.                  *)
THEOREM OneLiveEntryHolds == Spec => []OneLiveEntry
<1>. QED BY InitQueueInv, NextQueueInv, QueueInvImplies, PTL DEF Spec

(* Over one connection each account is due at once, or was submitted and   *)
(* is renewed at most RESUBSCRIBE_MAX later (on_connected, check_subs).    *)
THEOREM RenewalScheduledHolds == Spec => []RenewalScheduled
<1>. QED BY InitQueueInv, NextQueueInv, QueueInvImplies, PTL DEF Spec

(* A request that is not rate-limited leaves nothing due behind            *)
(* (check_subs).                                                           *)
THEOREM DrainCompleteHolds == Spec => DrainComplete
<1>1. Complete \/ UNCHANGED vars =>
        [\A r \in Requests : requests'[r] > requests[r] =>
            r = "rate_limited" \/ \A i \in DOMAIN next_' : next_'[i].time > clock]_vars
  BY DEF Complete
<1>. QED BY InitQueueInv, NextQueueInv, <1>1, PTL DEF Spec, DrainComplete

----------------------------------------------------------------------------
(* The queue implements RenewalService.                                    *)

(* A pass of check_subs renews the earliest accounts that are due. *)
LEMMA PassRenews ==
    ASSUME TypeOK, NEW q \in Seq(Entries), Sorted(q), OneEach(q, subs_), check_subs(q),
           next_' \in Seq(Entries), OneEach(next_', subs_), UNCHANGED <<clock, subs_>>
    PROVE  \E S \in SUBSET Accounts : Service!Renew(S, DueOf(q, subs_))
<1> DEFINE k == DrainLength(q)
           live == {i \in 1..k : IsLive(q[i])}
           accts == {q[i].acct : i \in live}
           due == DueOf(q, subs_)
           new == DueOf(next_', subs_)
<1>0. clock \in Nat /\ subs_ \in SUBSET Accounts
  BY DEF TypeOK
<1>1. \E f : StemsFrom(next_', q, f)
  BY <1>0, CheckSubsEffect
<1>2. PICK f : StemsFrom(next_', q, f)
  BY <1>1
<1>3. takenAt' = [a \in Accounts |-> IF a \in accts THEN clock ELSE takenAt[a]]
  BY DEF check_subs
<1>4. k \in 0..Len(q) /\ \A i \in 1..k : q[i].time <= clock
  BY <1>0, DrainLengthEffect
<1>5. Len(q) \in Nat /\ DOMAIN q = 1..Len(q) /\ \A i \in 1..Len(q) : q[i].time \in Nat
  BY EntriesOf
<1>6. \A j \in DOMAIN next_' : next_'[j].time \in Nat
  BY EntriesOf
<1>7. /\ \A i \in DOMAIN q : i > k \/ IsLive(q[i]) => \E j \in DOMAIN next_' : f[j] = i
      /\ \A j \in DOMAIN next_' :
            /\ next_'[j].acct = q[f[j]].acct
            /\ f[j] <= k => /\ clock + RESUBSCRIBE_MIN <= next_'[j].time
                            /\ next_'[j].time <= clock + RESUBSCRIBE_MAX
            /\ f[j] > k => next_'[j].time = q[f[j]].time
  BY <1>2 DEF StemsFrom
<1>8. \A i \in DOMAIN q : i \in live <=> i <= k /\ IsLive(q[i])
  BY <1>4, <1>5
<1>9. \A a : a \in accts <=> \E i \in live : q[i].acct = a
  OBVIOUS
<1>10. live \subseteq DOMAIN q
  BY <1>4, <1>5
<1>11. accts \in SUBSET subs_ /\ accts \in SUBSET Accounts
  BY <1>0, <1>8, <1>9, <1>10 DEF OneEach
<1> HIDE DEF k, live, accts
<1>12. ASSUME NEW a \in subs_
       PROVE  \E i \in DOMAIN q, j \in DOMAIN next_' :
                /\ i \in Nat /\ q[i].acct = a /\ IsLive(q[i]) /\ due[a] = q[i].time
                /\ f[j] = i /\ new[a] = next_'[j].time
                /\ a \in accts <=> i <= k
  <2>1. PICK i \in DOMAIN q : q[i].acct = a /\ IsLive(q[i]) /\ due[a] = q[i].time
    BY <1>0, DueOfEntry
  <2>2. PICK j \in DOMAIN next_' : f[j] = i
    BY <1>7, <2>1
  <2>3. next_'[j].acct = a /\ IsLive(next_'[j])
    BY <1>7, <2>1, <2>2 DEF IsLive
  <2>4. new[a] = next_'[j].time
    BY <1>0, <2>3, DueOfEntry
  <2>5. a \in accts <=> i <= k
    <3>1. ASSUME a \in accts PROVE i <= k
      <4>1. PICK m \in live : q[m].acct = a
        BY <1>9, <3>1
      <4>2. m \in DOMAIN q /\ m <= k
        BY <1>8, <1>10
      <4>3. m = i
        BY <2>1, <4>1, <4>2 DEF OneEach
      <4>. QED BY <4>2, <4>3
    <3>2. ASSUME i <= k PROVE a \in accts
      BY <1>8, <1>9, <2>1, <3>2
    <3>. QED BY <3>1, <3>2
  <2>6. i \in Nat
    BY <1>5
  <2>. QED BY <2>1, <2>2, <2>4, <2>5, <2>6
<1>a. /\ \A a \in subs_ : due[a] \in Nat /\ due[a] # None
      /\ \A a \in Accounts : a \notin subs_ => due[a] = None /\ new[a] = None
  BY <1>0, DueOfEntry
<1>b. due = [a \in Accounts |-> due[a]] /\ new = [a \in Accounts |-> new[a]]
  BY DEF DueOf
<1> HIDE DEF due, new
<1>13. ASSUME NEW a \in accts PROVE due[a] # None /\ due[a] <= clock
  <2>1. PICK i \in DOMAIN q : i \in Nat /\ due[a] = q[i].time /\ i <= k
    BY <1>11, <1>12
  <2>2. i \in 1..k
    BY <1>4, <1>5, <2>1
  <2>. QED BY <1>4, <1>11, <1>a, <2>1, <2>2
<1>14. ASSUME NEW a \in accts, NEW b \in Accounts \ accts, due[b] # None
       PROVE  due[a] <= due[b]
  <2>0. b \in subs_ /\ a \in subs_
    BY <1>11, <1>14, <1>a
  <2>1. PICK i \in DOMAIN q : i \in Nat /\ due[a] = q[i].time /\ i <= k
    BY <1>12, <2>0
  <2>2. PICK j \in DOMAIN q : j \in Nat /\ due[b] = q[j].time /\ ~(j <= k)
    BY <1>12, <2>0
  <2>3. i < j
    BY <1>4, <2>1, <2>2
  <2>. QED BY <2>1, <2>2, <2>3 DEF Sorted
<1> DEFINE delay == [a \in accts |-> new[a] - clock]
<1>15. ASSUME NEW a \in accts
       PROVE  new[a] - clock \in RESUBSCRIBE_MIN..RESUBSCRIBE_MAX /\ clock + (new[a] - clock) = new[a]
  <2>1. PICK i \in DOMAIN q, j \in DOMAIN next_' :
            i \in Nat /\ f[j] = i /\ new[a] = next_'[j].time /\ i <= k
    BY <1>11, <1>12
  <2>2. /\ next_'[j].time \in Nat /\ clock + RESUBSCRIBE_MIN <= next_'[j].time
        /\ next_'[j].time <= clock + RESUBSCRIBE_MAX
    BY <1>6, <1>7, <2>1
  <2>. QED BY <1>0, <2>1, <2>2, ResubscriptionAssumptions
<1>16. delay \in [accts -> RESUBSCRIBE_MIN..RESUBSCRIBE_MAX]
  BY <1>15
<1>17. ASSUME NEW a \in Accounts
       PROVE  new[a] = IF a \in accts THEN clock + delay[a] ELSE due[a]
  <2>1. CASE a \in accts
    BY <1>15, <2>1
  <2>2. CASE a \in subs_ \ accts
    <3>1. PICK i \in DOMAIN q, j \in DOMAIN next_' :
            /\ i \in Nat /\ due[a] = q[i].time /\ f[j] = i
            /\ new[a] = next_'[j].time /\ ~(i <= k)
      BY <1>12, <2>2
    <3>2. f[j] > k
      BY <1>4, <1>5, <3>1
    <3>3. next_'[j].time = q[i].time
      BY <1>7, <3>1, <3>2
    <3>. QED BY <2>2, <3>1, <3>3
  <2>3. CASE a \notin subs_
    BY <1>11, <1>a, <2>3
  <2>. QED BY <2>1, <2>2, <2>3
<1> HIDE DEF delay
<1>18. new = [a \in Accounts |-> IF a \in accts THEN clock + delay[a] ELSE due[a]]
  BY <1>b, <1>17
<1>19. DueOf(next_, subs_)' = new
  BY DEF new, DueOf
<1>20. \E d \in [accts -> RESUBSCRIBE_MIN..RESUBSCRIBE_MAX] :
        DueOf(next_, subs_)' = [a \in Accounts |-> IF a \in accts THEN clock + d[a] ELSE due[a]]
  BY <1>16, <1>18, <1>19
<1>21. clock' = clock
  OBVIOUS
<1>22. Service!Renew(accts, due)
  BY <1>3, <1>13, <1>14, <1>20, <1>21 DEF Service!Renew
<1>. QED BY <1>11, <1>22 DEF due

LEMMA InitImplements == Init => Service!Init
<1> SUFFICES ASSUME Init PROVE Service!Init
  OBVIOUS
<1>1. DueOf(next_, subs_) = Service!Nothing
  BY DEF Init, DueOf, Service!Nothing
<1>. QED BY <1>1 DEF Init, Service!Init, Never, Service!Nothing

(* Steps that leave the queue alone. *)
LEMMA SameQueue ==
    ASSUME UNCHANGED <<next_, subs_>>
    PROVE  DueOf(next_, subs_)' = DueOf(next_, subs_)
BY DEF DueOf

LEMMA CheckImplements ==
    ASSUME QueueInv, QueueInv', connected_, connected_' = connected_, check_subs(next_),
           UNCHANGED <<clock, subs_>>
    PROVE  Service!Check
<1>1. /\ TypeOK /\ Sorted(next_) /\ OneEach(next_, subs_) /\ next_ \in Seq(Entries)
      /\ next_' \in Seq(Entries) /\ OneEach(next_', subs_')
  BY DEF QueueInv, TypeOK
<1>2. subs_' = subs_ /\ clock' = clock
  OBVIOUS
<1>3. \E S \in SUBSET Accounts : Service!Renew(S, DueOf(next_, subs_))
  BY <1>1, <1>2, PassRenews
<1>. QED BY <1>3 DEF Service!Check

LEMMA ConnectImplements ==
    ASSUME QueueInv, QueueInv', on_connected
    PROVE  Service!Connect
<1> DEFINE q == ResetTimes(next_)
<1>1. /\ TypeOK /\ OneEach(next_, subs_) /\ next_ \in Seq(Entries) /\ subs_ \in SUBSET Accounts
      /\ next_' \in Seq(Entries) /\ OneEach(next_', subs_')
  BY DEF QueueInv, TypeOK
<1>2. /\ ~connected_ /\ connected_' = TRUE /\ check_subs(q) /\ subs_' = subs_ /\ clock' = clock
  BY DEF on_connected
<1>3. /\ q \in Seq(Entries) /\ DOMAIN q = DOMAIN next_ /\ Sorted(q)
      /\ \A i \in DOMAIN next_ : q[i].time = 0 /\ q[i].acct = next_[i].acct
  BY <1>1, ResetTimesEffect
<1> HIDE DEF q
<1>4. OneEach(q, subs_)
  BY <1>1, <1>3 DEF OneEach, IsLive
<1>5. DueOf(q, subs_) = Service!AllDue
  <2> DEFINE D == Service!AllDue
  <2>1. /\ \A a \in Accounts : a \notin subs_ => DueOf(next_, subs_)[a] = None
        /\ \A a \in subs_ : DueOf(next_, subs_)[a] # None
    BY <1>1, DueOfEntry
  <2>2. D = [a \in Accounts |-> D[a]] /\ \A a \in Accounts : D[a] = IF a \in subs_ THEN 0 ELSE None
    BY <1>1, <2>1 DEF Service!AllDue
  <2> HIDE DEF D
  <2>3. ASSUME NEW i \in DOMAIN q, IsLive(q[i]) PROVE D[q[i].acct] = q[i].time
    <3>1. q[i].acct \in subs_ /\ q[i].acct \in Accounts
      BY <1>1, <1>4, <2>3 DEF OneEach
    <3>. QED BY <1>3, <2>2, <3>1
  <2>4. DueOf(q, subs_) = D
    BY <1>1, <1>3, <1>4, <2>2, <2>3, SameDue
  <2>. QED BY <2>4 DEF D
<1>6. \E S \in SUBSET Accounts : Service!Renew(S, DueOf(q, subs_))
  BY <1>1, <1>2, <1>3, <1>4, PassRenews
<1>. QED BY <1>2, <1>5, <1>6 DEF Service!Connect

LEMMA DismissImplements ==
    ASSUME QueueInv, QueueInv', NEW gone \in SUBSET subs_, remove_stale_swarm_members(gone)
    PROVE  Service!Dismiss(gone)
<1> DEFINE due == DueOf(next_, subs_)
           D == [a \in Accounts |-> IF a \in gone THEN None ELSE due[a]]
<1>0. /\ OneEach(next_, subs_) /\ next_ \in Seq(Entries) /\ subs_ \in SUBSET Accounts
      /\ next_' \in Seq(Entries) /\ OneEach(next_', subs_') /\ subs_' \in SUBSET Accounts
  BY DEF QueueInv, TypeOK
<1>1. subs_' = subs_ \ gone /\ UNCHANGED <<clock, connected_, takenAt>>
  BY DEF remove_stale_swarm_members, traffic
<1>2. next_' = [i \in DOMAIN next_ |->
        IF next_[i].acct \in gone THEN [next_[i] EXCEPT !.acct = None] ELSE next_[i]]
  BY DEF remove_stale_swarm_members
<1>3. gone \in SUBSET Accounts
  BY <1>0
<1>4. /\ DOMAIN next_' = DOMAIN next_
      /\ \A i \in DOMAIN next_ :
            /\ next_'[i].time = next_[i].time
            /\ next_'[i].acct = IF next_[i].acct \in gone THEN None ELSE next_[i].acct
  BY <1>0, <1>2, <1>3, ClearedEffect, SMTT(30)
<1>5. /\ \A a \in Accounts : a \notin subs_ => due[a] = None
      /\ \A i \in DOMAIN next_ : IsLive(next_[i]) => due[next_[i].acct] = next_[i].time
  BY <1>0, DueOfEntry
<1> HIDE DEF due
<1>6. /\ D = [a \in Accounts |-> D[a]]
      /\ \A a \in Accounts : D[a] = IF a \in gone THEN None ELSE due[a]
  OBVIOUS
<1> HIDE DEF D
<1>7. \A a \in Accounts : a \notin subs_' => D[a] = None
  BY <1>1, <1>5, <1>6
<1>8. ASSUME NEW i \in DOMAIN next_', IsLive(next_'[i]) PROVE D[next_'[i].acct] = next_'[i].time
  <2>1. /\ i \in DOMAIN next_ /\ IsLive(next_[i]) /\ next_'[i].acct = next_[i].acct
        /\ next_[i].acct \notin gone /\ next_'[i].time = next_[i].time
    BY <1>4, <1>8 DEF IsLive
  <2>2. next_[i].acct \in Accounts
    BY <1>0, <2>1 DEF OneEach
  <2>. QED BY <1>5, <1>6, <2>1, <2>2
<1>9. DueOf(next_', subs_') = D
  BY <1>0, <1>6, <1>7, <1>8, SameDue
<1>10. DueOf(next_, subs_)' = D
  BY <1>9 DEF DueOf
<1>. QED BY <1>1, <1>10 DEF Service!Dismiss, D, due

(* Every step of the queue is a step of the table, or does not show. *)
LEMMA NextImplements ==
    QueueInv /\ QueueInv' /\ [Next]_vars => [Service!Next]_Service!vars
<1> SUFFICES ASSUME QueueInv, QueueInv', [Next]_vars
             PROVE  Service!Next \/ UNCHANGED Service!vars
  OBVIOUS
<1>1. ASSUME UNCHANGED <<clock, connected_, next_, subs_, takenAt>> PROVE UNCHANGED Service!vars
  BY <1>1, SameQueue DEF Service!vars
<1>2. ASSUME NEW a \in Accounts, NEW force_now \in BOOLEAN, add_account(a, force_now)
      PROVE  Service!Next \/ UNCHANGED Service!vars
  BY <1>2, AddAccountInv DEF Service!Next
<1>3. ASSUME reset_swarm PROVE Service!Next
  <2>1. subs_' = {} /\ UNCHANGED <<clock, connected_, takenAt>>
    BY <1>3 DEF reset_swarm, traffic
  <2>2. DueOf(next_, subs_)' =
            [a \in Accounts |-> IF a \in Accounts THEN None ELSE DueOf(next_, subs_)[a]]
    BY <2>1 DEF DueOf
  <2>3. Service!Dismiss(Accounts)
    BY <2>1, <2>2 DEF Service!Dismiss
  <2>. QED BY <2>3 DEF Service!Next
<1>4. ASSUME NEW gone \in SUBSET subs_, remove_stale_swarm_members(gone)
      PROVE  Service!Next
  <2>1. gone \in SUBSET Accounts
    BY DEF QueueInv, TypeOK
  <2>. QED BY <1>4, <2>1, DismissImplements DEF Service!Next
<1>5. ASSUME TimerCheck PROVE Service!Next
  BY <1>5, CheckImplements DEF TimerCheck, Service!Next
<1>6. ASSUME CheckAgain PROVE Service!Next \/ UNCHANGED Service!vars
  <2>1. CASE connected_
    BY <1>6, <2>1, CheckImplements DEF CheckAgain, Service!Next
  <2>2. CASE ~connected_
    BY <1>1, <1>6, <2>2 DEF CheckAgain
  <2>. QED BY <2>1, <2>2
<1>7. ASSUME on_connected PROVE Service!Next
  BY <1>7, ConnectImplements DEF Service!Next
<1>8. ASSUME on_disconnected PROVE Service!Next
  <2>1. /\ connected_ /\ connected_' = FALSE /\ takenAt' = Never
        /\ UNCHANGED <<clock, next_, subs_>>
    BY <1>8 DEF on_disconnected, queue
  <2>2. Service!Disconnect
    BY <2>1, SameQueue DEF Service!Disconnect, Service!Nothing, Never
  <2>. QED BY <2>2 DEF Service!Next
<1>9. ASSUME NEW r \in Requests, MonitorAccepted(r) \/ MonitorFails(r)
      PROVE  UNCHANGED Service!vars
  BY <1>1, <1>9 DEF MonitorAccepted, MonitorFails, queue
<1>10. ASSUME Tick PROVE Service!Next
  <2>1. clock' = clock + 1 /\ UNCHANGED <<connected_, next_, subs_, takenAt>>
    BY <1>10 DEF Tick, queue, traffic
  <2>. QED BY <2>1, SameQueue DEF Service!Tick, Service!Next
<1>11. CASE UNCHANGED vars
  BY <1>1, <1>11 DEF vars, queue, traffic
<1>. QED
  BY <1>2, <1>3, <1>4, <1>5, <1>6, <1>7, <1>8, <1>9, <1>10, <1>11 DEF Next

(* next_ with its lazily deleted entries, its insertions at the front and  *)
(* its partial sorting implements a table of due times from which the      *)
(* earliest are renewed, for every number of accounts, request limit and   *)
(* range of delays (add_account, remove_stale_swarm_members, check_subs).  *)
THEOREM ImplementsRenewalsHolds == Spec => ImplementsRenewals
<1>1. Spec => []QueueInv
  BY InitQueueInv, NextQueueInv, PTL DEF Spec
<1>. QED
  BY <1>1, InitImplements, NextImplements, PTL DEF Spec, ImplementsRenewals, Service!Spec
============================================================================
