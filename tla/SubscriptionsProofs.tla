------------------------ MODULE SubscriptionsProofs ------------------------
(* Proofs about the subscriptions of an account, for every number of       *)
(* devices and worker threads and every interleaving of their transactions *)
(* with deletions and restarts.                                            *)
EXTENDS Subscriptions, WellFoundedInduction, TLAPS

(* A non-empty set of times has a greatest element. *)
LEMMA LatestExists ==
    ASSUME NEW T, T \subseteq Times, T # {}
    PROVE  \E t \in T : \A u \in T : u <= t
<1> DEFINE bound == MaxTime + SIGNATURE_EARLY
           R == {ss \in Nat \X Nat : ss[1] < ss[2]}
           M == {bound - t : t \in T}
<1>1. IsWellFoundedOn(R, Nat)
  BY NatLessThanWellFounded DEF OpToRel
<1>2. \A x, y \in Nat : y < x => <<y, x>> \in R
  OBVIOUS
<1>3. bound \in Nat /\ \A t \in T : t \in Nat /\ bound - t \in Nat
  BY SubscriptionAssumptions DEF Times
<1>4. M \subseteq Nat /\ M # {}
  BY <1>3
<1> HIDE DEF R, bound
<1>5. PICK x \in M : \A y \in M : ~(<<y, x>> \in R)
  <2> HIDE DEF M
  <2>. QED BY <1>1, <1>4, WFMin
<1>6. \A y \in M : ~(y < x)
  BY <1>2, <1>4, <1>5
<1>7. PICK t \in T : x = bound - t
  BY <1>5
<1>8. ASSUME NEW u \in T PROVE u <= t
  <2>1. ~(bound - u < bound - t)
    BY <1>6, <1>7
  <2>. QED BY <1>3, <2>1
<1>. QED BY <1>8

(* Whatever is no row, no SELECT result and no record of an acknowledged   *)
(* transaction is told from them.                                          *)
LEMMA NoneDistinct ==
    /\ None \notin Row /\ None \notin Found
    /\ None \notin [id : Nat, overlapped : BOOLEAN]
BY DEF None, Row, Found

LEMMA TimesAreNat == Times \subseteq Nat /\ NoSig \notin Times
BY SubscriptionAssumptions DEF Times, NoSig

----------------------------------------------------------------------------
(* The request that a worker handles.                                      *)

ReadTx ==
    [pc : {"read"}, dev : Devices, sub : Subscription, found : Found \cup {None},
     overlapped : BOOLEAN]
MergeTx == [pc : {"merge"}, sub : Subscription, new_sub : BOOLEAN]

LEMMA TxCases ==
    ASSUME NEW t \in Tx
    PROVE  /\ t.pc = "read" => t \in ReadTx
           /\ t.pc = "merge" => t \in MergeTx
           /\ t = Idle => t.pc = "idle"
BY DEF Tx, Idle, ReadTx, MergeTx

(* Marking the readers of some devices changes nothing else. *)
LEMMA OverlappingEffect ==
    ASSUME tx \in [Workers -> Tx], NEW D
    PROVE  /\ Overlapping(D) \in [Workers -> Tx]
           /\ \A w \in Workers :
                /\ Overlapping(D)[w].pc = tx[w].pc
                /\ tx[w].pc # "read" => Overlapping(D)[w] = tx[w]
                /\ tx[w].pc = "read" =>
                    /\ Overlapping(D)[w].dev = tx[w].dev
                    /\ Overlapping(D)[w].sub = tx[w].sub
                    /\ Overlapping(D)[w].found = tx[w].found
                    /\ ~Overlapping(D)[w].overlapped =>
                            ~tx[w].overlapped /\ tx[w].dev \notin D
<1> DEFINE O == Overlapping(D)
<1>1. ASSUME NEW w \in Workers, tx[w].pc = "read", tx[w].dev \in D
      PROVE  /\ O[w] \in Tx /\ O[w].pc = "read" /\ O[w].overlapped
             /\ O[w].dev = tx[w].dev /\ O[w].sub = tx[w].sub /\ O[w].found = tx[w].found
  <2>1. tx[w] \in ReadTx
    BY <1>1, TxCases
  <2>2. O[w] = [tx[w] EXCEPT !.overlapped = TRUE]
    BY <1>1 DEF Overlapping
  <2>3. O[w] \in ReadTx
    BY <2>1, <2>2 DEF ReadTx
  <2>. QED BY <2>1, <2>2, <2>3 DEF ReadTx, Tx
<1>2. ASSUME NEW w \in Workers, ~(tx[w].pc = "read" /\ tx[w].dev \in D)
      PROVE  O[w] = tx[w] /\ O[w] \in Tx
  BY <1>2 DEF Overlapping
<1>3. O = [w \in Workers |-> O[w]]
  BY DEF Overlapping
<1>4. ASSUME NEW w \in Workers PROVE O[w] \in Tx
  BY <1>1, <1>2
<1> HIDE DEF O
<1>5. O \in [Workers -> Tx]
  BY <1>3, <1>4
<1>6. ASSUME NEW w \in Workers
      PROVE  /\ O[w].pc = tx[w].pc
             /\ tx[w].pc # "read" => O[w] = tx[w]
             /\ tx[w].pc = "read" =>
                    /\ O[w].dev = tx[w].dev /\ O[w].sub = tx[w].sub
                    /\ O[w].found = tx[w].found
                    /\ ~O[w].overlapped => ~tx[w].overlapped /\ tx[w].dev \notin D
  BY <1>1, <1>2
<1>. QED BY <1>5, <1>6 DEF O

----------------------------------------------------------------------------
(* The write of a transaction.                                             *)

(* What SELECT returned is still what is in the row. *)
Fresh(t) ==
    t.found = IF rows[t.dev] = None THEN None
              ELSE [id |-> rows[t.dev].id, ns |-> rows[t.dev].ns]

(* Only the row of the device changes; it is the one that was acknowledged *)
(* if SELECT was up to date, and carries the request's signature if it was *)
(* written at all.                                                         *)
LEMMA WriteEffect ==
    ASSUME rows \in [Devices -> Row \cup {None}], nextId \in Nat, tx \in [Workers -> Tx],
           NEW w \in Workers, Write(w)
    PROVE  /\ tx[w] \in ReadTx
           /\ rows' \in [Devices -> Row \cup {None}] /\ nextId' \in Nat
           /\ RowId(tx[w]) \in Nat
           /\ \A d \in Devices : d # tx[w].dev => rows'[d] = rows[d]
           /\ \/ rows' = rows /\ tx[w].found # None
              \/ /\ rows'[tx[w].dev] # None
                 /\ rows'[tx[w].dev].id = RowId(tx[w])
                 /\ rows'[tx[w].dev].opts = tx[w].sub.opts
                 /\ rows'[tx[w].dev].sig_ts = tx[w].sub.sig_ts
                 /\ rows'[tx[w].dev].signed = tx[w].sub.ns
           /\ Fresh(tx[w]) => /\ rows'[tx[w].dev] # None
                              /\ rows'[tx[w].dev].id = RowId(tx[w])
                              /\ rows'[tx[w].dev].signed = rows'[tx[w].dev].ns
<1> DEFINE t == tx[w]
           new == [id |-> RowId(t),
                   ns |-> IF InsertNs(t) THEN t.sub.ns ELSE rows[t.dev].ns,
                   opts |-> t.sub.opts, sig_ts |-> t.sub.sig_ts,
                   signed |-> t.sub.ns]
<1>1. /\ t.pc = "read" /\ ~WriteFails(t)
      /\ rows' = IF t.found = None \/ SameRow(t) THEN [rows EXCEPT ![t.dev] = new] ELSE rows
      /\ nextId' = IF t.found = None THEN nextId + 1 ELSE nextId
  BY DEF Write
<1>2. t \in ReadTx
  BY <1>1, TxCases
<1>3. t.dev \in Devices /\ t.sub \in Subscription /\ t.found \in Found \cup {None}
  BY <1>2 DEF ReadTx
<1>4. t.sub.ns \in Namespaces /\ t.sub.opts \in Options /\ t.sub.sig_ts \in Times
  BY <1>3 DEF Subscription
<1> HIDE DEF t
<1>5. RowId(t) \in Nat /\ nextId' \in Nat
  BY <1>1, <1>3 DEF RowId, Found
<1>6. CASE t.found = None \/ SameRow(t)
  <2>1. (IF InsertNs(t) THEN t.sub.ns ELSE rows[t.dev].ns) \in Namespaces
    <3>1. CASE InsertNs(t)
      BY <1>4, <3>1
    <3>2. CASE ~InsertNs(t)
      <4>1. rows[t.dev] \in Row
        BY <1>3, <1>6, <3>2 DEF InsertNs, SameRow
      <4>. QED BY <3>2, <4>1 DEF Row
    <3>. QED BY <3>1, <3>2
  <2>2. new \in Row
    BY <1>4, <1>5, <2>1 DEF Row
  <2>3. new # None
    BY <2>2, NoneDistinct
  <2>4. /\ new.id = RowId(t) /\ new.opts = t.sub.opts /\ new.sig_ts = t.sub.sig_ts
        /\ new.signed = t.sub.ns
        /\ new.ns = IF InsertNs(t) THEN t.sub.ns ELSE rows[t.dev].ns
    OBVIOUS
  <2> HIDE DEF new
  <2>5. rows' = [rows EXCEPT ![t.dev] = new]
    BY <1>1, <1>6
  <2>6. rows' \in [Devices -> Row \cup {None}] /\ rows'[t.dev] = new
    BY <1>3, <2>2, <2>5
  <2>7. \A d \in Devices : d # t.dev => rows'[d] = rows[d]
    BY <2>5
  <2>8. Fresh(t) => new.signed = new.ns
    <3>1. CASE InsertNs(t)
      BY <2>4, <3>1
    <3>2. CASE ~InsertNs(t)
      <4>1. rows[t.dev] # None /\ t.found.ns = t.sub.ns
        BY <1>6, <3>2 DEF InsertNs, SameRow
      <4>2. Fresh(t) => t.found.ns = rows[t.dev].ns
        BY <4>1 DEF Fresh
      <4>. QED BY <2>4, <3>2, <4>1, <4>2
    <3>. QED BY <3>1, <3>2
  <2>. QED BY <1>2, <1>5, <2>3, <2>4, <2>6, <2>7, <2>8 DEF t
<1>7. CASE ~(t.found = None \/ SameRow(t))
  <2>1. rows' = rows
    BY <1>1, <1>7
  <2>2. ~Fresh(t)
    BY <1>7, NoneDistinct DEF Fresh, SameRow
  <2>. QED BY <1>2, <1>5, <1>7, <2>1, <2>2 DEF t
<1>. QED BY <1>6, <1>7

----------------------------------------------------------------------------
(* Type correctness, in parts.                                             *)

Acked == {None} \cup [id : Nat, overlapped : BOOLEAN]

TypesOfDatabase == rows \in [Devices -> Row \cup {None}] /\ nextId \in Nat
TypesOfMemory ==
    /\ started \in 0..MaxTime
    /\ subscribers_ \in [Settings -> Times \cup {NoSig}]
    /\ swarmsKnown \in BOOLEAN /\ queued \in BOOLEAN
TypesOfHistory == acked \in [Devices -> Acked] /\ unmerged \subseteq Nat
TypesOfRequests ==
    /\ now \in 0..MaxTime /\ requests \in 0..MaxRequests
    /\ tx \in [Workers -> Tx]

LEMMA TypeParts ==
    TypeOK <=> TypesOfDatabase /\ TypesOfMemory /\ TypesOfHistory /\ TypesOfRequests
BY DEF TypeOK, TypesOfDatabase, TypesOfMemory, TypesOfHistory, TypesOfRequests, Acked

LEMMA TypePartsNext ==
    TypesOfDatabase' /\ TypesOfMemory' /\ TypesOfHistory' /\ TypesOfRequests' => TypeOK'
BY DEF TypeOK, TypesOfDatabase, TypesOfMemory, TypesOfHistory, TypesOfRequests, Acked

LEMMA InitTypeOK == Init => TypeOK
<1> SUFFICES ASSUME Init PROVE TypeOK
  OBVIOUS
<1>1. TypesOfDatabase
  BY DEF Init, TypesOfDatabase
<1>2. TypesOfMemory
  <2>1. started \in 0..MaxTime
    BY SubscriptionAssumptions DEF Init
  <2>2. swarmsKnown \in BOOLEAN /\ queued \in BOOLEAN
    BY Zenon DEF Init
  <2>3. subscribers_ \in [Settings -> Times \cup {NoSig}]
    BY DEF Init
  <2>. QED BY <2>1, <2>2, <2>3 DEF TypesOfMemory
<1>3. TypesOfHistory
  BY DEF Init, TypesOfHistory, Acked
<1>4. TypesOfRequests
  BY SubscriptionAssumptions DEF Init, TypesOfRequests, Tx
<1>. QED BY <1>1, <1>2, <1>3, <1>4, TypeParts

(* A new request is one that a worker may handle. *)
LEMMA SelectEffect ==
    ASSUME TypeOK, NEW w \in Workers, NEW d \in Devices, NEW sub \in Subscription,
           Select(w, d, sub)
    PROVE  /\ tx[w].pc = "idle" /\ tx' \in [Workers -> Tx]
           /\ tx'[w].pc = "read" /\ tx'[w].dev = d
           /\ tx'[w].found = IF rows[d] = None THEN None
                             ELSE [id |-> rows[d].id, ns |-> rows[d].ns]
           /\ \A v \in Workers : v # w => tx'[v] = tx[v]
<1> DEFINE found == IF rows[d] = None THEN None ELSE [id |-> rows[d].id, ns |-> rows[d].ns]
           t == [pc |-> "read", dev |-> d, sub |-> sub, overlapped |-> FALSE, found |-> found]
<1>0. TypesOfDatabase /\ TypesOfRequests
  BY TypeParts
<1>1. tx' = [tx EXCEPT ![w] = t] /\ tx[w] = Idle
  BY DEF Select
<1>2. found \in Found \cup {None}
  <2>1. CASE rows[d] # None
    <3>1. rows[d] \in Row
      BY <1>0, <2>1 DEF TypesOfDatabase
    <3>. QED BY <2>1, <3>1 DEF Row, Found
  <2>. QED BY <2>1
<1> HIDE DEF found
<1>3. t \in ReadTx
  BY <1>2 DEF ReadTx
<1>4. t.pc = "read" /\ t.dev = d /\ t.found = found
  OBVIOUS
<1> HIDE DEF t
<1>5. t \in Tx
  BY <1>3 DEF Tx, ReadTx
<1>. QED BY <1>0, <1>1, <1>4, <1>5 DEF TypesOfRequests, Idle, found

(* A restart: each row that is left is in memory, or in the set of those   *)
(* that are not; the newest row of each settings is the one loaded.        *)
LEMMA RestartEffect ==
    ASSUME TypeOK, CrashAndRestart
    PROVE  /\ TypeOK'
           /\ \A w \in Workers : tx'[w].pc = "idle"
           /\ swarmsKnown' = FALSE
           /\ \A d \in Devices : acked'[d] # None =>
                acked'[d] = acked[d] /\ rows'[d] = rows[d]
           /\ \A d \in Devices : rows'[d] # None =>
                \/ rows'[d].id \in unmerged'
                \/ /\ <<rows'[d].ns, rows'[d].opts>> \in Settings
                   /\ subscribers_'[<<rows'[d].ns, rows'[d].opts>>] # NoSig
                   /\ subscribers_'[<<rows'[d].ns, rows'[d].opts>>] >= rows'[d].sig_ts
<1> DEFINE left == {d \in Devices : rows[d] # None /\ ~Expired(d)}
           D == Loaded(left)
           set(d) == <<rows[d].ns, rows[d].opts>>
           With(s) == {d \in D : set(d) = s}
<1>0. TypesOfDatabase /\ TypesOfMemory /\ TypesOfHistory /\ TypesOfRequests
  BY TypeParts
<1>1. /\ rows' = [d \in Devices |-> IF d \in left THEN rows[d] ELSE None]
      /\ subscribers_' =
              [s \in Settings |->
                  IF With(s) = {} THEN NoSig ELSE rows[LoadNewest(D, s)].sig_ts]
      /\ acked' = [d \in Devices |-> IF d \in left THEN acked[d] ELSE None]
      /\ unmerged' = {rows[d].id : d \in left \ D}
      /\ tx' = [w \in Workers |-> Idle]
      /\ started' = now /\ swarmsKnown' = FALSE /\ queued' = FALSE
      /\ UNCHANGED <<now, requests, nextId>>
  BY DEF CrashAndRestart
<1>2. left \subseteq Devices /\ D \subseteq left
  BY DEF Loaded
<1>3. ASSUME NEW d \in left
      PROVE  rows[d] \in Row /\ rows[d].id \in Nat /\ set(d) \in Settings
             /\ rows[d].sig_ts \in Times
  <2>1. rows[d] \in Row
    BY <1>0 DEF TypesOfDatabase
  <2>. QED BY <2>1 DEF Row, Settings
<1> HIDE DEF left, D
<1>4. ASSUME NEW s, With(s) # {}
      PROVE  /\ rows[LoadNewest(D, s)].sig_ts \in Times
             /\ \A d \in With(s) : rows[d].sig_ts <= rows[LoadNewest(D, s)].sig_ts
  <2> DEFINE T == {rows[d].sig_ts : d \in With(s)}
  <2>1. T \subseteq Times /\ T # {}
    BY <1>2, <1>3, <1>4
  <2>2. \E t \in T : \A u \in T : u <= t
    <3> HIDE DEF T
    <3>. QED BY <2>1, LatestExists
  <2>3. \E d \in D : set(d) = s /\ \A c \in D : set(c) = s => rows[c].sig_ts <= rows[d].sig_ts
    BY <2>2
  <2>4. /\ LoadNewest(D, s) \in D
        /\ \A c \in D : set(c) = s => rows[c].sig_ts <= rows[LoadNewest(D, s)].sig_ts
    BY <2>3 DEF LoadNewest
  <2>. QED BY <1>2, <1>3, <2>4
<1>5. TypesOfDatabase'
  BY <1>0, <1>1 DEF TypesOfDatabase
<1>6. TypesOfHistory'
  <2>1. unmerged' \subseteq Nat
    BY <1>1, <1>3
  <2>. QED BY <1>0, <1>1, <2>1 DEF TypesOfHistory, Acked
<1>7. TypesOfRequests'
  BY <1>0, <1>1 DEF TypesOfRequests, Tx
<1>8. TypesOfMemory'
  <2>1. started' \in 0..MaxTime
    BY <1>0, <1>1 DEF TypesOfRequests
  <2>2. subscribers_' \in [Settings -> Times \cup {NoSig}]
    BY <1>1, <1>4
  <2>. QED BY <1>1, <2>1, <2>2 DEF TypesOfMemory
<1>9. ASSUME NEW d \in Devices, rows'[d] # None, rows'[d].id \notin unmerged'
      PROVE  /\ <<rows'[d].ns, rows'[d].opts>> \in Settings
             /\ subscribers_'[<<rows'[d].ns, rows'[d].opts>>] # NoSig
             /\ subscribers_'[<<rows'[d].ns, rows'[d].opts>>] >= rows'[d].sig_ts
  <2>1. d \in left /\ rows'[d] = rows[d]
    BY <1>1, <1>9
  <2>2. d \in D
    BY <1>1, <1>9, <2>1
  <2>3. set(d) \in Settings /\ rows[d].sig_ts \in Times /\ d \in With(set(d))
    BY <1>3, <2>1, <2>2
  <2>4. subscribers_'[set(d)] = rows[LoadNewest(D, set(d))].sig_ts
    <3> HIDE DEF With, set
    <3>. QED BY <1>1, <2>3
  <2>5. /\ rows[LoadNewest(D, set(d))].sig_ts \in Times
        /\ rows[d].sig_ts <= rows[LoadNewest(D, set(d))].sig_ts
    <3> HIDE DEF With, set
    <3>. QED BY <1>4, <2>3
  <2> DEFINE new == rows[LoadNewest(D, set(d))].sig_ts
  <2>6. new # NoSig /\ new >= rows[d].sig_ts
    <3> HIDE DEF new
    <3>. QED BY <2>3, <2>5, TimesAreNat DEF new
  <2>. QED BY <2>1, <2>3, <2>4, <2>6
<1>10. \A w \in Workers : tx'[w].pc = "idle"
  BY <1>1 DEF Idle
<1>11. \A d \in Devices : acked'[d] # None => acked'[d] = acked[d] /\ rows'[d] = rows[d]
  BY <1>1
<1>. QED BY <1>1, <1>5, <1>6, <1>7, <1>8, <1>9, <1>10, <1>11, TypePartsNext

LEMMA NextTypeOK == TypeOK /\ [Next]_vars => TypeOK'
<1> SUFFICES ASSUME TypeOK, [Next]_vars PROVE TypeOK'
  OBVIOUS
<1>0. TypesOfDatabase /\ TypesOfMemory /\ TypesOfHistory /\ TypesOfRequests
  BY TypeParts
<1>1. CASE Tick
  <2>1. TypesOfRequests'
    BY <1>0, <1>1, SubscriptionAssumptions DEF Tick, TypesOfRequests
  <2>2. TypesOfDatabase' /\ TypesOfMemory' /\ TypesOfHistory'
    BY <1>0, <1>1 DEF Tick, TypesOfDatabase, TypesOfMemory, TypesOfHistory, database, memory,
           history
  <2>. QED BY <2>1, <2>2, TypePartsNext
<1>2. ASSUME NEW w \in Workers, NEW d \in Devices, NEW sub \in Subscription, Select(w, d, sub)
      PROVE  TypeOK'
  <2>1. tx' \in [Workers -> Tx]
    BY <1>2, SelectEffect
  <2>2. requests' \in 0..MaxRequests
    BY <1>0, <1>2, SubscriptionAssumptions DEF Select, TypesOfRequests
  <2>3. TypesOfRequests'
    BY <1>0, <1>2, <2>1, <2>2 DEF Select, TypesOfRequests
  <2>4. TypesOfDatabase' /\ TypesOfMemory' /\ TypesOfHistory'
    BY <1>0, <1>2 DEF Select, TypesOfDatabase, TypesOfMemory, TypesOfHistory, database, memory,
           history
  <2>. QED BY <2>3, <2>4, TypePartsNext
<1>3. ASSUME NEW w \in Workers, Commit(w) \/ CommitInDoubt(w) PROVE TypeOK'
  <2>1. Write(w) /\ UNCHANGED <<now, requests, memory>>
    BY <1>3 DEF Commit, CommitInDoubt
  <2>2. /\ tx[w] \in ReadTx /\ RowId(tx[w]) \in Nat
        /\ rows' \in [Devices -> Row \cup {None}] /\ nextId' \in Nat
    BY <1>0, <2>1, WriteEffect DEF TypesOfDatabase, TypesOfRequests
  <2>3. TypesOfDatabase' /\ TypesOfMemory'
    BY <1>0, <2>1, <2>2 DEF TypesOfDatabase, TypesOfMemory, memory
  <2>4. Overlapping({tx[w].dev}) \in [Workers -> Tx]
    BY <1>0, OverlappingEffect DEF TypesOfRequests
  <2>5. tx' \in [Workers -> Tx]
    <3>1. (NewSub(tx[w])) \in BOOLEAN
      BY Zenon DEF NewSub
    <3>2. [pc |-> "merge", sub |-> tx[w].sub, new_sub |-> NewSub(tx[w])] \in Tx
      BY <2>2, <3>1 DEF Tx, ReadTx
    <3>3. Idle \in Tx
      BY DEF Tx
    <3>. QED BY <1>3, <2>4, <3>2, <3>3 DEF Commit, CommitInDoubt
  <2>6. TypesOfRequests'
    BY <1>0, <2>1, <2>5 DEF TypesOfRequests
  <2>7. TypesOfHistory'
    <3>1. tx[w].dev \in Devices /\ tx[w].overlapped \in BOOLEAN
      BY <2>2 DEF ReadTx
    <3>2. [id |-> RowId(tx[w]), overlapped |-> tx[w].overlapped] \in Acked /\ None \in Acked
      BY <2>2, <3>1 DEF Acked
    <3>3. CASE Commit(w)
      BY <1>0, <3>2, <3>3 DEF Commit, TypesOfHistory
    <3>4. CASE CommitInDoubt(w)
      BY <1>0, <2>2, <3>2, <3>4 DEF CommitInDoubt, TypesOfHistory
    <3>. QED BY <1>3, <3>3, <3>4
  <2>. QED BY <2>3, <2>6, <2>7, TypePartsNext
<1>4. ASSUME NEW w \in Workers, TxFails(w) PROVE TypeOK'
  <2>1. TypesOfRequests'
    BY <1>0, <1>4 DEF TxFails, TypesOfRequests, Tx
  <2>2. TypesOfDatabase' /\ TypesOfMemory' /\ TypesOfHistory'
    BY <1>0, <1>4 DEF TxFails, TypesOfDatabase, TypesOfMemory, TypesOfHistory, database, memory,
           history
  <2>. QED BY <2>1, <2>2, TypePartsNext
<1>5. ASSUME NEW w \in Workers, Merge(w) PROVE TypeOK'
  <2>1. tx[w] \in MergeTx
    BY <1>0, <1>5, TxCases DEF Merge, TypesOfRequests
  <2>2. <<tx[w].sub.ns, tx[w].sub.opts>> \in Settings /\ tx[w].sub.sig_ts \in Times
    BY <2>1 DEF MergeTx, Subscription, Settings
  <2>3. subscribers_' \in [Settings -> Times \cup {NoSig}]
    BY <1>0, <1>5, <2>2 DEF Merge, Merged, TypesOfMemory
  <2>4. queued' \in BOOLEAN /\ swarmsKnown' \in BOOLEAN
    BY <1>0, <1>5, Zenon DEF Merge, TypesOfMemory
  <2>5. TypesOfRequests'
    BY <1>0, <1>5 DEF Merge, TypesOfRequests, Tx
  <2>6. TypesOfDatabase' /\ TypesOfHistory'
    BY <1>0, <1>5 DEF Merge, TypesOfDatabase, TypesOfHistory, database, history
  <2>7. started' \in 0..MaxTime
    BY <1>0, <1>5 DEF Merge, TypesOfMemory
  <2>. QED BY <2>3, <2>4, <2>5, <2>6, <2>7, TypePartsNext DEF TypesOfMemory
<1>6. ASSUME NEW D \in SUBSET Devices, Delete(D),
             UNCHANGED <<now, requests, nextId, memory, unmerged>>
      PROVE  TypeOK'
  <2>1. TypesOfRequests'
    BY <1>0, <1>6, OverlappingEffect DEF Delete, TypesOfRequests
  <2>2. TypesOfDatabase' /\ TypesOfHistory'
    BY <1>0, <1>6 DEF Delete, TypesOfDatabase, TypesOfHistory, Acked
  <2>3. TypesOfMemory'
    BY <1>0, <1>6 DEF TypesOfMemory, memory
  <2>. QED BY <2>1, <2>2, <2>3, TypePartsNext
<1>7. CASE Recheck
  <2>1. TypesOfMemory'
    <3>1. queued' \in BOOLEAN
      BY <1>7, Zenon DEF Recheck
    <3>. QED BY <1>0, <1>7, <3>1 DEF Recheck, TypesOfMemory
  <2>2. TypesOfDatabase' /\ TypesOfHistory' /\ TypesOfRequests'
    BY <1>0, <1>7 DEF Recheck, TypesOfDatabase, TypesOfHistory, TypesOfRequests, database,
           history
  <2>. QED BY <2>1, <2>2, TypePartsNext
<1>8. CASE CrashAndRestart
  BY <1>8, RestartEffect
<1>9. CASE UNCHANGED vars
  BY <1>9 DEF TypeOK, vars, database, memory, history
<1>10. ASSUME NEW w \in Workers, add_subscription(w) PROVE TypeOK'
  BY <1>2, <1>3, <1>4, <1>5, <1>10 DEF add_subscription
<1>11. ASSUME NEW d \in Devices, remove_subscription(d) PROVE TypeOK'
  BY <1>6, <1>11 DEF remove_subscription
<1>12. ASSUME NEW D \in SUBSET Devices, on_drop_registrations(D) PROVE TypeOK'
  BY <1>6, <1>12 DEF on_drop_registrations
<1>13. CASE db_cleanup
  BY <1>6, <1>13 DEF db_cleanup
<1>. QED BY <1>1, <1>7, <1>8, <1>9, <1>10, <1>11, <1>12, <1>13 DEF Next

----------------------------------------------------------------------------
(* The kinds of steps. *)
LEMMA Steps ==
    ASSUME [Next]_vars
    PROVE  \/ UNCHANGED <<tx, database, memory, history>>
           \/ \E w \in Workers, d \in Devices, sub \in Subscription : Select(w, d, sub)
           \/ \E w \in Workers : Commit(w) \/ CommitInDoubt(w) \/ TxFails(w) \/ Merge(w)
           \/ \E D \in SUBSET Devices : Delete(D) /\ UNCHANGED <<nextId, memory, unmerged>>
           \/ Recheck
           \/ CrashAndRestart
<1>1. ASSUME NEW d \in Devices, remove_subscription(d)
      PROVE  \E D \in SUBSET Devices : Delete(D) /\ UNCHANGED <<nextId, memory, unmerged>>
  BY <1>1 DEF remove_subscription
<1>2. ASSUME NEW D \in SUBSET Devices, on_drop_registrations(D)
      PROVE  \E E \in SUBSET Devices : Delete(E) /\ UNCHANGED <<nextId, memory, unmerged>>
  BY <1>2 DEF on_drop_registrations
<1>3. ASSUME db_cleanup
      PROVE  \E D \in SUBSET Devices : Delete(D) /\ UNCHANGED <<nextId, memory, unmerged>>
  BY <1>3 DEF db_cleanup
<1>4. Tick => UNCHANGED <<tx, database, memory, history>>
  BY DEF Tick
<1>5. UNCHANGED vars => UNCHANGED <<tx, database, memory, history>>
  BY DEF vars
<1>6. \A w \in Workers : add_subscription(w) =>
        \/ \E d \in Devices, sub \in Subscription : Select(w, d, sub)
        \/ Commit(w) \/ CommitInDoubt(w) \/ TxFails(w) \/ Merge(w)
  BY DEF add_subscription
<1>. QED BY <1>1, <1>2, <1>3, <1>4, <1>5, <1>6 DEF Next

(* A committed transaction leaves its worker with the merge or, in doubt,  *)
(* with nothing, and marks the other readers of the device.                *)
LEMMA CommitEffect ==
    ASSUME TypeOK, NEW w \in Workers, Commit(w) \/ CommitInDoubt(w)
    PROVE  /\ Commit(w) => tx'[w] = [pc |-> "merge", sub |-> tx[w].sub,
                                     new_sub |-> NewSub(tx[w])]
           /\ CommitInDoubt(w) => tx'[w].pc = "idle"
           /\ \A v \in Workers : v # w =>
                /\ tx'[v].pc = tx[v].pc
                /\ tx[v].pc # "read" => tx'[v] = tx[v]
                /\ tx[v].pc = "read" =>
                    /\ tx'[v].dev = tx[v].dev /\ tx'[v].found = tx[v].found
                    /\ ~tx'[v].overlapped => ~tx[v].overlapped /\ tx[v].dev # tx[w].dev
           /\ tx[w].pc = "read" /\ tx[w].dev \in Devices /\ tx[w].sub \in Subscription
<1>0. TypesOfRequests /\ TypesOfDatabase
  BY TypeParts
<1>1. /\ Overlapping({tx[w].dev}) \in [Workers -> Tx]
      /\ \A v \in Workers :
            /\ Overlapping({tx[w].dev})[v].pc = tx[v].pc
            /\ tx[v].pc # "read" => Overlapping({tx[w].dev})[v] = tx[v]
            /\ tx[v].pc = "read" =>
                /\ Overlapping({tx[w].dev})[v].dev = tx[v].dev
                /\ Overlapping({tx[w].dev})[v].found = tx[v].found
                /\ ~Overlapping({tx[w].dev})[v].overlapped =>
                        ~tx[v].overlapped /\ tx[v].dev \notin {tx[w].dev}
  BY <1>0, OverlappingEffect DEF TypesOfRequests
<1>2. /\ Commit(w) => tx' = [Overlapping({tx[w].dev}) EXCEPT ![w] =
                [pc |-> "merge", sub |-> tx[w].sub, new_sub |-> NewSub(tx[w])]]
      /\ CommitInDoubt(w) => tx' = [Overlapping({tx[w].dev}) EXCEPT ![w] = Idle]
  BY DEF Commit, CommitInDoubt
<1>3. \A v \in Workers : v # w => tx'[v] = Overlapping({tx[w].dev})[v]
  BY <1>1, <1>2
<1>4. tx[w] \in ReadTx
  BY <1>0, WriteEffect DEF Commit, CommitInDoubt, TypesOfRequests, TypesOfDatabase
<1>5. CommitInDoubt(w) => tx'[w].pc = "idle"
  BY <1>1, <1>2 DEF Idle
<1>6. Commit(w) => tx'[w] = [pc |-> "merge", sub |-> tx[w].sub, new_sub |-> NewSub(tx[w])]
  BY <1>1, <1>2
<1>7. tx[w].pc = "read" /\ tx[w].dev \in Devices /\ tx[w].sub \in Subscription
  BY <1>4 DEF ReadTx
<1>. QED BY <1>1, <1>3, <1>5, <1>6, <1>7

----------------------------------------------------------------------------
(* StoredUnlessOverlapped is inductive together with: what a transaction   *)
(* read is still in the row, unless the transaction is marked.             *)

ReadsFresh ==
    \A w \in Workers : tx[w].pc = "read" /\ ~tx[w].overlapped => Fresh(tx[w])

LEMMA InitStored == Init => ReadsFresh /\ StoredUnlessOverlapped
BY DEF Init, ReadsFresh, StoredUnlessOverlapped, Idle

LEMMA NextReadsFresh == TypeOK /\ ReadsFresh /\ [Next]_vars => ReadsFresh'
<1> SUFFICES ASSUME TypeOK, ReadsFresh, [Next]_vars PROVE ReadsFresh'
  OBVIOUS
<1>0. TypesOfDatabase /\ TypesOfRequests
  BY TypeParts
<1>1. ASSUME NEW w \in Workers, NEW d \in Devices, NEW sub \in Subscription, Select(w, d, sub)
      PROVE  ReadsFresh'
  <2>1. rows' = rows
    BY <1>1 DEF Select, database
  <2>2. ASSUME NEW v \in Workers, tx'[v].pc = "read", ~tx'[v].overlapped PROVE Fresh(tx[v])'
    <3>1. CASE v = w
      <4>1. /\ tx'[w].dev = d
            /\ tx'[w].found = IF rows[d] = None THEN None
                              ELSE [id |-> rows[d].id, ns |-> rows[d].ns]
        BY <1>1, SelectEffect
      <4>. QED BY <2>1, <3>1, <4>1 DEF Fresh
    <3>2. CASE v # w
      <4>1. tx'[v] = tx[v]
        BY <1>1, <3>2, SelectEffect
      <4>. QED BY <2>1, <2>2, <4>1 DEF ReadsFresh, Fresh
    <3>. QED BY <3>1, <3>2
  <2>. QED BY <2>2 DEF ReadsFresh
<1>2. ASSUME NEW w \in Workers, Commit(w) \/ CommitInDoubt(w) PROVE ReadsFresh'
  <2>1. \A d \in Devices : d # tx[w].dev => rows'[d] = rows[d]
    BY <1>0, <1>2, WriteEffect DEF Commit, CommitInDoubt, TypesOfDatabase, TypesOfRequests
  <2>2. ASSUME NEW v \in Workers, tx'[v].pc = "read", ~tx'[v].overlapped PROVE Fresh(tx[v])'
    <3>1. v # w
      <4>1. Commit(w) => tx'[w] = [pc |-> "merge", sub |-> tx[w].sub, new_sub |-> NewSub(tx[w])]
        BY CommitEffect
      <4>2. CommitInDoubt(w) => tx'[w].pc = "idle"
        BY CommitEffect
      <4>3. tx'[w].pc # "read"
        BY <1>2, <4>1, <4>2
      <4>. QED BY <2>2, <4>3
    <3>2. /\ tx[v].pc = "read" /\ ~tx[v].overlapped /\ tx[v].dev # tx[w].dev
          /\ tx'[v].dev = tx[v].dev /\ tx'[v].found = tx[v].found
      BY <1>2, <2>2, <3>1, CommitEffect
    <3>3. tx[v].dev \in Devices
      BY <1>0, <3>2, TxCases DEF TypesOfRequests, ReadTx
    <3>. QED BY <2>1, <3>2, <3>3 DEF ReadsFresh, Fresh
  <2>. QED BY <2>2 DEF ReadsFresh
<1>3. ASSUME NEW w \in Workers, TxFails(w) \/ Merge(w) PROVE ReadsFresh'
  <2>1. rows' = rows /\ tx' = [tx EXCEPT ![w] = Idle]
    BY <1>3 DEF TxFails, Merge, database
  <2>2. ASSUME NEW v \in Workers, tx'[v].pc = "read" PROVE tx'[v] = tx[v]
    BY <1>0, <2>1, <2>2 DEF TypesOfRequests, Idle
  <2>. QED BY <2>1, <2>2 DEF ReadsFresh, Fresh
<1>4. ASSUME NEW D \in SUBSET Devices, Delete(D) PROVE ReadsFresh'
  <2>1. tx' = Overlapping(D) /\ \A d \in Devices : d \notin D => rows'[d] = rows[d]
    BY <1>4 DEF Delete
  <2>2. ASSUME NEW v \in Workers, tx'[v].pc = "read", ~tx'[v].overlapped PROVE Fresh(tx[v])'
    <3>1. /\ tx[v].pc = "read" /\ ~tx[v].overlapped /\ tx[v].dev \notin D
          /\ tx'[v].dev = tx[v].dev /\ tx'[v].found = tx[v].found
      BY <1>0, <2>1, <2>2, OverlappingEffect DEF TypesOfRequests
    <3>2. tx[v].dev \in Devices
      BY <1>0, <3>1, TxCases DEF TypesOfRequests, ReadTx
    <3>. QED BY <2>1, <3>1, <3>2 DEF ReadsFresh, Fresh
  <2>. QED BY <2>2 DEF ReadsFresh
<1>5. CASE CrashAndRestart
  <2>1. \A v \in Workers : tx'[v].pc # "read"
    BY <1>5, RestartEffect
  <2>. QED BY <2>1 DEF ReadsFresh
<1>6. CASE UNCHANGED <<tx, rows>>
  BY <1>6 DEF ReadsFresh, Fresh
<1>7. CASE UNCHANGED <<tx, database, memory, history>> \/ Recheck
  BY <1>6, <1>7 DEF Recheck, database
<1>. QED BY <1>1, <1>2, <1>3, <1>4, <1>5, <1>7, Steps

LEMMA NextStored ==
    TypeOK /\ ReadsFresh /\ StoredUnlessOverlapped /\ [Next]_vars => StoredUnlessOverlapped'
<1> SUFFICES ASSUME TypeOK, ReadsFresh, StoredUnlessOverlapped, [Next]_vars
             PROVE  StoredUnlessOverlapped'
  OBVIOUS
<1>0. TypesOfDatabase /\ TypesOfRequests /\ TypesOfHistory
  BY TypeParts
<1>1. ASSUME NEW w \in Workers, Commit(w) \/ CommitInDoubt(w) PROVE StoredUnlessOverlapped'
  <2>1. /\ \A d \in Devices : d # tx[w].dev => rows'[d] = rows[d]
        /\ Fresh(tx[w]) => /\ rows'[tx[w].dev] # None
                           /\ rows'[tx[w].dev].id = RowId(tx[w])
                           /\ rows'[tx[w].dev].signed = rows'[tx[w].dev].ns
    BY <1>0, <1>1, WriteEffect DEF Commit, CommitInDoubt, TypesOfDatabase, TypesOfRequests
  <2>2. tx[w].pc = "read" /\ tx[w].dev \in Devices
    BY <1>1, CommitEffect
  <2>3. ASSUME NEW d \in Devices, acked'[d] # None, ~acked'[d].overlapped
        PROVE  Stored(d)'
    <3>1. CASE d # tx[w].dev
      <4>1. acked'[d] = acked[d]
        BY <1>0, <1>1, <3>1 DEF Commit, CommitInDoubt, TypesOfHistory
      <4>2. Stored(d)
        BY <2>3, <4>1 DEF StoredUnlessOverlapped
      <4>. QED BY <2>1, <3>1, <4>1, <4>2 DEF Stored
    <3>2. CASE d = tx[w].dev /\ CommitInDoubt(w)
      <4>1. acked'[d] = None
        BY <1>0, <3>2, <2>2 DEF CommitInDoubt, TypesOfHistory
      <4>. QED BY <2>3, <4>1
    <3>3. CASE d = tx[w].dev /\ Commit(w)
      <4>1. acked'[d] = [id |-> RowId(tx[w]), overlapped |-> tx[w].overlapped]
        BY <1>0, <2>2, <3>3 DEF Commit, TypesOfHistory
      <4>2. Fresh(tx[w])
        BY <2>2, <2>3, <4>1 DEF ReadsFresh
      <4>. QED BY <2>1, <3>3, <4>1, <4>2 DEF Stored
    <3>. QED BY <1>1, <3>1, <3>2, <3>3
  <2>. QED BY <2>3 DEF StoredUnlessOverlapped
<1>2. ASSUME NEW D \in SUBSET Devices, Delete(D) PROVE StoredUnlessOverlapped'
  <2>1. ASSUME NEW d \in Devices, acked'[d] # None
        PROVE  rows'[d] = rows[d] /\ acked'[d] = acked[d]
    BY <1>2, <2>1 DEF Delete
  <2>. QED BY <2>1 DEF StoredUnlessOverlapped, Stored
<1>3. CASE CrashAndRestart
  <2>1. \A d \in Devices : acked'[d] # None => acked'[d] = acked[d] /\ rows'[d] = rows[d]
    BY <1>3, RestartEffect
  <2>. QED BY <2>1 DEF StoredUnlessOverlapped, Stored
<1>4. CASE UNCHANGED <<rows, acked>>
  BY <1>4 DEF StoredUnlessOverlapped, Stored
<1>5. ASSUME NEW w \in Workers, NEW d \in Devices, NEW sub \in Subscription, Select(w, d, sub)
      PROVE  UNCHANGED <<rows, acked>>
  BY <1>5 DEF Select, database, history
<1>6. ASSUME NEW w \in Workers, TxFails(w) \/ Merge(w) PROVE UNCHANGED <<rows, acked>>
  BY <1>6 DEF TxFails, Merge, database, history
<1>7. UNCHANGED <<tx, database, memory, history>> \/ Recheck => UNCHANGED <<rows, acked>>
  BY DEF Recheck, database, history
<1>. QED BY <1>1, <1>2, <1>3, <1>4, <1>5, <1>6, <1>7, Steps

----------------------------------------------------------------------------
(* NewestInMemory is inductive with TypeOK: what a merge keeps is at least *)
(* as new as both signatures, so a row that relied on the merge, or on     *)
(* memory, still may.                                                      *)

LEMMA MergedEffect ==
    ASSUME NEW mem \in [Settings -> Times \cup {NoSig}], NEW s \in Settings, NEW sig_ts \in Times
    PROVE  /\ Merged(mem, s, sig_ts)[s] # NoSig /\ Merged(mem, s, sig_ts)[s] >= sig_ts
           /\ \A k \in Settings : mem[k] # NoSig =>
                /\ Merged(mem, s, sig_ts)[k] # NoSig
                /\ \A t \in Times : mem[k] >= t => Merged(mem, s, sig_ts)[k] >= t
<1> DEFINE new == Merged(mem, s, sig_ts)
<1>0. sig_ts \in Nat /\ sig_ts # NoSig
  BY TimesAreNat
<1>1. CASE mem[s] = NoSig \/ is_newer(sig_ts, mem[s])
  <2>1. new = [mem EXCEPT ![s] = sig_ts]
    BY <1>1 DEF Merged
  <2>2. new[s] = sig_ts /\ \A k \in Settings : k # s => new[k] = mem[k]
    BY <2>1
  <2>3. ASSUME mem[s] # NoSig, NEW t \in Times, mem[s] >= t PROVE sig_ts >= t
    <3>1. mem[s] \in Nat /\ t \in Nat
      BY <2>3, TimesAreNat
    <3>. QED BY <1>0, <1>1, <2>3, <3>1 DEF is_newer
  <2> HIDE DEF new
  <2>. QED BY <1>0, <2>2, <2>3 DEF new
<1>2. CASE ~(mem[s] = NoSig \/ is_newer(sig_ts, mem[s]))
  <2>1. new = mem
    BY <1>2 DEF Merged
  <2>2. mem[s] \in Nat
    BY <1>2, TimesAreNat
  <2>3. mem[s] >= sig_ts
    BY <1>0, <1>2, <2>2 DEF is_newer
  <2> HIDE DEF new
  <2>. QED BY <1>2, <2>1, <2>3 DEF new
<1>. QED BY <1>1, <1>2

LEMMA MergeEffect ==
    ASSUME TypeOK, NEW w \in Workers, Merge(w)
    PROVE  /\ tx[w].pc = "merge" /\ tx[w] \in MergeTx
           /\ <<tx[w].sub.ns, tx[w].sub.opts>> \in Settings /\ tx[w].sub.sig_ts \in Times
           /\ tx'[w].pc = "idle" /\ \A v \in Workers : v # w => tx'[v] = tx[v]
           /\ subscribers_'[<<tx[w].sub.ns, tx[w].sub.opts>>] # NoSig
           /\ subscribers_'[<<tx[w].sub.ns, tx[w].sub.opts>>] >= tx[w].sub.sig_ts
           /\ \A k \in Settings : subscribers_[k] # NoSig =>
                /\ subscribers_'[k] # NoSig
                /\ \A t \in Times : subscribers_[k] >= t => subscribers_'[k] >= t
<1>0. TypesOfMemory /\ TypesOfRequests
  BY TypeParts
<1>1. tx[w].pc = "merge" /\ tx[w] \in MergeTx
  BY <1>0, TxCases DEF Merge, TypesOfRequests
<1> DEFINE s == <<tx[w].sub.ns, tx[w].sub.opts>>
<1>2. s \in Settings /\ tx[w].sub.sig_ts \in Times
  BY <1>1 DEF MergeTx, Subscription, Settings
<1>3. subscribers_' = Merged(subscribers_, s, tx[w].sub.sig_ts) /\ tx' = [tx EXCEPT ![w] = Idle]
  BY DEF Merge
<1>4. tx'[w].pc = "idle" /\ \A v \in Workers : v # w => tx'[v] = tx[v]
  BY <1>0, <1>3 DEF TypesOfRequests, Idle
<1>5. subscribers_ \in [Settings -> Times \cup {NoSig}]
  BY <1>0 DEF TypesOfMemory
<1> HIDE DEF s
<1>6. /\ subscribers_'[s] # NoSig /\ subscribers_'[s] >= tx[w].sub.sig_ts
      /\ \A k \in Settings : subscribers_[k] # NoSig =>
            /\ subscribers_'[k] # NoSig
            /\ \A t \in Times : subscribers_[k] >= t => subscribers_'[k] >= t
  BY <1>2, <1>3, <1>5, MergedEffect
<1>. QED BY <1>1, <1>2, <1>4, <1>6 DEF s

Covered(s, sig_ts) ==
    \/ subscribers_[s] # NoSig /\ subscribers_[s] >= sig_ts
    \/ \E w \in Workers : Merging(w, s, sig_ts)

LEMMA NewestByRow ==
    /\ NewestInMemory <=>
        \A d \in Devices :
            rows[d] # None /\ rows[d].id \notin unmerged /\ rows[d].signed = rows[d].ns =>
                Covered(<<rows[d].ns, rows[d].opts>>, rows[d].sig_ts)
    /\ (\A d \in Devices :
            rows[d] # None /\ rows[d].id \notin unmerged /\ rows[d].signed = rows[d].ns =>
                Covered(<<rows[d].ns, rows[d].opts>>, rows[d].sig_ts))'
        => NewestInMemory'
BY DEF NewestInMemory, Covered

LEMMA InitNewestInMemory == Init => NewestInMemory
BY DEF Init, NewestInMemory

LEMMA NextNewestInMemory == TypeOK /\ NewestInMemory /\ [Next]_vars => NewestInMemory'
<1> SUFFICES ASSUME TypeOK, NewestInMemory, [Next]_vars PROVE NewestInMemory'
  OBVIOUS
<1>0. TypesOfDatabase /\ TypesOfMemory /\ TypesOfRequests
  BY TypeParts
<1>a. \A d \in Devices :
        rows[d] # None /\ rows[d].id \notin unmerged /\ rows[d].signed = rows[d].ns =>
            Covered(<<rows[d].ns, rows[d].opts>>, rows[d].sig_ts)
  BY NewestByRow
<1>b. \A d \in Devices : rows[d] # None =>
        <<rows[d].ns, rows[d].opts>> \in Settings /\ rows[d].sig_ts \in Times
  BY <1>0 DEF TypesOfDatabase, Row, Settings
<1>1. ASSUME NEW w \in Workers, Commit(w) \/ CommitInDoubt(w) PROVE NewestInMemory'
  <2>1. /\ \A d \in Devices : d # tx[w].dev => rows'[d] = rows[d]
        /\ rows' = rows
           \/ /\ rows'[tx[w].dev].id = RowId(tx[w])
              /\ rows'[tx[w].dev].opts = tx[w].sub.opts
              /\ rows'[tx[w].dev].sig_ts = tx[w].sub.sig_ts
              /\ rows'[tx[w].dev].signed = tx[w].sub.ns
    BY <1>0, <1>1, WriteEffect DEF Commit, CommitInDoubt, TypesOfDatabase, TypesOfRequests
  <2>2. tx[w].sub.sig_ts \in Nat
    BY <1>1, CommitEffect, TimesAreNat DEF Subscription
  <2>3. subscribers_' = subscribers_ /\ unmerged \subseteq unmerged'
    BY <1>1 DEF Commit, CommitInDoubt, memory
  <2>4. ASSUME NEW s, NEW sig_ts, Covered(s, sig_ts) PROVE Covered(s, sig_ts)'
    <3>1. \A v \in Workers : tx[v].pc = "merge" => tx'[v] = tx[v]
      BY <1>1, CommitEffect
    <3>. QED BY <2>3, <2>4, <3>1 DEF Covered, Merging
  <2>5. ASSUME NEW d \in Devices, rows'[d] # None, rows'[d].id \notin unmerged',
               rows'[d].signed = rows'[d].ns
        PROVE  Covered(<<rows[d].ns, rows[d].opts>>, rows[d].sig_ts)'
    <3>1. CASE rows'[d] = rows[d]
      <4>1. Covered(<<rows[d].ns, rows[d].opts>>, rows[d].sig_ts)
        BY <1>a, <2>3, <2>5, <3>1
      <4>2. Covered(<<rows'[d].ns, rows'[d].opts>>, rows'[d].sig_ts)
        BY <3>1, <4>1
      <4>3. \A s, sig_ts : Covered(s, sig_ts) => Covered(s, sig_ts)'
        BY <2>4
      <4>. QED BY <3>1, <4>1, <4>3 DEF Covered
    <3>2. CASE rows'[d] # rows[d]
      <4>1. d = tx[w].dev
        BY <2>1, <3>2
      <4>2. /\ rows'[d].id = RowId(tx[w]) /\ rows'[d].ns = tx[w].sub.ns
            /\ rows'[d].opts = tx[w].sub.opts /\ rows'[d].sig_ts = tx[w].sub.sig_ts
        BY <2>1, <2>5, <3>2, <4>1
      <4>3. ~CommitInDoubt(w)
        BY <2>5, <4>2 DEF CommitInDoubt
      <4>4. tx'[w] = [pc |-> "merge", sub |-> tx[w].sub, new_sub |-> NewSub(tx[w])]
        BY <1>1, <4>3, CommitEffect
      <4>5. tx'[w].pc = "merge" /\ tx'[w].sub = tx[w].sub
        BY <4>4
      <4>. QED BY <2>2, <4>2, <4>5 DEF Covered, Merging
    <3>. QED BY <3>1, <3>2
  <2>. QED BY <2>5, NewestByRow
<1>2. ASSUME NEW w \in Workers, Merge(w) PROVE NewestInMemory'
  <2>1. rows' = rows /\ unmerged' = unmerged
    BY <1>2 DEF Merge, database, history
  <2>2. ASSUME NEW s \in Settings, NEW sig_ts \in Times, Covered(s, sig_ts)
        PROVE  Covered(s, sig_ts)'
    <3>1. CASE subscribers_[s] # NoSig /\ subscribers_[s] >= sig_ts
      BY <1>2, <3>1, MergeEffect DEF Covered
    <3>2. CASE Merging(w, s, sig_ts)
      <4>1. s = <<tx[w].sub.ns, tx[w].sub.opts>> /\ tx[w].sub.sig_ts >= sig_ts
        BY <3>2 DEF Merging
      <4>2. subscribers_'[s] # NoSig /\ subscribers_'[s] >= tx[w].sub.sig_ts
        BY <1>2, <4>1, MergeEffect
      <4>3. tx[w].sub.sig_ts \in Nat /\ sig_ts \in Nat
        BY <1>2, MergeEffect, TimesAreNat
      <4>4. subscribers_'[s] \in Nat
        <5>1. TypesOfMemory'
          BY NextTypeOK DEF TypeOK, TypesOfMemory
        <5>. QED BY <4>2, <5>1, TimesAreNat DEF TypesOfMemory
      <4>5. subscribers_'[s] >= sig_ts
        BY <4>1, <4>2, <4>3, <4>4
      <4>. QED BY <4>2, <4>5 DEF Covered
    <3>3. ASSUME NEW v \in Workers, v # w, Merging(v, s, sig_ts) PROVE Covered(s, sig_ts)'
      <4>1. tx'[v] = tx[v]
        BY <1>2, <3>3, MergeEffect
      <4>. QED BY <3>3, <4>1 DEF Covered, Merging
    <3>. QED BY <2>2, <3>1, <3>2, <3>3 DEF Covered
  <2>3. ASSUME NEW d \in Devices, rows[d] # None, rows[d].id \notin unmerged,
               rows[d].signed = rows[d].ns
        PROVE  Covered(<<rows[d].ns, rows[d].opts>>, rows[d].sig_ts)'
    <3>1. Covered(<<rows[d].ns, rows[d].opts>>, rows[d].sig_ts)
      BY <1>a, <2>3
    <3>2. <<rows[d].ns, rows[d].opts>> \in Settings /\ rows[d].sig_ts \in Times
      BY <1>b, <2>3
    <3>3. \A s \in Settings, t \in Times : Covered(s, t) => Covered(s, t)'
      BY <2>2
    <3>. QED BY <2>1, <3>1, <3>2, <3>3 DEF Covered
  <2>. QED BY <2>1, <2>3, NewestByRow
<1>3. ASSUME UNCHANGED <<subscribers_, unmerged>>,
             \A v \in Workers : tx[v].pc = "merge" => tx'[v] = tx[v],
             \A d \in Devices : rows'[d] # None => rows'[d] = rows[d]
      PROVE  NewestInMemory'
  <2>1. \A s, sig_ts : Covered(s, sig_ts) => Covered(s, sig_ts)'
    BY <1>3 DEF Covered, Merging
  <2>2. ASSUME NEW d \in Devices, rows'[d] # None, rows'[d].id \notin unmerged',
               rows'[d].signed = rows'[d].ns
        PROVE  Covered(<<rows[d].ns, rows[d].opts>>, rows[d].sig_ts)'
    <3>1. rows'[d] = rows[d] /\ Covered(<<rows[d].ns, rows[d].opts>>, rows[d].sig_ts)
      BY <1>3, <1>a, <2>2
    <3>. QED BY <2>1, <3>1 DEF Covered
  <2>. QED BY <2>2, NewestByRow
<1>4. ASSUME NEW w \in Workers, NEW d \in Devices, NEW sub \in Subscription, Select(w, d, sub)
      PROVE  NewestInMemory'
  <2>1. UNCHANGED <<rows, subscribers_, unmerged>>
    BY <1>4 DEF Select, database, memory, history
  <2>2. \A v \in Workers : tx[v].pc = "merge" => tx'[v] = tx[v]
    BY <1>4, SelectEffect
  <2>. QED BY <1>3, <2>1, <2>2
<1>5. ASSUME NEW w \in Workers, TxFails(w) PROVE NewestInMemory'
  <2>1. UNCHANGED <<rows, subscribers_, unmerged>>
    BY <1>5 DEF TxFails, database, memory, history
  <2>2. \A v \in Workers : tx[v].pc = "merge" => tx'[v] = tx[v]
    BY <1>0, <1>5 DEF TxFails, TypesOfRequests
  <2>. QED BY <1>3, <2>1, <2>2
<1>6. ASSUME NEW D \in SUBSET Devices, Delete(D), UNCHANGED <<memory, unmerged>>
      PROVE  NewestInMemory'
  <2>1. \A v \in Workers : tx[v].pc = "merge" => tx'[v] = tx[v]
    BY <1>0, <1>6, OverlappingEffect DEF Delete, TypesOfRequests
  <2>2. \A d \in Devices : rows'[d] # None => rows'[d] = rows[d]
    BY <1>6 DEF Delete
  <2>. QED BY <1>3, <1>6, <2>1, <2>2 DEF memory
<1>7. CASE CrashAndRestart
  <2>1. ASSUME NEW d \in Devices, rows'[d] # None, rows'[d].id \notin unmerged'
        PROVE  Covered(<<rows[d].ns, rows[d].opts>>, rows[d].sig_ts)'
    BY <1>7, <2>1, RestartEffect DEF Covered
  <2>. QED BY <2>1, NewestByRow
<1>8. CASE UNCHANGED <<tx, database, memory, history>> \/ Recheck
  BY <1>3, <1>8 DEF Recheck, database, memory, history
<1>. QED BY <1>1, <1>2, <1>4, <1>5, <1>6, <1>7, <1>8, Steps

----------------------------------------------------------------------------
(* MonitoredOnceMerged.  The merge of a subscription that is not new may   *)
(* be the one that fills an empty memory; that the account is monitored    *)
(* nevertheless rests on where its row came from: from a merge, from one   *)
(* that is to come, or from a row that memory missed.                      *)

Present == \E s \in Settings : subscribers_[s] # NoSig
NewMerge == \E w \in Workers : tx[w].pc = "merge" /\ tx[w].new_sub
Known == Present \/ NewMerge \/ unmerged # {}

SeenRow(w) == tx[w].pc = "merge" \/ (tx[w].pc = "read" /\ tx[w].found # None)

KnownOnceStored ==
    (\E d \in Devices : rows[d] # None) \/ (\E w \in Workers : SeenRow(w)) => Known

LEMMA InitKnown == Init => KnownOnceStored /\ MonitoredOnceMerged
BY DEF Init, KnownOnceStored, MonitoredOnceMerged, SeenRow, Idle

LEMMA MonitoredByParts ==
    /\ MonitoredOnceMerged <=> (swarmsKnown /\ Present => queued \/ NewMerge \/ unmerged # {})
    /\ (swarmsKnown /\ Present => queued \/ NewMerge \/ unmerged # {})' => MonitoredOnceMerged'
BY DEF MonitoredOnceMerged, Present, NewMerge

LEMMA NextKnown == TypeOK /\ KnownOnceStored /\ [Next]_vars => KnownOnceStored'
<1> SUFFICES ASSUME TypeOK, KnownOnceStored, [Next]_vars PROVE KnownOnceStored'
  OBVIOUS
<1>0. TypesOfDatabase /\ TypesOfMemory /\ TypesOfRequests
  BY TypeParts
<1>1. ASSUME NEW w \in Workers, NEW d \in Devices, NEW sub \in Subscription, Select(w, d, sub)
      PROVE  KnownOnceStored'
  <2>1. UNCHANGED <<rows, subscribers_, unmerged>>
    BY <1>1 DEF Select, database, memory, history
  <2>2. \A v \in Workers : v # w => tx'[v] = tx[v]
    BY <1>1, SelectEffect
  <2>3. tx[w].pc = "idle" /\ tx'[w].pc = "read"
    BY <1>1, SelectEffect
  <2>4. tx'[w].found # None => rows[d] # None
    BY <1>1, SelectEffect
  <2>5. Known => Known'
    BY <2>1, <2>2, <2>3 DEF Known, Present, NewMerge
  <2>. QED BY <2>1, <2>2, <2>3, <2>4, <2>5 DEF KnownOnceStored, SeenRow
<1>2. ASSUME NEW w \in Workers, CommitInDoubt(w) PROVE KnownOnceStored'
  <2>1. unmerged' # {}
    BY <1>2 DEF CommitInDoubt
  <2>. QED BY <2>1 DEF KnownOnceStored, Known
<1>3. ASSUME NEW w \in Workers, Commit(w) PROVE KnownOnceStored'
  <2>1. UNCHANGED <<subscribers_, unmerged>>
    BY <1>3 DEF Commit, memory
  <2>2. tx'[w] = [pc |-> "merge", sub |-> tx[w].sub, new_sub |-> NewSub(tx[w])]
    BY <1>3, CommitEffect
  <2>3. tx'[w].pc = "merge" /\ tx'[w].new_sub = NewSub(tx[w]) /\ tx[w].pc = "read"
    BY <1>3, <2>2, CommitEffect
  <2>4. \A v \in Workers : v # w => (tx[v].pc # "read" => tx'[v] = tx[v])
    BY <1>3, CommitEffect
  <2>5. Known => Known'
    BY <2>1, <2>3, <2>4 DEF Known, Present, NewMerge
  <2>6. CASE tx[w].found = None
    BY <2>3, <2>6 DEF KnownOnceStored, Known, NewMerge, NewSub
  <2>7. CASE tx[w].found # None
    BY <2>3, <2>5, <2>7 DEF KnownOnceStored, SeenRow
  <2>. QED BY <2>6, <2>7
<1>4. ASSUME NEW w \in Workers, TxFails(w) PROVE KnownOnceStored'
  <2>1. UNCHANGED <<rows, subscribers_, unmerged>> /\ tx[w].pc = "read"
    BY <1>4 DEF TxFails, database, memory, history
  <2>2. tx'[w].pc = "idle" /\ \A v \in Workers : v # w => tx'[v] = tx[v]
    BY <1>0, <1>4 DEF TxFails, TypesOfRequests, Idle
  <2>3. Known => Known'
    BY <2>1, <2>2 DEF Known, Present, NewMerge
  <2>. QED BY <2>1, <2>2, <2>3 DEF KnownOnceStored, SeenRow
<1>5. ASSUME NEW w \in Workers, Merge(w) PROVE KnownOnceStored'
  <2>1. Present'
    BY <1>5, MergeEffect DEF Present
  <2>. QED BY <2>1 DEF KnownOnceStored, Known
<1>6. ASSUME NEW D \in SUBSET Devices, Delete(D), UNCHANGED <<memory, unmerged>>
      PROVE  KnownOnceStored'
  <2>1. \A d \in Devices : rows'[d] # None => rows[d] # None
    BY <1>6 DEF Delete
  <2>2. \A v \in Workers : /\ tx'[v].pc = tx[v].pc
                           /\ tx[v].pc # "read" => tx'[v] = tx[v]
                           /\ tx[v].pc = "read" => tx'[v].found = tx[v].found
    BY <1>0, <1>6, OverlappingEffect DEF Delete, TypesOfRequests
  <2>3. Known => Known'
    BY <1>6, <2>2 DEF Known, Present, NewMerge, memory
  <2>. QED BY <2>1, <2>2, <2>3 DEF KnownOnceStored, SeenRow
<1>7. CASE CrashAndRestart
  <2>1. \A w \in Workers : tx'[w].pc = "idle"
    BY <1>7, RestartEffect
  <2>2. ASSUME NEW d \in Devices, rows'[d] # None PROVE Known'
    BY <1>7, <2>2, RestartEffect DEF Known, Present
  <2>. QED BY <2>1, <2>2 DEF KnownOnceStored, SeenRow
<1>8. CASE UNCHANGED <<tx, rows, subscribers_, unmerged>>
  BY <1>8 DEF KnownOnceStored, SeenRow, Known, Present, NewMerge
<1>9. CASE UNCHANGED <<tx, database, memory, history>> \/ Recheck
  BY <1>8, <1>9 DEF Recheck, database, memory, history
<1>. QED BY <1>1, <1>2, <1>3, <1>4, <1>5, <1>6, <1>7, <1>9, Steps

LEMMA NextMonitored ==
    TypeOK /\ KnownOnceStored /\ MonitoredOnceMerged /\ [Next]_vars => MonitoredOnceMerged'
<1> SUFFICES ASSUME TypeOK, KnownOnceStored, MonitoredOnceMerged, [Next]_vars
             PROVE  MonitoredOnceMerged'
  OBVIOUS
<1>0. TypesOfMemory /\ TypesOfRequests
  BY TypeParts
<1>a. swarmsKnown /\ Present => queued \/ NewMerge \/ unmerged # {}
  BY MonitoredByParts
<1>1. ASSUME UNCHANGED memory, unmerged \subseteq unmerged', NewMerge => NewMerge'
      PROVE  MonitoredOnceMerged'
  <2>1. (swarmsKnown /\ Present => queued \/ NewMerge \/ unmerged # {})'
    BY <1>1, <1>a DEF Present, memory
  <2>. QED BY <2>1, MonitoredByParts
<1>2. ASSUME NEW w \in Workers, NEW d \in Devices, NEW sub \in Subscription, Select(w, d, sub)
      PROVE  MonitoredOnceMerged'
  <2>1. UNCHANGED <<memory, unmerged>>
    BY <1>2 DEF Select, history
  <2>2. \A v \in Workers : v # w => tx'[v] = tx[v]
    BY <1>2, SelectEffect
  <2>3. tx[w].pc = "idle"
    BY <1>2, SelectEffect
  <2>4. NewMerge => NewMerge'
    BY <2>2, <2>3 DEF NewMerge
  <2>. QED BY <1>1, <2>1, <2>4
<1>3. ASSUME NEW w \in Workers, Commit(w) \/ CommitInDoubt(w) PROVE MonitoredOnceMerged'
  <2>1. UNCHANGED memory /\ unmerged \subseteq unmerged'
    BY <1>3 DEF Commit, CommitInDoubt
  <2>2. \A v \in Workers : v # w => (tx[v].pc # "read" => tx'[v] = tx[v])
    BY <1>3, CommitEffect
  <2>3. tx[w].pc = "read"
    BY <1>3, CommitEffect
  <2>4. NewMerge => NewMerge'
    BY <2>2, <2>3 DEF NewMerge
  <2>. QED BY <1>1, <2>1, <2>4
<1>4. ASSUME NEW w \in Workers, TxFails(w) PROVE MonitoredOnceMerged'
  <2>1. UNCHANGED <<memory, unmerged>>
    BY <1>4 DEF TxFails, history
  <2>2. NewMerge => NewMerge'
    BY <1>0, <1>4 DEF TxFails, NewMerge, TypesOfRequests
  <2>. QED BY <1>1, <2>1, <2>2
<1>5. ASSUME NEW w \in Workers, Merge(w) PROVE MonitoredOnceMerged'
  <2>1. unmerged' = unmerged /\ swarmsKnown' = swarmsKnown
    BY <1>5 DEF Merge, history
  <2>2. /\ swarmsKnown /\ tx[w].new_sub => queued'
        /\ queued => queued'
    BY <1>5 DEF Merge
  <2>3. tx[w].pc = "merge" /\ \A v \in Workers : v # w => tx'[v] = tx[v]
    BY <1>5, MergeEffect
  <2>4. ~tx[w].new_sub /\ NewMerge => NewMerge'
    BY <2>3 DEF NewMerge
  <2>5. Known
    BY <2>3 DEF KnownOnceStored, SeenRow
  <2>6. (swarmsKnown /\ Present => queued \/ NewMerge \/ unmerged # {})'
    BY <1>a, <2>1, <2>2, <2>4, <2>5 DEF Known
  <2>. QED BY <2>6, MonitoredByParts
<1>6. ASSUME NEW D \in SUBSET Devices, Delete(D), UNCHANGED <<memory, unmerged>>
      PROVE  MonitoredOnceMerged'
  <2>1. \A v \in Workers : tx[v].pc = "merge" => tx'[v] = tx[v]
    BY <1>0, <1>6, OverlappingEffect DEF Delete, TypesOfRequests
  <2>2. NewMerge => NewMerge'
    BY <2>1 DEF NewMerge
  <2>. QED BY <1>1, <1>6, <2>2
<1>7. CASE Recheck
  BY <1>7 DEF Recheck, MonitoredOnceMerged
<1>8. CASE CrashAndRestart
  <2>1. swarmsKnown' = FALSE
    BY <1>8, RestartEffect
  <2>. QED BY <2>1 DEF MonitoredOnceMerged
<1>9. CASE UNCHANGED <<tx, database, memory, history>>
  BY <1>1, <1>9 DEF NewMerge, history
<1>. QED BY <1>2, <1>3, <1>4, <1>5, <1>6, <1>7, <1>8, <1>9, Steps

----------------------------------------------------------------------------
(* Type correctness of rows, transactions, memory and history, whatever    *)
(* the interleaving of worker threads, deletions and restarts.             *)
THEOREM TypeCorrect == Spec => []TypeOK
<1>. QED BY InitTypeOK, NextTypeOK, PTL DEF Spec

(* The row of the last acknowledged subscription of a device is the one    *)
(* stored, with a signature that covers its namespaces, unless somebody    *)
(* changed the row between the read and the write (add_subscription).      *)
THEOREM StoredUnlessOverlappedHolds == Spec => []StoredUnlessOverlapped
<1>. QED
  BY InitTypeOK, NextTypeOK, InitStored, NextReadsFresh, NextStored, PTL DEF Spec

(* The signature in memory is at least as new as that of every committed   *)
(* row with those settings, or a merge of one that is comes; also after a  *)
(* restart (add_subscription, load_saved_subscriptions).                   *)
THEOREM NewestInMemoryHolds == Spec => []NewestInMemory
<1>. QED
  BY InitTypeOK, NextTypeOK, InitNewestInMemory, NextNewestInMemory, PTL DEF Spec

(* An account with a subscription in memory is queued at the members of    *)
(* its swarm once the swarms are known, or the merge that queues it is to  *)
(* come, or memory missed a row (add_subscription, on_sns_response).       *)
THEOREM MonitoredOnceMergedHolds == Spec => []MonitoredOnceMerged
<1>. QED
  BY InitTypeOK, NextTypeOK, InitKnown, NextKnown, NextMonitored, PTL DEF Spec
============================================================================
