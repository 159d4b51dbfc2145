---------------------------- MODULE ThreadsProofs ----------------------------
(* Proofs about what the threads of HiveMind share: the pool of database   *)
(* connections, for every number of threads and every setting of the pool, *)
(* and the event loop, for every number of threads, loads and swarms.      *)
EXTENDS PGPool, Workers, FiniteSetTheorems, SequenceTheorems, TLAPS

(* The pool of database connections.                                       *)

IdleConn == [conn : Conns, since : 0..MaxTime]

(* What the two ends of the queue lose and gain. *)
LEMMA DropFront ==
    ASSUME NEW S, NEW q \in Seq(S), NEW n \in 0..Len(q)
    PROVE  /\ SubSeq(q, n + 1, Len(q)) \in Seq(S)
           /\ Len(SubSeq(q, n + 1, Len(q))) = Len(q) - n
           /\ \A i \in 1..(Len(q) - n) : SubSeq(q, n + 1, Len(q))[i] = q[n + i]
<1>1. n + 1 \in Int /\ Len(q) \in Int /\ n \in Nat /\ Len(q) \in Nat
  OBVIOUS
<1>2. \A i \in (n + 1)..Len(q) : q[i] \in S
  OBVIOUS
<1>3. /\ SubSeq(q, n + 1, Len(q)) \in Seq(S)
      /\ Len(SubSeq(q, n + 1, Len(q))) =
            IF n + 1 <= Len(q) THEN Len(q) - (n + 1) + 1 ELSE 0
      /\ \A i \in 1..(Len(q) - (n + 1) + 1) :
            SubSeq(q, n + 1, Len(q))[i] = q[(n + 1) + i - 1]
  BY <1>1, <1>2, SubSeqProperties
<1>. QED BY <1>1, <1>3

LEMMA DropLast ==
    ASSUME NEW S, NEW q \in Seq(S), q # <<>>
    PROVE  /\ SubSeq(q, 1, Len(q) - 1) \in Seq(S)
           /\ Len(SubSeq(q, 1, Len(q) - 1)) = Len(q) - 1
           /\ \A i \in 1..(Len(q) - 1) : SubSeq(q, 1, Len(q) - 1)[i] = q[i]
<1> DEFINE k == Len(q) - 1
<1>1. k \in Nat /\ k \in Int /\ \A i \in 1..k : q[i] \in S
  OBVIOUS
<1> HIDE DEF k
<1>2. /\ SubSeq(q, 1, k) \in Seq(S)
      /\ Len(SubSeq(q, 1, k)) = IF 1 <= k THEN k - 1 + 1 ELSE 0
      /\ \A i \in 1..(k - 1 + 1) : SubSeq(q, 1, k)[i] = q[1 + i - 1]
  BY <1>1, SubSeqProperties
<1>3. Len(SubSeq(q, 1, k)) = k
  <2>1. CASE 1 <= k
    BY <1>1, <1>2, <2>1
  <2>2. CASE ~(1 <= k)
    BY <1>1, <1>2, <2>2
  <2>. QED BY <2>1, <2>2
<1>4. ASSUME NEW i \in 1..k
      PROVE  SubSeq(q, 1, k)[i] = q[i]
  <2>1. i \in 1..(k - 1 + 1) /\ 1 + i - 1 = i
    BY <1>1
  <2>2. SubSeq(q, 1, k)[i] = q[1 + i - 1]
    BY <1>2, <2>1
  <2>. QED BY <2>1, <2>2, Zenon
<1>. QED BY <1>2, <1>3, <1>4 DEF k

----------------------------------------------------------------------------
(* Type correctness, and who has a connection.                             *)

(* A thread has a connection exactly between taking one and giving it      *)
(* back, and the lock is held only to connect.                             *)
Holding ==
    /\ \A t \in Threads :
        /\ pc[t] \in {"check", "use", "release"} => conn[t] # None
        /\ pc[t] \in {"out", "pop", "make", "tidy"} => conn[t] = None
    /\ mutex_ # None => pc[mutex_] = "make"

LEMMA InitTypeOK == Init => TypeOK
<1> SUFFICES ASSUME Init PROVE TypeOK
  OBVIOUS
<1> USE PoolAssumptions
<1>1. PICK f \in [1..initial_conns -> Conns] :
        /\ idle_conns_ = [i \in 1..initial_conns |-> [conn |-> f[i], since |-> 0]]
        /\ status = [c \in Conns |->
                        IF \E i \in 1..initial_conns : f[i] = c THEN "up" ELSE "closed"]
  BY DEF Init
<1>2. idle_conns_ \in Seq(IdleConn)
  <2>1. idle_conns_ \in [1..initial_conns -> IdleConn]
    BY <1>1 DEF IdleConn
  <2>2. initial_conns \in Nat
    OBVIOUS
  <2>. QED BY <2>1, <2>2
<1>3. status \in [Conns -> Statuses]
  BY <1>1 DEF Statuses
<1>. QED BY <1>2, <1>3 DEF Init, TypeOK, States, IdleConn

(* The connections that leave the pool are closed, in whichever call. *)
LEMMA ClearTypes ==
    ASSUME TypeOK, clear_idle_conns
    PROVE  /\ idle_conns_' \in Seq(IdleConn)
           /\ status' \in [Conns -> Statuses]
<1>1. PICK n \in 0..Len(idle_conns_) :
        /\ idle_conns_' = SubSeq(idle_conns_, n + 1, Len(idle_conns_))
        /\ status' = [c \in Conns |->
                        IF \E i \in 1..n : idle_conns_[i].conn = c THEN "closed" ELSE status[c]]
  BY DEF clear_idle_conns
<1>2. idle_conns_ \in Seq(IdleConn)
  BY DEF TypeOK, IdleConn
<1>. QED BY <1>1, <1>2, DropFront DEF TypeOK, Statuses

LEMMA NextTypeOK == TypeOK /\ Holding /\ [Next]_vars => TypeOK'
<1> SUFFICES ASSUME TypeOK, Holding, [Next]_vars PROVE TypeOK'
  OBVIOUS
<1> USE PoolAssumptions DEF TypeOK, Goto, States, Statuses
<1>0. idle_conns_ \in Seq(IdleConn)
  BY DEF IdleConn
<1>1. CASE Tick
  BY <1>1 DEF Tick
<1>2. ASSUME NEW c \in Conns, ServerDrops(c) PROVE TypeOK'
  BY <1>2 DEF ServerDrops
<1>3. ASSUME NEW t \in Threads, Step(t) PROVE TypeOK'
  <2>1. CASE Get(t)
    BY <2>1 DEF Get
  <2>2. CASE pop_conn(t)
    <3>1. CASE PopConn(t)
      <4>1. /\ idle_conns_' = SubSeq(idle_conns_, 1, Len(idle_conns_) - 1)
            /\ idle_conns_ # <<>>
        BY <3>1 DEF PopConn
      <4>3. idle_conns_' \in Seq(IdleConn)
        BY <1>0, <4>1, DropLast, Zenon
      <4>2. conn' \in [Threads -> Conns \cup {None}]
        <5>1. idle_conns_[Len(idle_conns_)] \in IdleConn
          BY <1>0, <4>1
        <5>2. idle_conns_[Len(idle_conns_)].conn \in Conns
          BY <5>1 DEF IdleConn
        <5>. QED BY <3>1, <5>2 DEF PopConn
      <4>. QED BY <2>2, <3>1, <4>2, <4>3 DEF pop_conn, PopConn, IdleConn
    <3>2. CASE PopNone(t)
      BY <2>2, <3>2 DEF pop_conn, PopNone
    <3>. QED BY <2>2, <3>1, <3>2 DEF pop_conn
  <2>3. CASE CheckOpen(t)
    BY <2>3 DEF CheckOpen
  <2>4. CASE CheckDead(t)
    BY <2>4 DEF CheckDead
  <2>5. CASE GetClears(t)
    BY <2>5, ClearTypes DEF GetClears, IdleConn
  <2>6. CASE MakeLocks(t)
    BY <2>6 DEF MakeLocks
  <2>7. CASE MakeConnects(t)
    BY <2>7 DEF MakeConnects
  <2>8. CASE MakeThrows(t)
    BY <2>8 DEF MakeThrows
  <2>9. CASE Work(t)
    BY <2>9 DEF Work
  <2>10. CASE WorkFails(t)
    BY <2>10 DEF WorkFails
  <2>11. CASE release(t)
    <3>1. [conn |-> conn[t], since |-> now] \in IdleConn
      BY <2>11 DEF IdleConn, Holding, release
    <3>2. idle_conns_' \in Seq(IdleConn)
      BY <1>0, <2>11, <3>1, AppendProperties DEF release, PushBack
    <3>. QED BY <2>11, <3>2 DEF release, IdleConn
  <2>12. CASE ReleaseClears(t)
    BY <2>12, ClearTypes DEF ReleaseClears, IdleConn
  <2>. QED
    BY <1>3, <2>1, <2>2, <2>3, <2>4, <2>5, <2>6, <2>7, <2>8, <2>9, <2>10, <2>11, <2>12 DEF Step
<1>4. CASE UNCHANGED vars
  BY <1>4 DEF vars
<1>. QED BY <1>1, <1>2, <1>3, <1>4 DEF Next

LEMMA NextHolding == TypeOK /\ Holding /\ [Next]_vars => Holding'
<1> SUFFICES ASSUME TypeOK, Holding, [Next]_vars PROVE Holding'
  OBVIOUS
<1> USE PoolAssumptions DEF TypeOK, Holding, Goto
<1>1. CASE Tick \/ \E c \in Conns : ServerDrops(c)
  BY <1>1 DEF Tick, ServerDrops
<1>2. ASSUME NEW t \in Threads, Step(t) PROVE Holding'
  <2>1. CASE Get(t)
    BY <2>1 DEF Get
  <2>2. CASE pop_conn(t)
    <3>1. CASE PopConn(t)
      <4>1. idle_conns_[Len(idle_conns_)] \in IdleConn
        <5>1. idle_conns_ \in Seq(IdleConn) /\ idle_conns_ # <<>>
          BY <3>1 DEF PopConn, IdleConn
        <5>. QED BY <5>1
      <4>2. idle_conns_[Len(idle_conns_)].conn # None
        BY <4>1 DEF IdleConn
      <4>. QED BY <2>2, <3>1, <4>2 DEF pop_conn, PopConn
    <3>2. CASE PopNone(t)
      BY <2>2, <3>2 DEF pop_conn, PopNone
    <3>. QED BY <2>2, <3>1, <3>2 DEF pop_conn
  <2>3. CASE CheckOpen(t) \/ CheckDead(t)
    BY <2>3 DEF CheckOpen, CheckDead
  <2>5. CASE GetClears(t)
    BY <2>5 DEF GetClears, clear_idle_conns
  <2>6. CASE MakeLocks(t)
    BY <2>6 DEF MakeLocks
  <2>7. CASE MakeConnects(t)
    BY <2>7 DEF MakeConnects
  <2>8. CASE MakeThrows(t)
    BY <2>8 DEF MakeThrows
  <2>9. CASE Work(t) \/ WorkFails(t)
    BY <2>9 DEF Work, WorkFails
  <2>11. CASE release(t)
    BY <2>11 DEF release
  <2>12. CASE ReleaseClears(t)
    BY <2>12 DEF ReleaseClears, clear_idle_conns
  <2>. QED
    BY <1>2, <2>1, <2>2, <2>3, <2>5, <2>6, <2>7, <2>8, <2>9, <2>11, <2>12 DEF Step
<1>3. CASE UNCHANGED vars
  BY <1>3 DEF vars
<1>. QED BY <1>1, <1>2, <1>3 DEF Next

LEMMA HoldingAlways == Spec => [](TypeOK /\ Holding)
<1>1. Init => Holding
  BY DEF Init, Holding
<1>. QED BY <1>1, InitTypeOK, NextTypeOK, NextHolding, PTL DEF Spec

(* Every state of the pool is well-typed; a connection that is returned is *)
(* one.                                                                    *)
THEOREM TypeCorrect == Spec => []TypeOK
BY HoldingAlways, PTL

----------------------------------------------------------------------------
(* Ownership.                                                              *)

IdleDistinct ==
    \A i, j \in 1..Len(idle_conns_) : idle_conns_[i].conn = idle_conns_[j].conn => i = j
HeldDistinct ==
    \A s, t \in Threads : conn[s] = conn[t] /\ conn[t] # None => s = t
Open == {c \in Conns : status[c] # "closed"}

(* OwnedOnce, with its parts named. *)
LEMMA OwnedParts ==
    OwnedOnce <=> /\ IdleDistinct /\ HeldDistinct
                  /\ Idle \cap Held = {} /\ Idle \cup Held = Open
BY DEF OwnedOnce, IdleDistinct, HeldDistinct, Open

LEMMA OwnedPartsNext ==
    ASSUME IdleDistinct', HeldDistinct', Idle' \cap Held' = {}, Idle' \cup Held' = Open'
    PROVE  OwnedOnce'
BY DEF OwnedOnce, IdleDistinct, HeldDistinct, Open

LEMMA HeldGain ==
    ASSUME TypeOK, HeldDistinct, NEW t \in Threads, NEW c \in Conns,
           conn[t] = None, c \notin Held, conn' = [conn EXCEPT ![t] = c]
    PROVE  HeldDistinct' /\ Held' = Held \cup {c}
<1> USE PoolAssumptions
<1>1. \A s \in Threads : conn'[s] = IF s = t THEN c ELSE conn[s]
  BY DEF TypeOK
<1>2. HeldDistinct'
  <2> SUFFICES ASSUME NEW r \in Threads, NEW s \in Threads,
                      conn'[r] = conn'[s], conn'[s] # None
               PROVE  r = s
    BY DEF HeldDistinct
  <2>. QED BY <1>1 DEF HeldDistinct, Held
<1>3. Held' = {conn'[s] : s \in Threads} \ {None}
  BY DEF Held
<1>4. ASSUME NEW x PROVE x \in Held' <=> x \in Held \cup {c}
  BY <1>1, <1>3 DEF Held
<1>. QED BY <1>2, <1>4

LEMMA HeldLose ==
    ASSUME TypeOK, HeldDistinct, NEW t \in Threads,
           conn[t] # None, conn' = [conn EXCEPT ![t] = None]
    PROVE  HeldDistinct' /\ Held' = Held \ {conn[t]} /\ conn[t] \in Held
<1> USE PoolAssumptions
<1>1. \A s \in Threads : conn'[s] = IF s = t THEN None ELSE conn[s]
  BY DEF TypeOK
<1>2. HeldDistinct'
  <2> SUFFICES ASSUME NEW r \in Threads, NEW s \in Threads,
                      conn'[r] = conn'[s], conn'[s] # None
               PROVE  r = s
    BY DEF HeldDistinct
  <2>. QED BY <1>1 DEF HeldDistinct
<1>3. Held' = {conn'[s] : s \in Threads} \ {None}
  BY DEF Held
<1>4. ASSUME NEW x PROVE x \in Held' <=> x \in Held \ {conn[t]}
  BY <1>1, <1>3 DEF Held, HeldDistinct
<1>. QED BY <1>2, <1>4 DEF Held

LEMMA IdleGain ==
    ASSUME TypeOK, IdleDistinct, NEW e \in IdleConn, e.conn \notin Idle,
           idle_conns_' = Append(idle_conns_, e)
    PROVE  IdleDistinct' /\ Idle' = Idle \cup {e.conn}
<1> DEFINE n == Len(idle_conns_)
<1>1. idle_conns_ \in Seq(IdleConn) /\ n \in Nat
  BY DEF TypeOK, IdleConn
<1>2. /\ Len(idle_conns_') = n + 1
      /\ \A i \in 1..n : idle_conns_'[i] = idle_conns_[i]
      /\ idle_conns_'[n + 1] = e
  BY <1>1, AppendProperties
<1>3. Idle = {idle_conns_[i].conn : i \in 1..n}
  BY DEF Idle
<1>4. Idle' = {idle_conns_'[i].conn : i \in 1..(n + 1)}
  BY <1>2 DEF Idle
<1>5. \A i, j \in 1..n : idle_conns_[i].conn = idle_conns_[j].conn => i = j
  BY DEF IdleDistinct
<1> HIDE DEF n
<1>6. \A i, j \in 1..(n + 1) : idle_conns_'[i].conn = idle_conns_'[j].conn => i = j
  <2> SUFFICES ASSUME NEW i \in 1..(n + 1), NEW j \in 1..(n + 1),
                      idle_conns_'[i].conn = idle_conns_'[j].conn
               PROVE  i = j
    OBVIOUS
  <2>1. CASE i \in 1..n /\ j \in 1..n
    BY <1>2, <1>5, <2>1
  <2>2. CASE i = n + 1 /\ j \in 1..n
    BY <1>2, <1>3, <2>2
  <2>3. CASE i \in 1..n /\ j = n + 1
    BY <1>2, <1>3, <2>3
  <2>. QED BY <1>1, <2>1, <2>2, <2>3
<1>7. ASSUME NEW x PROVE x \in Idle' <=> x \in Idle \cup {e.conn}
  <2>1. ASSUME x \in Idle' PROVE x \in Idle \cup {e.conn}
    <3>1. PICK i \in 1..(n + 1) : x = idle_conns_'[i].conn
      BY <1>4, <2>1
    <3>2. CASE i \in 1..n
      BY <1>2, <1>3, <3>1, <3>2
    <3>3. CASE i = n + 1
      BY <1>2, <3>1, <3>3
    <3>. QED BY <1>1, <3>2, <3>3
  <2>2. ASSUME x \in Idle PROVE x \in Idle'
    <3>1. PICK i \in 1..n : x = idle_conns_[i].conn
      BY <1>3, <2>2
    <3>2. i \in 1..(n + 1) /\ x = idle_conns_'[i].conn
      BY <1>1, <1>2, <3>1
    <3>. QED BY <1>4, <3>2
  <2>3. e.conn \in Idle'
    <3>1. n + 1 \in 1..(n + 1)
      BY <1>1
    <3>. QED BY <1>2, <1>4, <3>1
  <2>. QED BY <2>1, <2>2, <2>3
<1>8. IdleDistinct'
  BY <1>2, <1>6 DEF IdleDistinct
<1>. QED BY <1>7, <1>8

LEMMA IdlePop ==
    ASSUME TypeOK, IdleDistinct, idle_conns_ # <<>>,
           idle_conns_' = SubSeq(idle_conns_, 1, Len(idle_conns_) - 1)
    PROVE  LET c == idle_conns_[Len(idle_conns_)].conn
           IN  IdleDistinct' /\ Idle' = Idle \ {c} /\ c \in Idle /\ c \in Conns
<1> DEFINE n == Len(idle_conns_)
           c == idle_conns_[n].conn
<1>1. idle_conns_ \in Seq(IdleConn) /\ n \in Nat /\ n > 0
  BY DEF TypeOK, IdleConn
<1>2. /\ Len(idle_conns_') = n - 1
      /\ \A i \in 1..(n - 1) : idle_conns_'[i] = idle_conns_[i]
  BY <1>1, DropLast
<1>3. Idle = {idle_conns_[i].conn : i \in 1..n}
  BY DEF Idle
<1>4. Idle' = {idle_conns_'[i].conn : i \in 1..(n - 1)}
  BY <1>2 DEF Idle
<1>5. \A i, j \in 1..n : idle_conns_[i].conn = idle_conns_[j].conn => i = j
  BY DEF IdleDistinct
<1>6. c \in Conns
  <2>1. idle_conns_[n] \in IdleConn
    BY <1>1
  <2>. QED BY <2>1 DEF IdleConn
<1> HIDE DEF n
<1>7. 1..n = 1..(n - 1) \cup {n} /\ n \notin 1..(n - 1)
  BY <1>1
<1>8. \A i, j \in 1..(n - 1) : idle_conns_'[i].conn = idle_conns_'[j].conn => i = j
  BY <1>2, <1>5, <1>7
<1>9. IdleDistinct'
  BY <1>2, <1>8 DEF IdleDistinct
<1>10. Idle' = Idle \ {c} /\ c \in Idle
  BY <1>2, <1>3, <1>4, <1>5, <1>7
<1>. QED BY <1>6, <1>9, <1>10 DEF n

LEMMA IdleClear ==
    ASSUME TypeOK, IdleDistinct, NEW n \in 0..Len(idle_conns_),
           idle_conns_' = SubSeq(idle_conns_, n + 1, Len(idle_conns_))
    PROVE  IdleDistinct' /\ Idle' = Idle \ {idle_conns_[i].conn : i \in 1..n}
<1> DEFINE k == Len(idle_conns_)
           X == {idle_conns_[i].conn : i \in 1..n}
<1>1. idle_conns_ \in Seq(IdleConn) /\ k \in Nat /\ n \in Nat /\ n <= k
  BY DEF TypeOK, IdleConn
<1>2. /\ Len(idle_conns_') = k - n
      /\ \A i \in 1..(k - n) : idle_conns_'[i] = idle_conns_[n + i]
  BY <1>1, DropFront
<1>3. Idle = {idle_conns_[i].conn : i \in 1..k}
  BY DEF Idle
<1>4. Idle' = {idle_conns_'[i].conn : i \in 1..(k - n)}
  BY <1>2 DEF Idle
<1>5. \A i, j \in 1..k : idle_conns_[i].conn = idle_conns_[j].conn => i = j
  BY DEF IdleDistinct
<1> HIDE DEF k
<1>6. ASSUME NEW i \in 1..(k - n) PROVE n + i \in 1..k /\ n + i \notin 1..n
  BY <1>1
<1>7. \A i, j \in 1..(k - n) : idle_conns_'[i].conn = idle_conns_'[j].conn => i = j
  <2> SUFFICES ASSUME NEW i \in 1..(k - n), NEW j \in 1..(k - n),
                      idle_conns_'[i].conn = idle_conns_'[j].conn
               PROVE  i = j
    OBVIOUS
  <2>1. n + i = n + j
    BY <1>2, <1>5, <1>6
  <2>. QED BY <1>1, <2>1
<1>8. IdleDistinct'
  BY <1>2, <1>7 DEF IdleDistinct
<1>9. ASSUME NEW x PROVE x \in Idle' <=> x \in Idle \ X
  <2>1. ASSUME x \in Idle' PROVE x \in Idle \ X
    <3>1. PICK i \in 1..(k - n) : x = idle_conns_[n + i].conn
      BY <1>2, <1>4, <2>1
    <3>2. x \in Idle
      BY <1>3, <1>6, <3>1
    <3>3. ASSUME NEW j \in 1..n, x = idle_conns_[j].conn PROVE FALSE
      <4>1. j \in 1..k
        BY <1>1
      <4>. QED BY <1>5, <1>6, <3>1, <3>3, <4>1
    <3>. QED BY <3>2, <3>3
  <2>2. ASSUME x \in Idle, x \notin X PROVE x \in Idle'
    <3>1. PICK j \in 1..k : x = idle_conns_[j].conn
      BY <1>3, <2>2
    <3>2. j \notin 1..n
      BY <2>2, <3>1
    <3>3. j - n \in 1..(k - n) /\ n + (j - n) = j
      BY <1>1, <3>2
    <3>4. x = idle_conns_'[j - n].conn
      BY <1>2, <3>1, <3>3
    <3>. QED BY <1>4, <3>3, <3>4
  <2>. QED BY <2>1, <2>2
<1>. QED BY <1>8, <1>9

LEMMA InitOwnedOnce == Init => OwnedOnce
<1> SUFFICES ASSUME Init PROVE OwnedOnce
  OBVIOUS
<1> USE PoolAssumptions
<1>1. PICK f \in [1..initial_conns -> Conns] :
        /\ \A i, j \in 1..initial_conns : f[i] = f[j] => i = j
        /\ idle_conns_ = [i \in 1..initial_conns |-> [conn |-> f[i], since |-> 0]]
        /\ status = [c \in Conns |->
                        IF \E i \in 1..initial_conns : f[i] = c THEN "up" ELSE "closed"]
  BY DEF Init
<1>2. /\ Len(idle_conns_) = initial_conns
      /\ \A i \in 1..initial_conns : idle_conns_[i].conn = f[i]
  BY <1>1
<1>3. Held = {}
  BY DEF Init, Held
<1>4. IdleDistinct /\ HeldDistinct
  BY <1>1, <1>2 DEF IdleDistinct, HeldDistinct, Init
<1>5. Idle = {f[i] : i \in 1..initial_conns}
  BY <1>2 DEF Idle
<1>6. Open = {f[i] : i \in 1..initial_conns}
  BY <1>1 DEF Open
<1>. QED BY <1>3, <1>4, <1>5, <1>6, OwnedParts

(* What clear_idle_conns takes from the queue it closes. *)
LEMMA ClearOwned ==
    ASSUME TypeOK, OwnedOnce, clear_idle_conns, UNCHANGED conn
    PROVE  /\ OwnedOnce'
           /\ \A c \in Held : status'[c] = status[c]
<1>0. IdleDistinct /\ HeldDistinct /\ Idle \cap Held = {} /\ Idle \cup Held = Open
  BY OwnedParts
<1>1. PICK n \in 0..Len(idle_conns_) :
        /\ idle_conns_' = SubSeq(idle_conns_, n + 1, Len(idle_conns_))
        /\ status' = [c \in Conns |->
                        IF \E i \in 1..n : idle_conns_[i].conn = c THEN "closed" ELSE status[c]]
  BY DEF clear_idle_conns
<1> DEFINE X == {idle_conns_[i].conn : i \in 1..n}
<1>2. IdleDistinct' /\ Idle' = Idle \ X
  BY <1>0, <1>1, IdleClear
<1>3. HeldDistinct' /\ Held' = Held
  BY <1>0 DEF HeldDistinct, Held
<1>4. X \subseteq Idle
  <2>1. 1..n \subseteq 1..Len(idle_conns_)
    BY DEF TypeOK
  <2>. QED BY <2>1 DEF Idle
<1>5. \A c \in Conns : status'[c] = IF c \in X THEN "closed" ELSE status[c]
  BY <1>1
<1> HIDE DEF X
<1>6. Open' = Open \ X
  BY <1>5 DEF Open
<1>7. OwnedOnce'
  BY <1>0, <1>2, <1>3, <1>4, <1>6, OwnedPartsNext
<1>8. \A c \in Held : status'[c] = status[c]
  BY <1>0, <1>4, <1>5 DEF Open
<1>. QED BY <1>7, <1>8

(* Steps that do not move connections between owners. *)
LEMMA OwnedFrame ==
    ASSUME OwnedOnce, UNCHANGED <<idle_conns_, conn>>, Open' = Open
    PROVE  OwnedOnce'
BY DEF OwnedOnce, Open, Idle, Held

(* A connection that a thread has tested, or is using, has not failed. *)
NoneDead ==
    \A t \in Threads :
        pc[t] \in {"clear", "use"} /\ conn[t] # None => status[conn[t]] # "dead"

LEMMA NextOwned ==
    TypeOK /\ Holding /\ OwnedOnce /\ NoneDead /\ [Next]_vars => OwnedOnce' /\ NoneDead'
<1> SUFFICES ASSUME TypeOK, Holding, OwnedOnce, NoneDead, [Next]_vars
             PROVE  OwnedOnce' /\ NoneDead'
  OBVIOUS
<1> USE PoolAssumptions
<1>0. IdleDistinct /\ HeldDistinct /\ Idle \cap Held = {} /\ Idle \cup Held = Open
  BY OwnedParts
<1>1. \A t \in Threads : conn[t] # None => conn[t] \in Held /\ conn[t] \in Conns
  BY DEF Held, TypeOK
<1>2. ASSUME UNCHANGED <<idle_conns_, status, conn>>,
             NEW t \in Threads, pc' = [pc EXCEPT ![t] = pc'[t]],
             pc'[t] \notin {"clear", "use"} \/ pc[t] \in {"clear", "use"}
      PROVE  OwnedOnce' /\ NoneDead'
  BY <1>2, OwnedFrame DEF NoneDead, TypeOK, Open
<1>3. CASE Tick \/ UNCHANGED vars
  BY <1>3, OwnedFrame DEF Tick, vars, NoneDead, Open
<1>4. ASSUME NEW c \in Conns, ServerDrops(c) PROVE OwnedOnce' /\ NoneDead'
  <2>1. \A d \in Conns : status'[d] = IF d = c THEN "lost" ELSE status[d]
    BY <1>4 DEF ServerDrops, TypeOK
  <2>2. status[c] = "up" /\ UNCHANGED <<idle_conns_, pc, conn>>
    BY <1>4 DEF ServerDrops
  <2>3. Open' = Open
    BY <2>1, <2>2 DEF Open
  <2>. QED BY <1>1, <2>1, <2>2, <2>3, OwnedFrame DEF NoneDead
<1>5. ASSUME NEW t \in Threads, Step(t) PROVE OwnedOnce' /\ NoneDead'
  <2>1. CASE Get(t)
    BY <1>2, <2>1 DEF Get, Goto, TypeOK
  <2>2. CASE pop_conn(t)
    <3>1. CASE PopConn(t)
      <4> DEFINE c == idle_conns_[Len(idle_conns_)].conn
      <4>1. /\ idle_conns_ # <<>> /\ pc[t] = "pop" /\ pc' = [pc EXCEPT ![t] = "check"]
            /\ conn' = [conn EXCEPT ![t] = c]
            /\ idle_conns_' = SubSeq(idle_conns_, 1, Len(idle_conns_) - 1)
            /\ UNCHANGED status
        BY <2>2, <3>1 DEF pop_conn, PopConn, Goto
      <4>2. IdleDistinct' /\ Idle' = Idle \ {c} /\ c \in Idle /\ c \in Conns
        BY <1>0, <4>1, IdlePop
      <4> HIDE DEF c
      <4>3. conn[t] = None /\ c \notin Held
        BY <1>0, <4>1, <4>2 DEF Holding
      <4>4. HeldDistinct' /\ Held' = Held \cup {c}
        BY <1>0, <4>1, <4>2, <4>3, HeldGain
      <4>5. Open' = Open
        BY <4>1 DEF Open
      <4>6. OwnedOnce'
        BY <1>0, <4>2, <4>3, <4>4, <4>5, OwnedPartsNext
      <4>7. NoneDead'
        BY <4>1 DEF NoneDead, TypeOK
      <4>. QED BY <4>6, <4>7
    <3>2. CASE PopNone(t)
      <4>1. /\ pc[t] = "pop" /\ pc' = [pc EXCEPT ![t] = "clear"]
            /\ UNCHANGED <<idle_conns_, status, conn>>
        BY <2>2, <3>2 DEF pop_conn, PopNone, Goto
      <4>2. conn[t] = None
        BY <4>1 DEF Holding
      <4>3. NoneDead'
        BY <4>1, <4>2 DEF NoneDead, TypeOK
      <4>. QED BY <4>1, <4>3, OwnedFrame DEF Open
    <3>. QED BY <2>2, <3>1, <3>2 DEF pop_conn
  <2>3. CASE CheckOpen(t)
    <3>1. /\ status[conn[t]] # "dead" /\ pc' = [pc EXCEPT ![t] = "clear"]
          /\ UNCHANGED <<idle_conns_, status, conn>>
      BY <2>3 DEF CheckOpen, is_open, Goto
    <3>2. NoneDead'
      BY <3>1 DEF NoneDead, TypeOK
    <3>. QED BY <3>1, <3>2, OwnedFrame DEF Open
  <2>4. CASE CheckDead(t)
    <3>1. /\ pc[t] = "check" /\ pc' = [pc EXCEPT ![t] = "pop"]
          /\ status' = [status EXCEPT ![conn[t]] = "closed"]
          /\ conn' = [conn EXCEPT ![t] = None] /\ UNCHANGED idle_conns_
      BY <2>4 DEF CheckDead, Goto
    <3>2. conn[t] # None
      BY <3>1 DEF Holding
    <3>3. HeldDistinct' /\ Held' = Held \ {conn[t]} /\ conn[t] \in Held
      BY <1>0, <3>1, <3>2, HeldLose
    <3>4. IdleDistinct' /\ Idle' = Idle
      BY <1>0, <3>1 DEF IdleDistinct, Idle
    <3>5. \A d \in Conns : status'[d] = IF d = conn[t] THEN "closed" ELSE status[d]
      BY <3>1 DEF TypeOK
    <3>6. Open' = Open \ {conn[t]}
      BY <3>5 DEF Open
    <3>7. OwnedOnce'
      BY <1>0, <3>3, <3>4, <3>6, OwnedPartsNext
    <3>8. NoneDead'
      BY <1>1, <3>1, <3>5 DEF NoneDead, TypeOK
    <3>. QED BY <3>7, <3>8
  <2>5. CASE GetClears(t)
    <3>1. /\ clear_idle_conns /\ UNCHANGED conn /\ pc[t] = "clear"
          /\ pc' = [pc EXCEPT ![t] = IF conn[t] = None THEN "make" ELSE "use"]
      BY <2>5 DEF GetClears
    <3>2. OwnedOnce' /\ \A c \in Held : status'[c] = status[c]
      BY <3>1, ClearOwned
    <3>3. NoneDead'
      BY <1>1, <3>1, <3>2 DEF NoneDead, TypeOK
    <3>. QED BY <3>2, <3>3
  <2>6. CASE MakeLocks(t)
    BY <2>6, OwnedFrame DEF MakeLocks, NoneDead, Open
  <2>7. CASE MakeConnects(t)
    <3>1. PICK c \in Conns :
            /\ status[c] = "closed" /\ status' = [status EXCEPT ![c] = "up"]
            /\ conn' = [conn EXCEPT ![t] = c]
      BY <2>7 DEF MakeConnects
    <3>2. /\ pc[t] = "make" /\ pc' = [pc EXCEPT ![t] = "use"] /\ UNCHANGED idle_conns_
      BY <2>7 DEF MakeConnects, Goto
    <3>3. conn[t] = None /\ c \notin Held /\ c \notin Idle
      BY <1>0, <3>1, <3>2 DEF Holding, Open
    <3>4. HeldDistinct' /\ Held' = Held \cup {c}
      BY <1>0, <3>1, <3>3, HeldGain
    <3>5. IdleDistinct' /\ Idle' = Idle
      BY <1>0, <3>2 DEF IdleDistinct, Idle
    <3>6. \A d \in Conns : status'[d] = IF d = c THEN "up" ELSE status[d]
      BY <3>1 DEF TypeOK
    <3>7. Open' = Open \cup {c}
      BY <3>6 DEF Open
    <3>8. OwnedOnce'
      BY <1>0, <3>3, <3>4, <3>5, <3>7, OwnedPartsNext
    <3>9. NoneDead'
      BY <1>1, <3>1, <3>2, <3>6 DEF NoneDead, TypeOK
    <3>. QED BY <3>8, <3>9
  <2>8. CASE MakeThrows(t)
    BY <1>2, <2>8 DEF MakeThrows, Goto, TypeOK
  <2>9. CASE Work(t)
    BY <1>2, <2>9 DEF Work, Goto, TypeOK
  <2>10. CASE WorkFails(t)
    <3>1. /\ pc[t] = "use" /\ pc' = [pc EXCEPT ![t] = "release"]
          /\ status' = [status EXCEPT ![conn[t]] = "dead"]
          /\ UNCHANGED <<idle_conns_, conn>>
      BY <2>10 DEF WorkFails, Goto
    <3>2. conn[t] # None
      BY <3>1 DEF Holding
    <3>3. \A d \in Conns : status'[d] = IF d = conn[t] THEN "dead" ELSE status[d]
      BY <3>1 DEF TypeOK
    <3>4. Open' = Open
      BY <1>0, <1>1, <3>2, <3>3 DEF Open
    <3>5. NoneDead'
      BY <1>0, <1>1, <3>1, <3>2, <3>3 DEF NoneDead, TypeOK, HeldDistinct
    <3>. QED BY <3>1, <3>4, <3>5, OwnedFrame
  <2>11. CASE release(t)
    <3> DEFINE e == [conn |-> conn[t], since |-> now]
    <3>1. /\ pc[t] = "release" /\ pc' = [pc EXCEPT ![t] = "tidy"]
          /\ idle_conns_' = Append(idle_conns_, e)
          /\ conn' = [conn EXCEPT ![t] = None] /\ UNCHANGED status
      BY <2>11 DEF release, PushBack, Goto
    <3>2. conn[t] # None
      BY <3>1 DEF Holding
    <3>3. HeldDistinct' /\ Held' = Held \ {conn[t]} /\ conn[t] \in Held
      BY <1>0, <3>1, <3>2, HeldLose
    <3>4. e \in IdleConn /\ e.conn = conn[t]
      BY <1>1, <3>2 DEF IdleConn, TypeOK
    <3> HIDE DEF e
    <3>5. IdleDistinct' /\ Idle' = Idle \cup {conn[t]}
      BY <1>0, <3>1, <3>3, <3>4, IdleGain
    <3>6. Open' = Open
      BY <3>1 DEF Open
    <3>7. OwnedOnce'
      BY <1>0, <3>3, <3>5, <3>6, OwnedPartsNext
    <3>8. NoneDead'
      BY <3>1 DEF NoneDead, TypeOK
    <3>. QED BY <3>7, <3>8
  <2>12. CASE ReleaseClears(t)
    <3>1. /\ clear_idle_conns /\ UNCHANGED conn /\ pc' = [pc EXCEPT ![t] = "out"]
      BY <2>12 DEF ReleaseClears, Goto
    <3>2. OwnedOnce' /\ \A c \in Held : status'[c] = status[c]
      BY <3>1, ClearOwned
    <3>3. NoneDead'
      BY <1>1, <3>1, <3>2 DEF NoneDead, TypeOK
    <3>. QED BY <3>2, <3>3
  <2>. QED
    BY <1>5, <2>1, <2>2, <2>3, <2>4, <2>5, <2>6, <2>7, <2>8, <2>9, <2>10, <2>11, <2>12 DEF Step
<1>. QED BY <1>3, <1>4, <1>5 DEF Next

LEMMA OwnedAlways == Spec => [](OwnedOnce /\ NoneDead)
<1>1. Init => NoneDead
  BY DEF Init, NoneDead
<1>. QED BY <1>1, InitOwnedOnce, HoldingAlways, NextOwned, PTL DEF Spec

(* No connection is ever in the hands of two threads, or leaked, for every *)
(* number of threads and connections.                                      *)
THEOREM OwnedOnceHolds == Spec => []OwnedOnce
BY OwnedAlways, PTL

(* No thread runs a query on a connection that has already failed. *)
THEOREM NeverUsedAfterFailureHolds == Spec => []NeverUsedAfterFailure
<1>1. Holding /\ NoneDead => NeverUsedAfterFailure
  BY DEF Holding, NoneDead, NeverUsedAfterFailure
<1>. QED BY <1>1, HoldingAlways, OwnedAlways, PTL

----------------------------------------------------------------------------
(* The number of connections.                                              *)

LEMMA BusyFinite ==
    /\ IsFiniteSet(Busy) /\ Cardinality(Busy) \in Nat
    /\ Cardinality(Threads) \in Nat /\ Cardinality(Busy) <= Cardinality(Threads)
<1>1. Busy \in SUBSET Threads
  BY DEF Busy
<1>. QED BY <1>1, PoolAssumptions, FS_Subset, FS_CardinalityType

LEMMA BusyFiniteNext ==
    /\ IsFiniteSet(Busy') /\ Cardinality(Busy') \in Nat
    /\ Cardinality(Busy') <= Cardinality(Threads)
<1>1. Busy' \in SUBSET Threads
  BY DEF Busy
<1>. QED BY <1>1, PoolAssumptions, FS_Subset, FS_CardinalityType

(* No step grows the queue or the busy threads at no cost to the other. *)
LEMMA BoundedFrame ==
    ASSUME TypeOK, PoolBounded, Busy' \subseteq Busy,
           Len(idle_conns_') \in Nat, Len(idle_conns_') <= Len(idle_conns_)
    PROVE  PoolBounded'
<1>1. Cardinality(Busy') <= Cardinality(Busy)
  BY BusyFinite, FS_Subset
<1>2. Len(idle_conns_) \in Nat
  BY DEF TypeOK
<1>. QED BY <1>1, <1>2, BusyFinite, BusyFiniteNext, PoolAssumptions DEF PoolBounded

LEMMA ClearShortens ==
    ASSUME TypeOK, clear_idle_conns
    PROVE  Len(idle_conns_') \in Nat /\ Len(idle_conns_') <= Len(idle_conns_)
<1>1. PICK n \in 0..Len(idle_conns_) :
        idle_conns_' = SubSeq(idle_conns_, n + 1, Len(idle_conns_))
  BY DEF clear_idle_conns
<1>2. idle_conns_ \in Seq(IdleConn) /\ Len(idle_conns_) \in Nat
  BY DEF TypeOK, IdleConn
<1>3. Len(idle_conns_') = Len(idle_conns_) - n
  BY <1>1, <1>2, DropFront
<1>. QED BY <1>2, <1>3

LEMMA NextPoolBounded ==
    TypeOK /\ Holding /\ PoolBounded /\ [Next]_vars => PoolBounded'
<1> SUFFICES ASSUME TypeOK, Holding, PoolBounded, [Next]_vars PROVE PoolBounded'
  OBVIOUS
<1> USE PoolAssumptions
<1>0. idle_conns_ \in Seq(IdleConn) /\ Len(idle_conns_) \in Nat
  BY DEF TypeOK, IdleConn
<1>1. CASE Tick \/ (\E c \in Conns : ServerDrops(c)) \/ UNCHANGED vars
  BY <1>0, <1>1, BoundedFrame DEF Tick, ServerDrops, vars, Busy
<1>2. ASSUME NEW t \in Threads, Step(t) PROVE PoolBounded'
  <2>1. CASE Get(t) \/ CheckOpen(t) \/ CheckDead(t) \/ MakeLocks(t) \/ MakeThrows(t)
             \/ Work(t) \/ WorkFails(t) \/ MakeConnects(t)
    <3>1. UNCHANGED idle_conns_
      BY <2>1 DEF Get, CheckOpen, CheckDead, MakeLocks, MakeThrows, Work, WorkFails,
                  MakeConnects
    <3>2. Busy' \subseteq Busy
      BY <2>1 DEF Get, CheckOpen, CheckDead, MakeLocks, MakeThrows, Work, WorkFails,
                  MakeConnects, Goto, Busy, Holding, TypeOK
    <3>. QED BY <1>0, <3>1, <3>2, BoundedFrame
  <2>2. CASE GetClears(t) \/ ReleaseClears(t)
    <3>1. Len(idle_conns_') \in Nat /\ Len(idle_conns_') <= Len(idle_conns_)
      BY <2>2, ClearShortens DEF GetClears, ReleaseClears
    <3>2. Busy' \subseteq Busy
      BY <2>2 DEF GetClears, ReleaseClears, Goto, Busy, Holding, TypeOK
    <3>. QED BY <3>1, <3>2, BoundedFrame
  <2>3. CASE pop_conn(t) /\ PopConn(t)
    <3>1. Len(idle_conns_') = Len(idle_conns_) - 1
      BY <1>0, <2>3, DropLast DEF PopConn
    <3>2. Busy' \subseteq Busy \cup {t} /\ t \notin Busy
      BY <2>3 DEF PopConn, Goto, Busy, Holding, TypeOK
    <3>3. Cardinality(Busy') <= Cardinality(Busy) + 1
      <4>1. /\ IsFiniteSet(Busy \cup {t})
            /\ Cardinality(Busy \cup {t}) = Cardinality(Busy) + 1
        BY <3>2, BusyFinite, FS_AddElement
      <4>2. Busy' \in SUBSET (Busy \cup {t})
        BY <3>2
      <4>3. Cardinality(Busy') <= Cardinality(Busy \cup {t})
        BY <4>1, <4>2, FS_Subset
      <4>. QED BY <4>1, <4>3
    <3>. QED BY <1>0, <3>1, <3>3, BusyFinite, BusyFiniteNext DEF PoolBounded
  <2>4. CASE pop_conn(t) /\ PopNone(t)
    <3>1. Len(idle_conns_') = 0
      BY <2>4 DEF PopNone
    <3>. QED BY <3>1, BusyFiniteNext, BusyFinite DEF PoolBounded
  <2>5. CASE release(t)
    <3>1. Len(idle_conns_') = Len(idle_conns_) + 1
      BY <1>0, <2>5 DEF release, PushBack
    <3>2. Busy' \subseteq Busy \ {t} /\ t \in Busy
      BY <2>5 DEF release, Goto, Busy, Holding, TypeOK
    <3>3. Cardinality(Busy') <= Cardinality(Busy) - 1
      <4>1. /\ IsFiniteSet(Busy \ {t})
            /\ Cardinality(Busy \ {t}) = Cardinality(Busy) - 1
        BY <3>2, BusyFinite, FS_RemoveElement
      <4>2. Busy' \in SUBSET (Busy \ {t})
        BY <3>2
      <4>3. Cardinality(Busy') <= Cardinality(Busy \ {t})
        BY <4>1, <4>2, FS_Subset
      <4>. QED BY <4>1, <4>3
    <3>. QED BY <1>0, <3>1, <3>3, BusyFinite, BusyFiniteNext DEF PoolBounded
  <2>. QED BY <1>2, <2>1, <2>2, <2>3, <2>4, <2>5 DEF Step, pop_conn
<1>. QED BY <1>1, <1>2 DEF Next

(* The pool opens no more connections than there are threads, or than it   *)
(* started with.                                                           *)
THEOREM PoolBoundedHolds == Spec => []PoolBounded
<1>1. Init => PoolBounded
  <2> SUFFICES ASSUME Init PROVE PoolBounded
    OBVIOUS
  <2>1. Busy = {}
    BY DEF Init, Busy
  <2>2. Cardinality(Busy) = 0
    BY <2>1, FS_EmptySet
  <2>3. Len(idle_conns_) = initial_conns
    BY PoolAssumptions DEF Init
  <2>. QED BY <2>2, <2>3, BusyFinite, PoolAssumptions DEF PoolBounded
<1>. QED BY <1>1, HoldingAlways, NextPoolBounded, PTL DEF Spec

----------------------------------------------------------------------------
(* Stale connections.                                                      *)

(* The queue is in the order in which connections were returned. *)
QueueOrdered ==
    /\ \A i \in 1..Len(idle_conns_) : idle_conns_[i].since <= now
    /\ \A i, j \in 1..Len(idle_conns_) :
            i <= j => idle_conns_[i].since <= idle_conns_[j].since

LEMMA ClearOrdered ==
    ASSUME TypeOK, QueueOrdered, clear_idle_conns, UNCHANGED now
    PROVE  QueueOrdered' /\ \A i \in 1..Len(idle_conns_') : ~Stale(idle_conns_'[i])
<1> DEFINE k == Len(idle_conns_)
<1>1. PICK n \in 0..k :
        /\ Cleared(n)
        /\ idle_conns_' = SubSeq(idle_conns_, n + 1, Len(idle_conns_))
  BY DEF clear_idle_conns
<1>2. /\ idle_conns_ \in Seq(IdleConn) /\ k \in Nat /\ n \in Nat /\ n <= k
      /\ now \in Nat /\ max_idle_time \in Nat
  BY PoolAssumptions DEF TypeOK, IdleConn
<1>3. /\ Len(idle_conns_') = k - n
      /\ \A i \in 1..(k - n) : idle_conns_'[i] = idle_conns_[n + i]
  BY <1>1, <1>2, DropFront
<1>4. /\ \A i \in 1..k : idle_conns_[i].since <= now
      /\ \A i, j \in 1..k : i <= j => idle_conns_[i].since <= idle_conns_[j].since
  BY DEF QueueOrdered
<1>5. n < k => ~Stale(idle_conns_[n + 1])
  BY <1>1 DEF Cleared
<1>6. \A i \in 1..k : idle_conns_[i].since \in Nat
  <2> SUFFICES ASSUME NEW i \in 1..k PROVE idle_conns_[i].since \in Nat
    OBVIOUS
  <2>1. idle_conns_[i] \in IdleConn
    BY <1>2
  <2>. QED BY <2>1, PoolAssumptions DEF IdleConn
<1> HIDE DEF k
<1>7. \A i \in 1..(k - n) : n + i \in 1..k /\ n + 1 \in 1..k /\ n + 1 <= n + i /\ n < k
  BY <1>2
<1>8. QueueOrdered'
  <2>1. \A i \in 1..(k - n) : idle_conns_'[i].since <= now'
    BY <1>3, <1>4, <1>7
  <2>2. ASSUME NEW i \in 1..(k - n), NEW j \in 1..(k - n), i <= j
        PROVE  idle_conns_'[i].since <= idle_conns_'[j].since
    <3>1. n + i <= n + j
      BY <1>2, <2>2
    <3>. QED BY <1>3, <1>4, <1>7, <3>1
  <2>. QED BY <1>3, <2>1, <2>2 DEF QueueOrdered
<1>9. ASSUME NEW i \in 1..(k - n) PROVE ~Stale(idle_conns_'[i])
  <2>1. idle_conns_[n + 1].since <= idle_conns_[n + i].since /\ ~Stale(idle_conns_[n + 1])
    BY <1>4, <1>5, <1>7
  <2>2. idle_conns_[n + 1].since \in Nat /\ idle_conns_[n + i].since \in Nat
    BY <1>6, <1>7
  <2>. QED BY <1>2, <1>3, <2>1, <2>2, SMTT(30) DEF Stale
<1>. QED BY <1>3, <1>8, <1>9

LEMMA NextQueueOrdered ==
    TypeOK /\ Holding /\ QueueOrdered /\ [Next]_vars => QueueOrdered'
<1> SUFFICES ASSUME TypeOK, Holding, QueueOrdered, [Next]_vars PROVE QueueOrdered'
  OBVIOUS
<1> USE PoolAssumptions
<1>0. idle_conns_ \in Seq(IdleConn) /\ Len(idle_conns_) \in Nat /\ now \in Nat
  BY DEF TypeOK, IdleConn
<1>1. CASE UNCHANGED <<now, idle_conns_>>
  BY <1>1 DEF QueueOrdered
<1>2. CASE Tick
  <2>1. \A i \in 1..Len(idle_conns_) : idle_conns_[i].since \in Nat
    <3> SUFFICES ASSUME NEW i \in 1..Len(idle_conns_) PROVE idle_conns_[i].since \in Nat
      OBVIOUS
    <3>1. idle_conns_[i] \in IdleConn
      BY <1>0
    <3>. QED BY <3>1 DEF IdleConn
  <2>. QED BY <1>0, <1>2, <2>1, SMTT(30) DEF Tick, QueueOrdered
<1>3. ASSUME NEW t \in Threads, Step(t) PROVE QueueOrdered'
  <2>1. CASE Get(t) \/ CheckOpen(t) \/ CheckDead(t) \/ MakeLocks(t) \/ MakeThrows(t)
             \/ Work(t) \/ WorkFails(t) \/ MakeConnects(t)
    BY <1>1, <2>1 DEF Get, CheckOpen, CheckDead, MakeLocks, MakeThrows, Work, WorkFails,
                      MakeConnects
  <2>2. CASE GetClears(t) \/ ReleaseClears(t)
    BY <2>2, ClearOrdered DEF GetClears, ReleaseClears
  <2>3. CASE pop_conn(t) /\ PopConn(t)
    <3>1. /\ Len(idle_conns_') = Len(idle_conns_) - 1
          /\ \A i \in 1..(Len(idle_conns_) - 1) : idle_conns_'[i] = idle_conns_[i]
          /\ UNCHANGED now
      BY <1>0, <2>3, DropLast DEF PopConn, pop_conn
    <3>2. \A i \in 1..Len(idle_conns_') :
            i \in 1..Len(idle_conns_) /\ idle_conns_'[i] = idle_conns_[i]
      BY <1>0, <3>1
    <3>. QED BY <3>1, <3>2 DEF QueueOrdered
  <2>4. CASE pop_conn(t) /\ PopNone(t)
    BY <1>1, <2>4 DEF PopNone, pop_conn
  <2>5. CASE release(t)
    <3> DEFINE e == [conn |-> conn[t], since |-> now]
               n == Len(idle_conns_)
    <3>1. e \in IdleConn
      BY <2>5 DEF release, Goto, Holding, TypeOK, IdleConn
    <3>2. /\ Len(idle_conns_') = n + 1 /\ UNCHANGED now
          /\ \A i \in 1..n : idle_conns_'[i] = idle_conns_[i]
          /\ idle_conns_'[n + 1] = e
      BY <1>0, <2>5, <3>1, AppendProperties DEF release, PushBack
    <3>3. e.since = now
      OBVIOUS
    <3> HIDE DEF e
    <3>4. \A i \in 1..(n + 1) : i \in 1..n \/ i = n + 1
      BY <1>0
    <3>5. \A i \in 1..(n + 1) : idle_conns_'[i].since <= now'
      BY <1>0, <3>2, <3>3, <3>4 DEF QueueOrdered
    <3>6. ASSUME NEW i \in 1..(n + 1), NEW j \in 1..(n + 1), i <= j
          PROVE  idle_conns_'[i].since <= idle_conns_'[j].since
      <4>1. CASE j = n + 1
        <5>1. idle_conns_'[j].since = now'
          BY <3>2, <3>3, <4>1
        <5>. QED BY <3>5, <5>1
      <4>2. CASE j \in 1..n
        <5>1. i \in 1..n
          BY <1>0, <3>6, <4>2
        <5>. QED BY <3>2, <3>6, <4>2, <5>1 DEF QueueOrdered
      <4>. QED BY <3>4, <4>1, <4>2
    <3>. QED BY <3>2, <3>5, <3>6 DEF QueueOrdered
  <2>. QED BY <1>3, <2>1, <2>2, <2>3, <2>4, <2>5 DEF Step, pop_conn
<1>. QED BY <1>1, <1>2, <1>3 DEF Next, ServerDrops, vars

LEMMA StepClearsStale ==
    TypeOK /\ QueueOrdered /\ [Next]_vars =>
        \A t \in Threads :
            pc[t] \in {"clear", "tidy"} /\ pc'[t] # pc[t] =>
                \A i \in 1..Len(idle_conns_') : ~Stale(idle_conns_'[i])
<1> SUFFICES ASSUME TypeOK, QueueOrdered, [Next]_vars, NEW t \in Threads,
                    pc[t] \in {"clear", "tidy"}, pc'[t] # pc[t]
             PROVE  \A i \in 1..Len(idle_conns_') : ~Stale(idle_conns_'[i])
  OBVIOUS
<1>1. PICK s \in Threads : Step(s)
  BY DEF Next, Tick, ServerDrops, vars
<1>2. s = t
  BY <1>1 DEF Step, Get, pop_conn, PopConn, PopNone, CheckOpen, CheckDead, GetClears,
              MakeLocks, MakeConnects, MakeThrows, Work, WorkFails, release, ReleaseClears,
              Goto, TypeOK
<1>3. GetClears(t) \/ ReleaseClears(t)
  BY <1>1, <1>2 DEF Step, Get, pop_conn, PopConn, PopNone, CheckOpen, CheckDead, MakeLocks,
                    MakeConnects, MakeThrows, Work, WorkFails, release, Goto
<1>. QED BY <1>3, ClearOrdered DEF GetClears, ReleaseClears

(* A check of the idle connections leaves none that is over its time,      *)
(* although it stops at the first that is not.                             *)
THEOREM StaleClearedHolds == Spec => StaleCleared
<1>1. Init => QueueOrdered
  BY PoolAssumptions DEF Init, QueueOrdered
<1>2. Spec => []QueueOrdered
  BY <1>1, HoldingAlways, NextQueueOrdered, PTL DEF Spec
<1>. QED BY <1>2, TypeCorrect, StepClearsStale, PTL DEF Spec, StaleCleared

----------------------------------------------------------------------------
(* The event loop and the worker threads.                                  *)

(* Jobs of a kind in a queue, counted by their places. *)
Places(jobs, k) == {i \in 1..Len(jobs) : jobs[i] = k}

LEMMA PlacesFinite ==
    ASSUME NEW S, NEW jobs \in Seq(S), NEW k
    PROVE  /\ IsFiniteSet(Places(jobs, k))
           /\ InBatch(jobs, k) = Cardinality(Places(jobs, k))
           /\ InBatch(jobs, k) \in Nat
<1>1. Len(jobs) \in Nat /\ DOMAIN jobs = 1..Len(jobs)
  OBVIOUS
<1>2. IsFiniteSet(1..Len(jobs))
  BY <1>1, FS_Interval
<1>3. IsFiniteSet(Places(jobs, k))
  BY <1>2, FS_Subset DEF Places
<1>4. InBatch(jobs, k) = Cardinality(Places(jobs, k))
  BY <1>1 DEF InBatch, Places
<1>. QED BY <1>3, <1>4, FS_CardinalityType

(* A queue put behind another one adds its jobs. *)
LEMMA InBatchConcat ==
    ASSUME NEW S, NEW s \in Seq(S), NEW t \in Seq(S), NEW k
    PROVE  InBatch(s \o t, k) = InBatch(s, k) + InBatch(t, k)
<1> DEFINE m == Len(s)
           n == Len(t)
           st == s \o t
           A == Places(s, k)
           B == Places(t, k)
           C == {j \in (m + 1)..(m + n) : t[j - m] = k}
           f == [i \in B |-> m + i]
<1>1. m \in Nat /\ n \in Nat
  OBVIOUS
<1>2. st \in Seq(S) /\ Len(st) = m + n
  BY ConcatProperties
<1>3. \A i \in 1..(m + n) : st[i] = IF i <= m THEN s[i] ELSE t[i - m]
  BY ConcatProperties
<1> HIDE DEF m, n, st
<1>4. Places(st, k) = A \cup C
  <2>1. ASSUME NEW i \in Places(st, k) PROVE i \in A \cup C
    <3>1. i \in 1..(m + n) /\ st[i] = k
      BY <1>2 DEF Places
    <3>2. CASE i <= m
      BY <1>1, <1>3, <3>1, <3>2 DEF Places, m
    <3>3. CASE ~(i <= m)
      BY <1>1, <1>3, <3>1, <3>3
    <3>. QED BY <3>2, <3>3
  <2>2. ASSUME NEW i \in A PROVE i \in Places(st, k)
    <3>1. i \in 1..m /\ s[i] = k
      BY DEF Places, m
    <3>2. i \in 1..(m + n) /\ i <= m
      BY <1>1, <3>1
    <3>. QED BY <1>2, <1>3, <3>1, <3>2 DEF Places
  <2>3. ASSUME NEW i \in C PROVE i \in Places(st, k)
    <3>1. i \in 1..(m + n) /\ ~(i <= m) /\ t[i - m] = k
      BY <1>1
    <3>. QED BY <1>2, <1>3, <3>1 DEF Places
  <2>. QED BY <2>1, <2>2, <2>3
<1>5. A \cap C = {}
  BY <1>1 DEF Places, m
<1>6. f \in Bijection(B, C)
  <2>1. \A i \in B : i \in 1..n /\ t[i] = k
    BY DEF Places, n
  <2>2. \A i \in B : m + i \in C
    <3>1. ASSUME NEW i \in B PROVE m + i \in C
      <4>1. i \in 1..n /\ t[i] = k
        BY <2>1
      <4>2. m + i \in (m + 1)..(m + n) /\ (m + i) - m = i
        BY <1>1, <4>1
      <4>. QED BY <4>1, <4>2
    <3>. QED BY <3>1
  <2>3. \A i, j \in B : m + i = m + j => i = j
    BY <1>1, <2>1
  <2>4. ASSUME NEW j \in C PROVE \E i \in B : f[i] = j
    <3>1. j - m \in 1..n /\ t[j - m] = k /\ m + (j - m) = j
      BY <1>1
    <3>2. j - m \in B
      BY <3>1 DEF Places, n
    <3>. QED BY <3>1, <3>2
  <2> HIDE DEF B, C
  <2>5. f \in [B -> C]
    BY <2>2
  <2>6. \A i, j \in B : f[i] = f[j] => i = j
    BY <2>3
  <2> HIDE DEF f
  <2>. QED BY <2>4, <2>5, <2>6 DEF Bijection, Injection, Surjection, IsInjective
<1>7. IsFiniteSet(A) /\ IsFiniteSet(B)
  BY PlacesFinite
<1>8. IsFiniteSet(C) /\ Cardinality(C) = Cardinality(B)
  <2> HIDE DEF B, C, f
  <2>1. ExistsBijection(B, C)
    BY <1>6 DEF ExistsBijection
  <2>. QED BY <1>7, <2>1, FS_Bijection
<1>9. Cardinality(A \cup C) = Cardinality(A) + Cardinality(C)
  <2> HIDE DEF A, B, C
  <2>1. Cardinality(A) \in Nat /\ Cardinality(C) \in Nat
    BY <1>7, <1>8, FS_CardinalityType
  <2>2. Cardinality(A \cap C) = 0
    BY <1>5, FS_EmptySet
  <2>3. Cardinality(A \cup C) = Cardinality(A) + Cardinality(C) - Cardinality(A \cap C)
    BY <1>7, <1>8, FS_Union
  <2>. QED BY <2>1, <2>2, <2>3
<1>10. /\ InBatch(st, k) = Cardinality(Places(st, k))
       /\ InBatch(s, k) = Cardinality(A) /\ InBatch(t, k) = Cardinality(B)
  BY <1>2, PlacesFinite
<1>11. InBatch(st, k) = InBatch(s, k) + InBatch(t, k)
  <2> HIDE DEF A, B, C
  <2>. QED BY <1>4, <1>8, <1>9, <1>10
<1>. QED BY <1>11 DEF st

(* n jobs of one kind are n jobs of that kind and none of another. *)
LEMMA InBatchOfOneKind ==
    ASSUME NEW e, NEW jobs \in Seq({e}), NEW k
    PROVE  InBatch(jobs, k) = IF e = k THEN Len(jobs) ELSE 0
<1> DEFINE n == Len(jobs)
<1>1. n \in Nat /\ \A i \in 1..n : jobs[i] = e
  OBVIOUS
<1>2. InBatch(jobs, k) = Cardinality(Places(jobs, k))
  BY <1>1, PlacesFinite
<1>3. CASE e = k
  <2>1. Places(jobs, k) = 1..n
    BY <1>1, <1>3 DEF Places
  <2>2. Cardinality(1..n) = n
    BY <1>1, FS_Interval
  <2>. QED BY <1>1, <1>2, <1>3, <2>1, <2>2
<1>4. CASE e # k
  <2>1. Places(jobs, k) = {}
    BY <1>1, <1>4 DEF Places
  <2>. QED BY <1>1, <1>2, <1>4, <2>1, FS_EmptySet
<1>. QED BY <1>3, <1>4

LEMMA InBatchOfOne ==
    ASSUME NEW e, NEW k
    PROVE  InBatch(<<e>>, k) = IF e = k THEN 1 ELSE 0
<1>1. <<e>> \in Seq({e}) /\ Len(<<e>>) = 1
  OBVIOUS
<1>. QED BY <1>1, InBatchOfOneKind

(* What adding a job, and taking the first one, do to the counts. *)
LEMMA InBatchAppend ==
    ASSUME NEW S, NEW jobs \in Seq(S), NEW e \in S, NEW k
    PROVE  InBatch(Append(jobs, e), k) = InBatch(jobs, k) + IF e = k THEN 1 ELSE 0
<1>1. Append(jobs, e) = jobs \o <<e>> /\ <<e>> \in Seq(S)
  BY AppendIsConcat
<1>2. InBatch(jobs \o <<e>>, k) = InBatch(jobs, k) + InBatch(<<e>>, k)
  BY <1>1, InBatchConcat
<1>. QED BY <1>1, <1>2, InBatchOfOne

LEMMA InBatchTail ==
    ASSUME NEW S, NEW jobs \in Seq(S), jobs # <<>>, NEW k
    PROVE  InBatch(jobs, k) = InBatch(Tail(jobs), k) + IF Head(jobs) = k THEN 1 ELSE 0
<1>1. Head(jobs) \in S /\ Tail(jobs) \in Seq(S) /\ <<Head(jobs)>> \in Seq(S)
  OBVIOUS
<1>2. jobs = <<Head(jobs)>> \o Tail(jobs)
  OBVIOUS
<1>3. InBatch(<<Head(jobs)>> \o Tail(jobs), k) = InBatch(<<Head(jobs)>>, k) + InBatch(Tail(jobs), k)
  BY <1>1, InBatchConcat
<1>4. InBatch(Tail(jobs), k) \in Nat
  BY <1>1, PlacesFinite
<1>5. InBatch(<<Head(jobs)>>, k) = IF Head(jobs) = k THEN 1 ELSE 0
  BY InBatchOfOne
<1>6. InBatch(jobs, k) = InBatch(<<Head(jobs)>>, k) + InBatch(Tail(jobs), k)
  BY <1>2, <1>3, Zenon
<1>. QED BY <1>4, <1>5, <1>6

----------------------------------------------------------------------------
(* The strengthening.  The jobs of the batch that exist, queued or at      *)
(* work, are the ones that swarmsLeft counts.  While the loop is blocked,  *)
(* the completion exists, once, exactly if no job is left, and the thread  *)
(* of the response is one of those that wait.  A free loop has no batch.   *)
Existing(k) == running[k] + InBatch(batch_jobs, k)

BatchExact ==
    /\ swarmsLeft = Existing("swarm")
    /\ loop_ = "free" => swarmsLeft = 0 /\ Existing("completion") = 0
    /\ loop_ = "batch" =>
        /\ waiting["refresh"] > 0
        /\ Existing("completion") = IF swarmsLeft = 0 THEN 1 ELSE 0

LEMMA KindsListed ==
    /\ "swarm" \in BatchKinds /\ "completion" \in BatchKinds /\ "request" \in BatchKinds
    /\ BatchKinds \subseteq Kinds /\ Outside \subseteq Kinds /\ "refresh" \in Outside
    /\ "swarm" \notin Outside /\ "completion" \notin Outside
BY DEF BatchKinds, Kinds, Outside

(* One job more, and one job less, of a kind. *)
LEMMA IncDec ==
    ASSUME NEW f \in [Kinds -> Nat], NEW k \in Kinds
    PROVE  /\ Inc(f, k) \in [Kinds -> Nat]
           /\ f[k] > 0 => Dec(f, k) \in [Kinds -> Nat]
           /\ \A j \in Kinds : /\ Inc(f, k)[j] = f[j] + IF j = k THEN 1 ELSE 0
                               /\ Dec(f, k)[j] = f[j] - IF j = k THEN 1 ELSE 0
BY DEF Inc, Dec

LEMMA IncDecQueued ==
    ASSUME NEW f \in [Outside -> Nat], NEW k \in Outside
    PROVE  /\ Inc(f, k) \in [Outside -> Nat]
           /\ f[k] > 0 => Dec(f, k) \in [Outside -> Nat]
BY DEF Inc, Dec

LEMMA InitBatch == WorkersInit => WorkersTypeOK /\ BatchExact
<1> SUFFICES ASSUME WorkersInit PROVE WorkersTypeOK /\ BatchExact
  OBVIOUS
<1>1. WorkersTypeOK
  BY WorkerAssumptions, KindsListed DEF WorkersInit, WorkersTypeOK
<1>2. \A k : InBatch(batch_jobs, k) = 0
  <2>1. ASSUME NEW k PROVE InBatch(batch_jobs, k) = 0
    <3>1. {i \in DOMAIN batch_jobs : batch_jobs[i] = k} = {}
      BY DEF WorkersInit
    <3>. QED BY <3>1, FS_EmptySet DEF InBatch
  <2>. QED BY <2>1
<1>3. running["swarm"] = 0 /\ running["completion"] = 0
  BY KindsListed DEF WorkersInit
<1>. QED BY <1>1, <1>2, <1>3 DEF WorkersInit, BatchExact, Existing

(* The kinds of the batch. *)
OfBatch == {"swarm", "completion"}

(* Outside jobs come and go without touching the batch. *)
LEMMA OutsideStep ==
    ASSUME BatchExact,
           \A k \in OfBatch : Existing(k)' = Existing(k),
           loop_' = loop_, swarmsLeft' = swarmsLeft,
           loop_ = "batch" => waiting'["refresh"] > 0
    PROVE  BatchExact'
BY DEF BatchExact, OfBatch

LEMMA NextBatch == WorkersTypeOK /\ BatchExact /\ [WorkersNext]_workersVars => WorkersTypeOK' /\ BatchExact'
<1> SUFFICES ASSUME WorkersTypeOK, BatchExact, [WorkersNext]_workersVars PROVE WorkersTypeOK' /\ BatchExact'
  OBVIOUS
<1> USE WorkerAssumptions
<1>0. /\ batch_jobs \in Seq(BatchKinds) /\ queued \in [Outside -> Nat]
      /\ running \in [Kinds -> Nat] /\ waiting \in [Kinds -> Nat]
      /\ loop_ \in {"free", "batch"} /\ swarmsLeft \in 0..MaxSwarms
  BY DEF WorkersTypeOK
<1>a. \A k : InBatch(batch_jobs, k) \in Nat
  BY <1>0, PlacesFinite
<1>b. /\ running["swarm"] \in Nat /\ running["completion"] \in Nat
      /\ waiting["refresh"] \in Nat
      /\ Existing("swarm") \in Nat /\ Existing("completion") \in Nat
  BY <1>0, <1>a, KindsListed, SMTT(30) DEF Existing
<1>1. CASE on_quic_request
  <2>1. WorkersTypeOK'
    BY <1>0, <1>1, KindsListed DEF on_quic_request, WorkersTypeOK
  <2>2. \A k \in OfBatch : InBatch(batch_jobs', k) = InBatch(batch_jobs, k)
    <3>1. ASSUME NEW k \in OfBatch PROVE InBatch(batch_jobs', k) = InBatch(batch_jobs, k)
      <4>1. batch_jobs' = Append(batch_jobs, "request") /\ k # "request"
        BY <1>1 DEF on_quic_request, OfBatch
      <4>2. InBatch(Append(batch_jobs, "request"), k) = InBatch(batch_jobs, k) + 0
        BY <1>0, <4>1, InBatchAppend, KindsListed
      <4>. QED BY <1>a, <4>1, <4>2
    <3>. QED BY <3>1
  <2>3. BatchExact'
    BY <1>1, <2>2, OutsideStep DEF on_quic_request, Existing, BatchExact
  <2>. QED BY <2>1, <2>3
<1>2. CASE \E k \in Outside \ {"request"} : MessageArrives(k)
  <2> PICK k \in Outside \ {"request"} : MessageArrives(k)
    BY <1>2
  <2>1. WorkersTypeOK'
    BY <1>0, IncDecQueued DEF MessageArrives, WorkersTypeOK
  <2>2. BatchExact'
    BY OutsideStep DEF MessageArrives, Existing, BatchExact
  <2>. QED BY <2>1, <2>2
<1>3. CASE \E k \in Outside \ {"request"} : StartMessage(k)
  <2> PICK k \in Outside \ {"request"} : StartMessage(k)
    BY <1>3
  <2>1. WorkersTypeOK'
    <3>1. queued' \in [Outside -> Nat]
      BY <1>0, IncDecQueued DEF StartMessage
    <3>2. running' \in [Kinds -> Nat]
      BY <1>0, IncDec, KindsListed DEF StartMessage
    <3>. QED BY <1>0, <3>1, <3>2 DEF StartMessage, WorkersTypeOK
  <2>2. \A j \in OfBatch : running'[j] = running[j]
    <3>1. running' = Inc(running, k)
      BY DEF StartMessage
    <3>. QED BY <1>0, <3>1, KindsListed DEF OfBatch, Inc
  <2>3. BatchExact'
    BY <2>2, OutsideStep DEF StartMessage, Existing, BatchExact
  <2>. QED BY <2>1, <2>3
<1>4. CASE StartBatchJob
  <2> DEFINE h == Head(batch_jobs)
  <2>0. batch_jobs # <<>> /\ batch_jobs' = Tail(batch_jobs) /\ running' = Inc(running, h)
        /\ UNCHANGED <<queued, waiting, loop_, swarmsLeft>>
    BY <1>4 DEF StartBatchJob
  <2>1. h \in BatchKinds /\ Tail(batch_jobs) \in Seq(BatchKinds)
    BY <1>0, <2>0
  <2>2. WorkersTypeOK'
    <3>1. running' \in [Kinds -> Nat]
      BY <1>0, <2>0, <2>1, IncDec, KindsListed
    <3>. QED BY <1>0, <2>0, <2>1, <3>1 DEF WorkersTypeOK
  <2>3. ASSUME NEW k \in OfBatch PROVE Existing(k)' = Existing(k)
    <3>1. k \in Kinds
      BY KindsListed DEF OfBatch
    <3>2. running'[k] = running[k] + IF k = h THEN 1 ELSE 0
      <4>1. h \in Kinds
        BY <2>1, KindsListed
      <4>2. Inc(running, h)[k] = running[k] + IF k = h THEN 1 ELSE 0
        <5> HIDE DEF h
        <5>. QED BY <1>0, <3>1, <4>1, IncDec
      <4>. QED BY <2>0, <4>2
    <3>3. InBatch(batch_jobs, k) = InBatch(batch_jobs', k) + IF h = k THEN 1 ELSE 0
      BY <1>0, <2>0, InBatchTail
    <3>4. InBatch(batch_jobs', k) \in Nat /\ running[k] \in Nat
      BY <1>0, <2>0, <2>1, <3>1, PlacesFinite
    <3> HIDE DEF h
    <3>. QED BY <3>2, <3>3, <3>4 DEF Existing
  <2>4. BatchExact'
    BY <2>0, <2>3, OutsideStep DEF BatchExact
  <2>. QED BY <2>2, <2>4
<1>5. CASE \E k \in Outside : JobSteps(k)
  <2> PICK k \in Outside : JobSteps(k)
    BY <1>5
  <2>1. /\ running[k] > 0 /\ running' = Dec(running, k)
        /\ waiting' = waiting \/ waiting' = Inc(waiting, k)
        /\ UNCHANGED <<batch_jobs, queued, loop_, swarmsLeft>>
    BY DEF JobSteps, CallGet, Finish
  <2>2. k \in Kinds /\ "refresh" \in Kinds
    BY KindsListed
  <2>3. WorkersTypeOK'
    <3>1. running' \in [Kinds -> Nat]
      BY <1>0, <2>1, <2>2, IncDec
    <3>2. waiting' \in [Kinds -> Nat]
      BY <1>0, <2>1, <2>2, IncDec
    <3>. QED BY <1>0, <2>1, <3>1, <3>2 DEF WorkersTypeOK
  <2>4. \A j \in OfBatch : running'[j] = running[j]
    BY <1>0, <2>1, KindsListed DEF OfBatch, Dec
  <2>5. waiting'["refresh"] >= waiting["refresh"]
    <3>1. waiting' = Inc(waiting, k) => waiting'["refresh"] = waiting["refresh"] + IF "refresh" = k THEN 1 ELSE 0
      BY <1>0, <2>2, IncDec, SMTT(30)
    <3>. QED BY <1>b, <2>1, <3>1
  <2>6. loop_ = "batch" => waiting'["refresh"] > 0
    <3>1. waiting'["refresh"] \in Nat
      BY <2>2, <2>3 DEF WorkersTypeOK
    <3>. QED BY <1>b, <2>5, <3>1 DEF BatchExact
  <2>7. BatchExact'
    BY <2>1, <2>4, <2>6, OutsideStep DEF Existing
  <2>. QED BY <2>3, <2>7
<1>6. CASE \E k \in Outside : LoopRuns(k)
  <2> PICK k \in Outside : LoopRuns(k)
    BY <1>6
  <2>1. WorkersTypeOK'
    <3>1. waiting' \in [Kinds -> Nat]
      BY <1>0, IncDec, KindsListed DEF LoopRuns
    <3>. QED BY <1>0, <3>1 DEF LoopRuns, WorkersTypeOK
  <2>2. BatchExact'
    BY OutsideStep DEF LoopRuns, Existing
  <2>. QED BY <2>1, <2>2
<1>7. CASE \E n \in 1..MaxSwarms : Recheck(n)
  <2> PICK n \in 1..MaxSwarms : Recheck(n)
    BY <1>7
  <2> DEFINE new == [i \in 1..n |-> "swarm"]
  <2>1. /\ loop_ = "free" /\ waiting["refresh"] > 0 /\ loop_' = "batch" /\ swarmsLeft' = n
        /\ batch_jobs' = batch_jobs \o new /\ UNCHANGED <<queued, running, waiting>>
    BY DEF Recheck
  <2>2. /\ n \in Nat /\ n > 0 /\ new \in Seq({"swarm"}) /\ Len(new) = n
        /\ new \in Seq(BatchKinds)
    BY KindsListed
  <2> HIDE DEF new
  <2>3. WorkersTypeOK'
    <3>1. batch_jobs \o new \in Seq(BatchKinds)
      BY <1>0, <2>2, ConcatProperties
    <3>. QED BY <1>0, <2>1, <3>1 DEF WorkersTypeOK
  <2>4. InBatch(batch_jobs', "swarm") = InBatch(batch_jobs, "swarm") + n
    <3>1. InBatch(new, "swarm") = n
      BY <2>2, InBatchOfOneKind
    <3>2. InBatch(batch_jobs', "swarm") = InBatch(batch_jobs, "swarm") + InBatch(new, "swarm")
      BY <1>0, <2>1, <2>2, InBatchConcat
    <3>. QED BY <3>1, <3>2
  <2>5. InBatch(batch_jobs', "completion") = InBatch(batch_jobs, "completion")
    <3>1. InBatch(new, "completion") = 0
      BY <2>2, InBatchOfOneKind
    <3>2. InBatch(batch_jobs', "completion") = InBatch(batch_jobs, "completion") + InBatch(new, "completion")
      BY <1>0, <2>1, <2>2, InBatchConcat
    <3>. QED BY <1>a, <3>1, <3>2
  <2>6. Existing("swarm") = 0 /\ Existing("completion") = 0
    BY <2>1 DEF BatchExact
  <2>7. Existing("swarm")' = n /\ Existing("completion")' = 0
    BY <1>a, <1>b, <2>1, <2>2, <2>4, <2>5, <2>6 DEF Existing
  <2>8. BatchExact'
    BY <2>1, <2>2, <2>7 DEF BatchExact
  <2>. QED BY <2>3, <2>8
<1>8. CASE SwarmDone
  <2>0. /\ running["swarm"] > 0 /\ running' = Dec(running, "swarm")
        /\ swarmsLeft' = swarmsLeft - 1
        /\ batch_jobs' = IF swarmsLeft = 1 THEN Append(batch_jobs, "completion") ELSE batch_jobs
        /\ UNCHANGED <<queued, waiting, loop_>>
    BY <1>8 DEF SwarmDone, LastSwarm
  <2>1. swarmsLeft > 0 /\ swarmsLeft = Existing("swarm")
    BY <1>a, <1>b, <2>0 DEF BatchExact, Existing
  <2>2. loop_ = "batch" /\ waiting["refresh"] > 0 /\ Existing("completion") = 0
    BY <1>0, <2>1 DEF BatchExact
  <2>3. /\ running' \in [Kinds -> Nat] /\ running'["swarm"] = running["swarm"] - 1
        /\ running'["completion"] = running["completion"]
    <3>1. "swarm" \in Kinds /\ "completion" \in Kinds
      BY KindsListed
    <3>2. running' \in [Kinds -> Nat]
      BY <1>0, <2>0, <3>1, IncDec
    <3>. QED BY <1>0, <2>0, <3>1, <3>2 DEF Dec
  <2>4. WorkersTypeOK'
    <3>1. batch_jobs' \in Seq(BatchKinds)
      BY <1>0, <2>0, KindsListed
    <3>2. swarmsLeft' \in 0..MaxSwarms
      BY <1>0, <2>0, <2>1
    <3>. QED BY <1>0, <2>0, <2>3, <3>1, <3>2 DEF WorkersTypeOK
  <2>5. /\ InBatch(batch_jobs', "swarm") = InBatch(batch_jobs, "swarm")
        /\ InBatch(batch_jobs', "completion") =
                InBatch(batch_jobs, "completion") + IF swarmsLeft = 1 THEN 1 ELSE 0
    <3>1. CASE swarmsLeft = 1
      <4>1. /\ InBatch(batch_jobs', "swarm") = InBatch(batch_jobs, "swarm") + 0
            /\ InBatch(batch_jobs', "completion") = InBatch(batch_jobs, "completion") + 1
        BY <1>0, <2>0, <3>1, InBatchAppend, KindsListed
      <4>. QED BY <1>a, <3>1, <4>1
    <3>2. CASE swarmsLeft # 1
      BY <1>a, <2>0, <3>2
    <3>. QED BY <3>1, <3>2
  <2>6. /\ Existing("swarm")' = swarmsLeft'
        /\ Existing("completion")' = IF swarmsLeft' = 0 THEN 1 ELSE 0
    BY <1>0, <1>a, <1>b, <2>0, <2>1, <2>2, <2>3, <2>5, SMTT(30) DEF Existing
  <2>7. BatchExact'
    BY <2>0, <2>2, <2>6 DEF BatchExact
  <2>. QED BY <2>4, <2>7
<1>9. CASE Completion
  <2>0. /\ running["completion"] > 0 /\ running' = Dec(running, "completion")
        /\ waiting' = Dec(waiting, "refresh") /\ loop_' = "free"
        /\ UNCHANGED <<batch_jobs, queued, swarmsLeft>>
    BY <1>9 DEF Completion
  <2>1. Existing("completion") > 0
    BY <1>a, <1>b, <2>0 DEF Existing
  <2>2. loop_ = "batch" /\ waiting["refresh"] > 0 /\ swarmsLeft = 0 /\ Existing("completion") = 1
    BY <1>0, <2>1 DEF BatchExact
  <2>3. /\ running' \in [Kinds -> Nat] /\ running'["swarm"] = running["swarm"]
        /\ running'["completion"] = running["completion"] - 1
    <3>1. "swarm" \in Kinds /\ "completion" \in Kinds
      BY KindsListed
    <3>2. running' \in [Kinds -> Nat]
      BY <1>0, <2>0, <3>1, IncDec
    <3>. QED BY <1>0, <2>0, <3>1, <3>2 DEF Dec
  <2>4. waiting' \in [Kinds -> Nat]
    BY <1>0, <2>0, <2>2, IncDec, KindsListed
  <2>5. WorkersTypeOK'
    BY <1>0, <2>0, <2>3, <2>4 DEF WorkersTypeOK
  <2>6. Existing("swarm")' = Existing("swarm") /\ Existing("completion")' = 0
    <3>1. InBatch(batch_jobs, "completion") \in Nat /\ batch_jobs' = batch_jobs
      BY <1>a, <2>0
    <3>2. Existing("swarm")' = Existing("swarm")
      BY <2>3, <3>1 DEF Existing
    <3>3. running["completion"] + InBatch(batch_jobs, "completion") = 1
      BY <2>2 DEF Existing
    <3>. QED BY <1>b, <2>3, <3>1, <3>2, <3>3 DEF Existing
  <2>7. BatchExact'
    BY <2>0, <2>2, <2>6 DEF BatchExact
  <2>. QED BY <2>5, <2>7
<1>10. CASE UNCHANGED workersVars
  BY <1>0, <1>10 DEF workersVars, WorkersTypeOK, BatchExact, Existing
<1>. QED BY <1>1, <1>2, <1>3, <1>4, <1>5, <1>6, <1>7, <1>8, <1>9, <1>10 DEF WorkersNext

----------------------------------------------------------------------------
(* Types, in particular that no thread counter drops below zero: a batch   *)
(* always finds the thread that waits for it (hivemind.cpp:1622-1626).     *)
THEOREM WorkersTypeCorrect == WorkersSpec => []WorkersTypeOK
<1>. QED BY InitBatch, NextBatch, PTL DEF WorkersSpec

(* The batch is exact: the completion is queued once, by the last job, and *)
(* no job of the batch outlives the wait (hivemind.cpp:1605-1626).         *)
THEOREM BatchExactHolds == WorkersSpec => []BatchExact
<1>. QED BY InitBatch, NextBatch, PTL DEF WorkersSpec

(* Jobs on worker threads touch what the loop owns only while the loop is  *)
(* blocked for them, for every number of threads, loads and swarms         *)
(* (hivemind.cpp:1605-1627).                                               *)
THEOREM SwarmJobsOnlyWhileBlockedHolds == WorkersSpec => []SwarmJobsOnlyWhileBlocked
<1>1. WorkersTypeOK /\ BatchExact => SwarmJobsOnlyWhileBlocked
  <2> SUFFICES ASSUME WorkersTypeOK, BatchExact, running["swarm"] > 0 \/ swarmsLeft > 0
               PROVE  loop_ = "batch"
    BY DEF SwarmJobsOnlyWhileBlocked
  <2>1. running["swarm"] \in Nat /\ InBatch(batch_jobs, "swarm") \in Nat /\ swarmsLeft \in Nat
    BY KindsListed, WorkerAssumptions, PlacesFinite DEF WorkersTypeOK
  <2>2. swarmsLeft > 0
    BY <2>1 DEF BatchExact, Existing
  <2>. QED BY <2>1, <2>2 DEF WorkersTypeOK, BatchExact
<1>. QED BY <1>1, InitBatch, NextBatch, PTL DEF WorkersSpec
=============================================================================
