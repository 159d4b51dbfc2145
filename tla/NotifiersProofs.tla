--------------------------- MODULE NotifiersProofs ---------------------------
(* Proofs about the notifiers and their statistics, for every number of    *)
(* pushes, retries, reports on their way and crashes.                      *)
EXTENDS Notifiers, FiniteSetTheorems, SequenceTheorems, TLAPS

Ended == {"sent", "refused", "failed"}

LEMMA PushesOfService ==
    ASSUME NEW s
    PROVE  /\ PushesOf(s) \subseteq Pushes /\ IsFiniteSet(PushesOf(s))
           /\ \A p \in PushesOf(s) : ServiceOf[p] = s
BY NotifierAssumptions, FS_Subset DEF PushesOf

(* The pushes that a number stands for. *)
Behind(s, place, f) == {p \in PushesOf(s) : counted[p] = place /\ Shows(p, f)}

LEMMA BehindFinite ==
    ASSUME NEW s, NEW place, NEW f \in Counters
    PROVE  /\ IsFiniteSet(Behind(s, place, f))
           /\ Cardinality(Behind(s, place, f)) \in Nat
           /\ Tally(s, place)[f] = Cardinality(Behind(s, place, f))
<1>1. IsFiniteSet(Behind(s, place, f))
  <2>1. Behind(s, place, f) \in SUBSET PushesOf(s)
    BY DEF Behind
  <2>. QED BY <2>1, PushesOfService, FS_Subset
<1>2. Tally(s, place)[f] = Cardinality(Behind(s, place, f))
  BY DEF Tally, Behind
<1>. QED BY <1>1, <1>2, FS_CardinalityType

LEMMA BehindFiniteNext ==
    ASSUME NEW s, NEW place, NEW f \in Counters
    PROVE  Tally(s, place)'[f] = Cardinality(Behind(s, place, f)')
BY DEF Tally, Behind

(* Tallies are equal if the pushes behind them are. *)
LEMMA SameTally ==
    ASSUME NEW s, NEW place,
           \A f \in Counters : Behind(s, place, f)' = Behind(s, place, f)
    PROVE  Tally(s, place)' = Tally(s, place)
BY DEF Tally, Behind

(* A step that leaves alone the pushes that are counted. *)
Untouched ==
    \A p \in Pushes : counted[p] # "nowhere" =>
        push'[p] = push[p] /\ attempts'[p] = attempts[p]

LEMMA TallyUntouched ==
    ASSUME Untouched, NEW s, NEW place, place # "nowhere",
           \A p \in PushesOf(s) : counted'[p] = place <=> counted[p] = place
    PROVE  Tally(s, place)' = Tally(s, place)
<1>1. ASSUME NEW f \in Counters PROVE Behind(s, place, f)' = Behind(s, place, f)
  <2>1. ASSUME NEW p \in PushesOf(s), counted[p] = place PROVE Shows(p, f)' = Shows(p, f)
    <3>1. push'[p] = push[p] /\ attempts'[p] = attempts[p]
      BY <2>1, PushesOfService DEF Untouched
    <3>. QED BY <3>1 DEF Shows
  <2>. QED BY <2>1 DEF Behind
<1>. QED BY <1>1, SameTally

(* A push ends and is counted. *)
LEMMA TallyCounted ==
    ASSUME TypeOK, Untouched, NEW s, NEW p \in PushesOf(s), counted[p] = "nowhere",
           counted' = [counted EXCEPT ![p] = "stats"], NEW f \in Counters
    PROVE  Tally(s, "stats")'[f] = Tally(s, "stats")[f] + (IF Shows(p, f)' THEN 1 ELSE 0)
<1>0. p \in Pushes /\ counted \in [Pushes -> Places \cup Reports]
  BY PushesOfService DEF TypeOK
<1> DEFINE B == Behind(s, "stats", f)
<1>1. ASSUME NEW q \in PushesOf(s), q # p, counted[q] = "stats"
      PROVE  Shows(q, f)' = Shows(q, f)
  <2>1. push'[q] = push[q] /\ attempts'[q] = attempts[q]
    BY <1>1, PushesOfService DEF Untouched
  <2>. QED BY <2>1 DEF Shows
<1>2. counted'[p] = "stats" /\ \A q \in PushesOf(s) : q # p => counted'[q] = counted[q]
  BY <1>0, PushesOfService
<1>3. B' = IF Shows(p, f)' THEN B \cup {p} ELSE B
  <2>1. p \notin B
    BY DEF Behind
  <2>2. p \in B' <=> Shows(p, f)'
    BY <1>2 DEF Behind
  <2>3. ASSUME NEW q, q # p PROVE q \in B' <=> q \in B
    BY <1>1, <1>2, <2>3 DEF Behind
  <2> HIDE DEF B
  <2>4. CASE Shows(p, f)'
    BY <2>2, <2>3, <2>4
  <2>5. CASE ~Shows(p, f)'
    BY <2>1, <2>2, <2>3, <2>5
  <2>. QED BY <2>4, <2>5
<1>4. IsFiniteSet(B) /\ Cardinality(B) \in Nat /\ Tally(s, "stats")[f] = Cardinality(B)
  BY BehindFinite
<1>5. Tally(s, "stats")'[f] = Cardinality(B')
  BY BehindFiniteNext
<1>6. p \notin B
  BY DEF Behind
<1> HIDE DEF B
<1>7. Cardinality(B \cup {p}) = Cardinality(B) + 1
  BY <1>4, <1>6, FS_AddElement
<1>. QED BY <1>3, <1>4, <1>5, <1>7

(* The counts of a service go from one place to another. *)
LEMMA TallyShifted ==
    ASSUME TypeOK, Untouched, NEW s, NEW from, NEW to, from # to,
           from # "nowhere", to # "nowhere", Shift(s, from, to)
    PROVE  /\ Tally(s, to)' = Plus(Tally(s, to), Tally(s, from))
           /\ Tally(s, from)' = Zero
           /\ \A place : place \notin {"nowhere", from, to} => Tally(s, place)' = Tally(s, place)
           /\ \A t, place : t # s /\ place # "nowhere" => Tally(t, place)' = Tally(t, place)
           /\ \A p \in Pushes : counted'[p] = "nowhere" <=> counted[p] = "nowhere"
<1>1. \A p \in Pushes : counted'[p] = IF p \in PushesOf(s) /\ counted[p] = from THEN to ELSE counted[p]
  BY DEF Shift
<1>2. ASSUME NEW place, place \notin {"nowhere", from, to} PROVE Tally(s, place)' = Tally(s, place)
  <2>1. \A p \in PushesOf(s) : counted'[p] = place <=> counted[p] = place
    BY <1>1, <1>2, PushesOfService
  <2>. QED BY <1>2, <2>1, TallyUntouched
<1>3. ASSUME NEW t, NEW place, t # s, place # "nowhere" PROVE Tally(t, place)' = Tally(t, place)
  <2>1. \A p \in PushesOf(t) : p \notin PushesOf(s) /\ p \in Pushes
    BY <1>3, PushesOfService
  <2>2. \A p \in PushesOf(t) : counted'[p] = place <=> counted[p] = place
    BY <1>1, <2>1
  <2>. QED BY <1>3, <2>2, TallyUntouched
<1>4. ASSUME NEW p \in PushesOf(s), NEW f, counted[p] # "nowhere" PROVE Shows(p, f)' = Shows(p, f)
  <2>1. push'[p] = push[p] /\ attempts'[p] = attempts[p]
    BY <1>4, PushesOfService DEF Untouched
  <2>. QED BY <2>1 DEF Shows
<1>5. Tally(s, from)' = Zero
  <2>1. ASSUME NEW f \in Counters PROVE Tally(s, from)'[f] = 0
    <3>1. Behind(s, from, f)' = {}
      BY <1>1, PushesOfService DEF Behind
    <3>. QED BY <3>1, BehindFiniteNext, FS_EmptySet
  <2>. QED BY <2>1 DEF Tally, Zero
<1>6. Tally(s, to)' = Plus(Tally(s, to), Tally(s, from))
  <2>1. ASSUME NEW f \in Counters PROVE Tally(s, to)'[f] = Tally(s, to)[f] + Tally(s, from)[f]
    <3> DEFINE A == Behind(s, to, f)
               B == Behind(s, from, f)
    <3>1. A' = A \cup B
      <4>1. ASSUME NEW p \in PushesOf(s) PROVE p \in A' <=> p \in A \cup B
        <5>1. p \in Pushes
          BY PushesOfService
        <5>2. counted'[p] = to <=> counted[p] \in {from, to}
          BY <1>1, <5>1
        <5>. QED BY <1>4, <5>2 DEF Behind
      <4>2. A' \subseteq PushesOf(s) /\ A \cup B \subseteq PushesOf(s)
        BY DEF Behind
      <4> HIDE DEF A, B
      <4>. QED BY <4>1, <4>2
    <3>2. A \cap B = {}
      BY DEF Behind
    <3>3. /\ IsFiniteSet(A) /\ Cardinality(A) \in Nat /\ Tally(s, to)[f] = Cardinality(A)
          /\ IsFiniteSet(B) /\ Cardinality(B) \in Nat /\ Tally(s, from)[f] = Cardinality(B)
      BY <2>1, BehindFinite
    <3>4. Tally(s, to)'[f] = Cardinality(A')
      BY <2>1, BehindFiniteNext
    <3> HIDE DEF A, B
    <3>5. Cardinality(A \cup B) = Cardinality(A) + Cardinality(B) - Cardinality(A \cap B)
      BY <3>3, FS_Union
    <3>6. Cardinality(A \cap B) = 0
      BY <3>2, FS_EmptySet
    <3>. QED BY <3>1, <3>3, <3>4, <3>5, <3>6
  <2>. QED BY <2>1 DEF Tally, Plus
<1>7. \A p \in Pushes : counted'[p] = "nowhere" <=> counted[p] = "nowhere"
  BY <1>1
<1>. QED BY <1>2, <1>3, <1>5, <1>6, <1>7

----------------------------------------------------------------------------
(* The strengthening.  Types, in two parts.                                *)

TypesOfWork ==
    /\ push \in [Pushes -> PushStates]
    /\ retries \in [Pushes -> Nat] /\ attempts \in [Pushes -> Nat]
    /\ notify_queue \in Seq(PushesOf("huawei")) /\ queue \in Seq(PushesOf("huawei"))

TypesOfCounting ==
    /\ stats \in [Services -> Counts]
    /\ transit \in [Services -> [Reports -> Counts \cup {None}]]
    /\ service_stats \in [Services -> Counts]
    /\ crashes \in [Services -> Nat]
    /\ counted \in [Pushes -> Places \cup Reports]

LEMMA TypeParts == TypeOK <=> TypesOfWork /\ TypesOfCounting
BY DEF TypeOK, TypesOfWork, TypesOfCounting

LEMMA TypePartsNext == TypesOfWork' /\ TypesOfCounting' => TypeOK'
BY DEF TypeOK, TypesOfWork, TypesOfCounting

(* What waits in huawei's two lists waits once, in one of them, and has    *)
(* not been sent: an exception or a second run of send_pending finds no    *)
(* push that is counted.                                                   *)
QueuesExact ==
    /\ \A i, j \in 1..Len(queue) : queue[i] = queue[j] => i = j
    /\ \A i, j \in 1..Len(notify_queue) : notify_queue[i] = notify_queue[j] => i = j
    /\ \A i \in 1..Len(queue), j \in 1..Len(notify_queue) : queue[i] # notify_queue[j]
    /\ \A i \in 1..Len(queue) : push[queue[i]] = "queued"
    /\ \A i \in 1..Len(notify_queue) : push[notify_queue[i]] = "queued"

(* The local variable retries tells how often the push was tried. *)
RetriesOf(p) ==
    /\ push[p] \in {"new", "queued"} => attempts[p] = 0
    /\ push[p] \in {"new", "sending", "sleeping"} => retries[p] + attempts[p] = MAX_RETRIES
    /\ push[p] \in {"sending", "sleeping"} => p \in PushesOf("apns")
    /\ push[p] = "queued" => p \in PushesOf("huawei")
    /\ attempts[p] <= MAX_RETRIES + 1
    /\ p \in PushesOf("huawei") => attempts[p] <= 1

RetriesExact == \A p \in Pushes : RetriesOf(p)

WorkInv == TypesOfWork /\ QueuesExact /\ RetriesExact

LEMMA InitWork == Init => WorkInv
<1> SUFFICES ASSUME Init PROVE WorkInv
  OBVIOUS
<1> USE NotifierAssumptions
<1>1. TypesOfWork
  BY DEF Init, TypesOfWork, PushStates
<1>2. QueuesExact
  BY DEF Init, QueuesExact
<1>3. RetriesExact
  BY DEF Init, RetriesExact, RetriesOf
<1>. QED BY <1>1, <1>2, <1>3 DEF WorkInv

LEMMA ServicesDiffer == \A p \in PushesOf("apns") : p \notin PushesOf("huawei")
BY DEF PushesOf

(* A coroutine of apns goes on: the lists are not concerned. *)
LEMMA ApnsWork ==
    ASSUME WorkInv, NEW p \in Pushes, NEW from, NEW to,
           Moves(p, from, to), from # "queued",
           to \in {"sending", "sleeping", "sent", "failed", "lost"},
           UNCHANGED <<notify_queue, queue>>,
           retries' \in [Pushes -> Nat], attempts' \in [Pushes -> Nat],
           \A q \in Pushes \ {p} : retries'[q] = retries[q] /\ attempts'[q] = attempts[q],
           RetriesOf(p)'
    PROVE  WorkInv'
<1>0. /\ push \in [Pushes -> PushStates]
      /\ notify_queue \in Seq(PushesOf("huawei")) /\ queue \in Seq(PushesOf("huawei"))
      /\ push' = [push EXCEPT ![p] = to] /\ push[p] = from
  BY DEF WorkInv, TypesOfWork, Moves
<1>1. TypesOfWork'
  BY <1>0 DEF TypesOfWork, PushStates
<1>2. ASSUME NEW q \in Pushes, push[q] = "queued" PROVE push'[q] = "queued"
  BY <1>0, <1>2
<1>3. QueuesExact'
  <2>1. \A i \in 1..Len(queue) : queue[i] \in Pushes
    BY <1>0, PushesOfService
  <2>2. \A i \in 1..Len(notify_queue) : notify_queue[i] \in Pushes
    BY <1>0, PushesOfService
  <2>. QED BY <1>2, <2>1, <2>2 DEF WorkInv, QueuesExact
<1>4. ASSUME NEW q \in Pushes PROVE RetriesOf(q)'
  <2>1. CASE q = p
    BY <2>1
  <2>2. CASE q # p
    <3>1. push'[q] = push[q] /\ retries'[q] = retries[q] /\ attempts'[q] = attempts[q]
      BY <1>0, <2>2
    <3>. QED BY <3>1 DEF WorkInv, RetriesExact, RetriesOf
  <2>. QED BY <2>1, <2>2
<1>. QED BY <1>1, <1>3, <1>4 DEF WorkInv, RetriesExact

LEMMA NextApnsWork ==
    ASSUME WorkInv, NEW p \in Pushes, ApnsPush(p) \/ apns_notify(p)
    PROVE  WorkInv'
<1> USE NotifierAssumptions
<1>0. /\ retries \in [Pushes -> Nat] /\ attempts \in [Pushes -> Nat] /\ RetriesOf(p)
      /\ push \in [Pushes -> PushStates]
  BY DEF WorkInv, TypesOfWork, RetriesExact
<1>a. retries[p] \in Nat /\ attempts[p] \in Nat
  BY <1>0
<1>1. CASE ApnsPush(p)
  <2>1. RetriesOf(p)'
    BY <1>0, <1>a, <1>1 DEF ApnsPush, Moves, RetriesOf
  <2>. QED BY <1>0, <1>1, <2>1, ApnsWork DEF ApnsPush
<1>2. CASE ApnsWakes(p)
  <2>1. RetriesOf(p)'
    BY <1>0, <1>a, <1>2 DEF ApnsWakes, Moves, RetriesOf
  <2>. QED BY <1>0, <1>2, <2>1, ApnsWork DEF ApnsWakes
<1>3. CASE ApnsSucceeds(p) \/ ApnsGivesUp(p) \/ ApnsRaises(p)
  <2>1. PICK to \in {"sent", "failed", "lost"} :
            /\ p \in PushesOf("apns") /\ Moves(p, "sending", to) /\ Tried(p)
            /\ UNCHANGED <<retries, notify_queue, queue>>
    BY <1>3 DEF ApnsSucceeds, ApnsGivesUp, ApnsRaises
  <2>2. attempts' \in [Pushes -> Nat] /\ \A q \in Pushes \ {p} : attempts'[q] = attempts[q]
    BY <1>0, <2>1 DEF Tried
  <2>3. RetriesOf(p)'
    <3>1. push[p] = "sending" /\ push'[p] = to /\ attempts'[p] = attempts[p] + 1
      BY <1>0, <2>1 DEF Moves, Tried
    <3>2. attempts[p] <= MAX_RETRIES
      BY <1>0, <1>a, <3>1 DEF RetriesOf
    <3>. QED BY <1>a, <2>1, <3>1, <3>2, ServicesDiffer DEF RetriesOf
  <2>. QED BY <1>0, <2>1, <2>2, <2>3, ApnsWork
<1>4. CASE ApnsRetries(p)
  <2>1. /\ p \in PushesOf("apns") /\ retries[p] > 0 /\ Moves(p, "sending", "sleeping")
        /\ attempts' = [attempts EXCEPT ![p] = @ + 1]
        /\ retries' = [retries EXCEPT ![p] = @ - 1] /\ UNCHANGED <<notify_queue, queue>>
    BY <1>4 DEF ApnsRetries, MayRetry, Tried
  <2>2. /\ retries' \in [Pushes -> Nat] /\ attempts' \in [Pushes -> Nat]
        /\ \A q \in Pushes \ {p} : retries'[q] = retries[q] /\ attempts'[q] = attempts[q]
    BY <1>0, <1>a, <2>1
  <2>3. RetriesOf(p)'
    <3>1. /\ push[p] = "sending" /\ push'[p] = "sleeping"
          /\ attempts'[p] = attempts[p] + 1 /\ retries'[p] = retries[p] - 1
      BY <1>0, <2>1 DEF Moves
    <3>2. retries[p] + attempts[p] = MAX_RETRIES
      BY <1>0, <3>1 DEF RetriesOf
    <3>. QED BY <1>a, <2>1, <3>1, <3>2, ServicesDiffer DEF RetriesOf
  <2>. QED BY <2>1, <2>2, <2>3, ApnsWork
<1>. QED BY <1>1, <1>2, <1>3, <1>4 DEF apns_notify

----------------------------------------------------------------------------
LEMMA NextHuaweiPush ==
    ASSUME WorkInv, NEW p \in Pushes, HuaweiPush(p)
    PROVE  WorkInv'
<1>0. /\ push \in [Pushes -> PushStates]
      /\ notify_queue \in Seq(PushesOf("huawei")) /\ queue \in Seq(PushesOf("huawei"))
      /\ p \in PushesOf("huawei") /\ push[p] = "new" /\ push' = [push EXCEPT ![p] = "queued"]
      /\ notify_queue' = Append(notify_queue, p) /\ UNCHANGED <<retries, queue, attempts>>
  BY DEF WorkInv, TypesOfWork, HuaweiPush, Moves
<1>1. TypesOfWork'
  <2>1. Append(notify_queue, p) \in Seq(PushesOf("huawei"))
    BY <1>0
  <2>. QED BY <1>0, <2>1 DEF WorkInv, TypesOfWork, PushStates
<1>2. QueuesExact'
  <2>1. \A i \in 1..Len(queue) : queue[i] \in Pushes /\ queue[i] # p
    BY <1>0, PushesOfService DEF WorkInv, QueuesExact
  <2>2. \A i \in 1..Len(notify_queue) : notify_queue[i] \in Pushes /\ notify_queue[i] # p
    BY <1>0, PushesOfService DEF WorkInv, QueuesExact
  <2>3. /\ Len(notify_queue) \in Nat /\ Len(notify_queue') = Len(notify_queue) + 1
        /\ \A i \in 1..(Len(notify_queue) + 1) :
                notify_queue'[i] = IF i = Len(notify_queue) + 1 THEN p ELSE notify_queue[i]
    BY <1>0
  <2>4. \A q \in Pushes : push[q] = "queued" => push'[q] = "queued"
    BY <1>0
  <2>5. push'[p] = "queued"
    BY <1>0
  <2>6. \A i \in 1..(Len(notify_queue) + 1) : i # Len(notify_queue) + 1 => i \in 1..Len(notify_queue)
    BY <2>3
  <2>7. \A i, j \in 1..Len(notify_queue') : notify_queue'[i] = notify_queue'[j] => i = j
    BY <2>2, <2>3, <2>6 DEF WorkInv, QueuesExact
  <2>8. \A i \in 1..Len(queue'), j \in 1..Len(notify_queue') : queue'[i] # notify_queue'[j]
    BY <1>0, <2>1, <2>3, <2>6 DEF WorkInv, QueuesExact
  <2>9. \A i \in 1..Len(queue') : push'[queue'[i]] = "queued"
    BY <1>0, <2>1, <2>4 DEF WorkInv, QueuesExact
  <2>10. \A i \in 1..Len(notify_queue') : push'[notify_queue'[i]] = "queued"
    BY <2>2, <2>3, <2>4, <2>5, <2>6 DEF WorkInv, QueuesExact
  <2>11. \A i, j \in 1..Len(queue') : queue'[i] = queue'[j] => i = j
    BY <1>0 DEF WorkInv, QueuesExact
  <2>. QED BY <2>7, <2>8, <2>9, <2>10, <2>11 DEF QueuesExact
<1>3. RetriesExact'
  <2>1. ASSUME NEW q \in Pushes PROVE RetriesOf(q)'
    <3>1. RetriesOf(q)
      BY DEF WorkInv, RetriesExact
    <3>2. push'[q] = IF q = p THEN "queued" ELSE push[q]
      BY <1>0
    <3>3. retries'[q] = retries[q] /\ attempts'[q] = attempts[q]
      BY <1>0
    <3>. QED BY <1>0, <3>1, <3>2, <3>3 DEF RetriesOf
  <2>. QED BY <2>1 DEF RetriesExact
<1>. QED BY <1>1, <1>2, <1>3 DEF WorkInv

LEMMA NextSendWork ==
    ASSUME WorkInv, send_pending
    PROVE  WorkInv'
<1> USE NotifierAssumptions
<1>0. /\ push \in [Pushes -> PushStates]
      /\ attempts \in [Pushes -> Nat]
      /\ notify_queue \in Seq(PushesOf("huawei")) /\ queue \in Seq(PushesOf("huawei"))
  BY DEF WorkInv, TypesOfWork
<1>a. /\ \A i \in 1..Len(queue) : queue[i] \in Pushes /\ queue[i] \in PushesOf("huawei")
      /\ \A i \in 1..Len(notify_queue) : notify_queue[i] \in Pushes
  BY <1>0, PushesOfService
<1>1. CASE TakePending
  <2>1. TypesOfWork'
    BY <1>0, <1>1 DEF TakePending, WorkInv, TypesOfWork
  <2>2. QueuesExact'
    BY <1>0, <1>1 DEF TakePending, WorkInv, QueuesExact
  <2>3. RetriesExact'
    BY <1>1 DEF TakePending, WorkInv, RetriesExact, RetriesOf
  <2>. QED BY <2>1, <2>2, <2>3 DEF WorkInv
<1>b. ASSUME queue # <<>>
      PROVE  /\ Head(queue) = queue[1] /\ 1 \in 1..Len(queue) /\ Head(queue) \in Pushes
             /\ Head(queue) \in PushesOf("huawei") /\ push[Head(queue)] = "queued"
             /\ attempts[Head(queue)] = 0
  <2>1. Head(queue) = queue[1] /\ 1 \in 1..Len(queue)
    BY <1>0, <1>b
  <2>2. queue[1] \in Pushes /\ queue[1] \in PushesOf("huawei") /\ push[queue[1]] = "queued"
    BY <1>a, <2>1 DEF WorkInv, QueuesExact
  <2>3. attempts[queue[1]] = 0
    BY <2>2 DEF WorkInv, RetriesExact, RetriesOf
  <2>. QED BY <2>1, <2>2, <2>3
<1>2. ASSUME NEW outcome \in {"sent", "refused"}, SendNext(outcome) PROVE WorkInv'
  <2> DEFINE h == Head(queue)
  <2>1. /\ queue # <<>> /\ push' = [push EXCEPT ![h] = outcome]
        /\ attempts' = [attempts EXCEPT ![h] = @ + 1] /\ queue' = Tail(queue)
        /\ UNCHANGED <<retries, notify_queue>>
    BY <1>2 DEF SendNext, Moves, Tried
  <2>2. h = queue[1] /\ h \in Pushes /\ attempts[h] = 0 /\ 1 \in 1..Len(queue)
    BY <1>b, <2>1
  <2>3. /\ Tail(queue) \in Seq(PushesOf("huawei")) /\ Len(Tail(queue)) = Len(queue) - 1
        /\ \A i \in 1..Len(Tail(queue)) : Tail(queue)[i] = queue[i + 1]
    BY <1>0, <2>1, HeadTailProperties
  <2> HIDE DEF h
  <2>4. TypesOfWork'
    BY <1>0, <2>1, <2>2, <2>3 DEF WorkInv, TypesOfWork, PushStates
  <2>5. \A i \in 1..Len(queue') : i + 1 \in 1..Len(queue) /\ queue'[i] = queue[i + 1] /\ i + 1 # 1
    BY <1>0, <2>1, <2>3
  <2>6. \A i \in 1..Len(queue') : queue'[i] \in Pushes /\ queue'[i] # h
    BY SMTT(30), <1>a, <2>2, <2>5 DEF WorkInv, QueuesExact
  <2>7. \A i \in 1..Len(notify_queue) : notify_queue[i] \in Pushes /\ notify_queue[i] # h
    BY <1>a, <2>2 DEF WorkInv, QueuesExact
  <2>8. \A q \in Pushes \ {h} : push'[q] = push[q] /\ attempts'[q] = attempts[q]
    BY <1>0, <2>1
  <2>9. QueuesExact'
    <3>1. \A i, j \in 1..Len(queue') : queue'[i] = queue'[j] => i = j
      <4>1. ASSUME NEW i \in 1..Len(queue'), NEW j \in 1..Len(queue'), queue'[i] = queue'[j]
            PROVE  i = j
        <5>1. i + 1 = j + 1
          BY <2>5, <4>1 DEF WorkInv, QueuesExact
        <5>. QED BY <5>1
      <4>. QED BY <4>1
    <3>2. \A i \in 1..Len(queue'), j \in 1..Len(notify_queue') : queue'[i] # notify_queue'[j]
      BY <2>1, <2>5 DEF WorkInv, QueuesExact
    <3>3. \A i \in 1..Len(queue') : push'[queue'[i]] = "queued"
      BY <2>5, <2>6, <2>8 DEF WorkInv, QueuesExact
    <3>4. \A i \in 1..Len(notify_queue') : push'[notify_queue'[i]] = "queued"
      BY <2>1, <2>7, <2>8 DEF WorkInv, QueuesExact
    <3>5. \A i, j \in 1..Len(notify_queue') : notify_queue'[i] = notify_queue'[j] => i = j
      BY <2>1 DEF WorkInv, QueuesExact
    <3>. QED BY <3>1, <3>2, <3>3, <3>4, <3>5 DEF QueuesExact
  <2>10. ASSUME NEW q \in Pushes PROVE RetriesOf(q)'
    <3>1. CASE q = h
      <4>1. push'[q] = outcome /\ attempts'[q] = 1
        BY <1>0, <2>1, <2>2, <3>1
      <4>. QED BY <4>1 DEF RetriesOf
    <3>2. CASE q # h
      <4>1. push'[q] = push[q] /\ attempts'[q] = attempts[q] /\ retries'[q] = retries[q]
        BY <2>1, <2>8, <3>2
      <4>. QED BY <4>1 DEF WorkInv, RetriesExact, RetriesOf
    <3>. QED BY <3>1, <3>2
  <2>. QED BY <2>4, <2>9, <2>10 DEF WorkInv, RetriesExact
<1>3. CASE SendRaises
  <2> DEFINE h == Head(queue)
  <2>1. /\ queue # <<>> /\ push' = [p \in Pushes |-> IF p \in Range(queue) THEN "lost" ELSE push[p]]
        /\ attempts' = [attempts EXCEPT ![h] = @ + 1] /\ queue' = <<>>
        /\ UNCHANGED <<retries, notify_queue>>
    BY <1>3 DEF SendRaises, Tried
  <2>2. h = queue[1] /\ h \in Pushes /\ attempts[h] = 0 /\ h \in Range(queue)
    BY <1>0, <1>b, <2>1 DEF Range
  <2> HIDE DEF h
  <2>3. TypesOfWork'
    BY <1>0, <2>1, <2>2 DEF WorkInv, TypesOfWork, PushStates
  <2>4. ASSUME NEW i \in 1..Len(notify_queue) PROVE notify_queue[i] \notin Range(queue)
    <3>1. Range(queue) = {queue[j] : j \in 1..Len(queue)}
      BY <1>0 DEF Range
    <3>2. \A j \in 1..Len(queue) : queue[j] # notify_queue[i]
      BY DEF WorkInv, QueuesExact
    <3>. QED BY <3>1, <3>2
  <2>5. QueuesExact'
    <3>1. \A i \in 1..Len(notify_queue') : push'[notify_queue'[i]] = "queued"
      BY <1>a, <2>1, <2>4 DEF WorkInv, QueuesExact
    <3>2. Len(queue') = 0 /\ notify_queue' = notify_queue
      BY <2>1
    <3>. QED BY <3>1, <3>2 DEF WorkInv, QueuesExact
  <2>6. ASSUME NEW q \in Pushes PROVE RetriesOf(q)'
    <3>1. CASE q \in Range(queue)
      <4>1. push'[q] = "lost"
        BY <2>1, <3>1
      <4>2. push[q] = "queued"
        BY <1>0, <3>1 DEF WorkInv, QueuesExact, Range
      <4>3. attempts[q] = 0
        BY <4>2 DEF WorkInv, RetriesExact, RetriesOf
      <4>4. attempts'[q] <= 1
        BY <1>0, <2>1, <2>2, <4>3
      <4>5. attempts'[q] \in Nat
        BY <2>3 DEF TypesOfWork
      <4>. QED BY <4>1, <4>4, <4>5 DEF RetriesOf
    <3>2. CASE q \notin Range(queue)
      <4>1. push'[q] = push[q] /\ attempts'[q] = attempts[q] /\ retries'[q] = retries[q]
        BY <1>0, <2>1, <2>2, <3>2
      <4>. QED BY <4>1 DEF WorkInv, RetriesExact, RetriesOf
    <3>. QED BY <3>1, <3>2
  <2>. QED BY <2>3, <2>5, <2>6 DEF WorkInv, RetriesExact
<1>. QED BY <1>1, <1>2, <1>3 DEF send_pending

LEMMA NextCrashWork ==
    ASSUME WorkInv, NEW s \in Services, Crash(s)
    PROVE  WorkInv'
<1>0. /\ push \in [Pushes -> PushStates]
      /\ notify_queue \in Seq(PushesOf("huawei")) /\ queue \in Seq(PushesOf("huawei"))
      /\ push' = [p \in Pushes |->
                    IF p \in PushesOf(s) /\ push[p] \in {"queued", "sending", "sleeping"}
                    THEN "lost" ELSE push[p]]
      /\ UNCHANGED <<retries, attempts>>
      /\ s = "huawei" => queue' = <<>> /\ notify_queue' = <<>>
      /\ s # "huawei" => UNCHANGED <<queue, notify_queue>>
  BY DEF WorkInv, TypesOfWork, Crash
<1>1. TypesOfWork'
  <2>1. push' \in [Pushes -> PushStates]
    BY <1>0 DEF PushStates
  <2>2. notify_queue' \in Seq(PushesOf("huawei")) /\ queue' \in Seq(PushesOf("huawei"))
    <3>1. <<>> \in Seq(PushesOf("huawei"))
      OBVIOUS
    <3>. QED BY <1>0, <3>1
  <2>. QED BY <1>0, <2>1, <2>2 DEF WorkInv, TypesOfWork
<1>2. QueuesExact'
  <2>1. CASE s = "huawei"
    BY <1>0, <2>1 DEF QueuesExact
  <2>2. CASE s # "huawei"
    <3>1. \A p \in PushesOf("huawei") : push'[p] = push[p]
      BY <1>0, <2>2, PushesOfService
    <3>2. /\ \A i \in 1..Len(queue) : queue[i] \in PushesOf("huawei")
          /\ \A i \in 1..Len(notify_queue) : notify_queue[i] \in PushesOf("huawei")
      BY <1>0
    <3>3. /\ \A i \in 1..Len(queue) : push'[queue[i]] = "queued"
          /\ \A i \in 1..Len(notify_queue) : push'[notify_queue[i]] = "queued"
      BY <3>1, <3>2 DEF WorkInv, QueuesExact
    <3>4. queue' = queue /\ notify_queue' = notify_queue
      BY <1>0, <2>2
    <3>. QED BY <3>3, <3>4 DEF WorkInv, QueuesExact
  <2>. QED BY <2>1, <2>2
<1>3. ASSUME NEW q \in Pushes PROVE RetriesOf(q)'
  <2>1. push'[q] = push[q] \/ push'[q] = "lost"
    BY <1>0
  <2>2. attempts'[q] = attempts[q] /\ retries'[q] = retries[q]
    BY <1>0
  <2>. QED BY <2>1, <2>2 DEF WorkInv, RetriesExact, RetriesOf
<1>. QED BY <1>1, <1>2, <1>3 DEF WorkInv, RetriesExact

LEMMA NextWork == WorkInv /\ [Next]_vars => WorkInv'
<1> SUFFICES ASSUME WorkInv, [Next]_vars PROVE WorkInv'
  OBVIOUS
<1>1. ASSUME UNCHANGED work PROVE WorkInv'
  <2>1. TypesOfWork'
    BY <1>1 DEF work, WorkInv, TypesOfWork
  <2>2. QueuesExact'
    BY <1>1 DEF work, WorkInv, QueuesExact
  <2>3. RetriesExact'
    BY <1>1 DEF work, WorkInv, RetriesExact, RetriesOf
  <2>. QED BY <2>1, <2>2, <2>3 DEF WorkInv
<1>2. CASE \E p \in Pushes : ApnsPush(p) \/ apns_notify(p)
  BY <1>2, NextApnsWork
<1>3. CASE \E p \in Pushes : HuaweiPush(p)
  BY <1>3, NextHuaweiPush
<1>4. CASE send_pending
  BY <1>4, NextSendWork
<1>5. CASE \E s \in Services, r \in Reports : ping(s, r) \/ Handled(s, r)
  BY <1>1, <1>5 DEF ping, Handled, on_service_stats, ReportFails
<1>6. CASE \E s \in Services : Crash(s)
  BY <1>6, NextCrashWork
<1>7. CASE UNCHANGED vars
  BY <1>1, <1>7 DEF vars
<1>. QED BY <1>2, <1>3, <1>4, <1>5, <1>6, <1>7 DEF Next

----------------------------------------------------------------------------
(* The numbers.                                                            *)

EndedCounted == \A p \in Pushes : push[p] \in Ended <=> counted[p] # "nowhere"

NumbersOf(s) ==
    /\ stats[s] = Tally(s, "stats") /\ service_stats[s] = Tally(s, "table")
    /\ \A r \in Reports :
        (IF transit[s][r] = None THEN Zero ELSE transit[s][r]) = Tally(s, r)

LEMMA StatsParts == StatsAddUp <=> EndedCounted /\ \A s \in Services : NumbersOf(s)
BY DEF StatsAddUp, EndedCounted, NumbersOf, Ended

LEMMA StatsPartsNext ==
    EndedCounted' /\ (\A s \in Services : NumbersOf(s)') => StatsAddUp'
BY DEF StatsAddUp, EndedCounted, NumbersOf, Ended

CountingInv == TypesOfCounting /\ StatsAddUp

LEMMA ReportsAreNotPlaces ==
    \A r \in Reports : r # "nowhere" /\ r # "stats" /\ r # "table" /\ r # "lost"
BY NotifierAssumptions DEF Places

LEMMA InitCounting == Init => CountingInv
<1> SUFFICES ASSUME Init PROVE CountingInv
  OBVIOUS
<1>1. TypesOfCounting
  BY DEF Init, TypesOfCounting, Counts, Zero, Places
<1>2. ASSUME NEW s, NEW place, place # "nowhere" PROVE Tally(s, place) = Zero
  <2>1. ASSUME NEW f \in Counters PROVE Tally(s, place)[f] = 0
    <3>1. Behind(s, place, f) = {}
      BY <1>2, PushesOfService DEF Init, Behind
    <3>. QED BY <3>1, BehindFinite, FS_EmptySet
  <2>. QED BY <2>1 DEF Tally, Zero
<1>3. ASSUME NEW s \in Services PROVE NumbersOf(s)
  <2>1. stats[s] = Zero /\ service_stats[s] = Zero /\ \A r \in Reports : transit[s][r] = None
    BY DEF Init
  <2>. QED BY <1>2, <2>1, ReportsAreNotPlaces DEF NumbersOf
<1>4. EndedCounted
  BY DEF Init, EndedCounted, Ended
<1>. QED BY <1>1, <1>3, <1>4, StatsParts DEF CountingInv

(* What has ended stays as it is. *)
EndsStay ==
    \A p \in Pushes : push[p] \in Ended => push'[p] = push[p] /\ attempts'[p] = attempts[p]

LEMMA EndsStayUntouched ==
    ASSUME StatsAddUp, EndsStay
    PROVE  Untouched
BY StatsParts DEF EndedCounted, EndsStay, Untouched

(* No push ends, and no number changes. *)
LEMMA QuietCounting ==
    ASSUME CountingInv, UNCHANGED counting, crashes' = crashes, EndsStay,
           \A p \in Pushes : push[p] \notin Ended => push'[p] \notin Ended
    PROVE  CountingInv'
<1>0. UNCHANGED <<stats, transit, service_stats, counted>>
  BY DEF counting
<1>1. TypesOfCounting'
  BY <1>0 DEF CountingInv, TypesOfCounting
<1>2. Untouched
  BY EndsStayUntouched DEF CountingInv
<1>3. ASSUME NEW s, NEW place, place # "nowhere" PROVE Tally(s, place)' = Tally(s, place)
  BY <1>0, <1>2, <1>3, TallyUntouched
<1>4. ASSUME NEW s \in Services PROVE NumbersOf(s)'
  <2>1. NumbersOf(s)
    BY StatsParts DEF CountingInv
  <2>2. /\ Tally(s, "stats")' = Tally(s, "stats") /\ Tally(s, "table")' = Tally(s, "table")
        /\ \A r \in Reports : Tally(s, r)' = Tally(s, r)
    BY <1>3, ReportsAreNotPlaces
  <2>. QED BY <1>0, <2>1, <2>2 DEF NumbersOf
<1>5. EndedCounted'
  <2>1. ASSUME NEW p \in Pushes PROVE push'[p] \in Ended <=> push[p] \in Ended
    BY DEF EndsStay
  <2>. QED BY <1>0, <2>1, StatsParts DEF CountingInv, EndedCounted
<1>. QED BY <1>1, <1>4, <1>5, StatsPartsNext DEF CountingInv

(* A push ends: it was not counted, and its counters go up by one. *)
LEMMA EndCounting ==
    ASSUME TypeOK, CountingInv, NEW s \in Services, NEW p \in PushesOf(s),
           push[p] \notin Ended, push'[p] \in Ended,
           \A q \in Pushes \ {p} : push'[q] = push[q] /\ attempts'[q] = attempts[q],
           NEW F, Count(s, p, F), \A f \in Counters : Shows(p, f)' <=> f \in F,
           UNCHANGED <<transit, service_stats, crashes>>
    PROVE  CountingInv'
<1>0. /\ stats \in [Services -> Counts] /\ counted \in [Pushes -> Places \cup Reports]
      /\ counted' = [counted EXCEPT ![p] = "stats"] /\ p \in Pushes
      /\ stats' = [stats EXCEPT ![s] = [f \in Counters |-> @[f] + (IF f \in F THEN 1 ELSE 0)]]
  BY PushesOfService DEF CountingInv, TypesOfCounting, Count
<1>1. TypesOfCounting'
  <2>1. [f \in Counters |-> stats[s][f] + (IF f \in F THEN 1 ELSE 0)] \in Counts
    <3>1. \A f \in Counters : stats[s][f] \in Nat
      BY <1>0 DEF Counts
    <3>. QED BY <3>1 DEF Counts
  <2>2. stats' \in [Services -> Counts]
    BY <1>0, <2>1
  <2>3. counted' \in [Pushes -> Places \cup Reports]
    BY <1>0 DEF Places
  <2>. QED BY <2>2, <2>3 DEF CountingInv, TypesOfCounting
<1>2. EndsStay
  BY DEF EndsStay
<1>3. Untouched
  BY <1>2, EndsStayUntouched DEF CountingInv
<1>4. counted[p] = "nowhere"
  BY <1>0, StatsParts DEF CountingInv, EndedCounted
<1>5. Tally(s, "stats")' = [f \in Counters |-> Tally(s, "stats")[f] + (IF f \in F THEN 1 ELSE 0)]
  <2>1. ASSUME NEW f \in Counters
        PROVE  Tally(s, "stats")'[f] = Tally(s, "stats")[f] + (IF f \in F THEN 1 ELSE 0)
    <3>1. Tally(s, "stats")'[f] = Tally(s, "stats")[f] + (IF Shows(p, f)' THEN 1 ELSE 0)
      BY <1>0, <1>3, <1>4, TallyCounted
    <3>. QED BY <3>1
  <2>. QED BY <2>1 DEF Tally
<1>6. \A q \in Pushes : counted'[q] = IF q = p THEN "stats" ELSE counted[q]
  BY <1>0
<1>7. ASSUME NEW t, NEW place, place # "nowhere", t # s \/ place # "stats"
      PROVE  Tally(t, place)' = Tally(t, place)
  <2>1. ASSUME NEW q \in PushesOf(t) PROVE counted'[q] = place <=> counted[q] = place
    <3>1. q \in Pushes /\ (q = p => t = s)
      BY PushesOfService
    <3>. QED BY <1>4, <1>6, <1>7, <3>1
  <2>. QED BY <1>3, <1>7, <2>1, TallyUntouched
<1>8. ASSUME NEW t \in Services PROVE NumbersOf(t)'
  <2>1. NumbersOf(t) /\ NumbersOf(s)
    BY StatsParts DEF CountingInv
  <2>2. stats'[t] = Tally(t, "stats")'
    <3>1. CASE t = s
      <4>1. stats'[s] = [f \in Counters |-> stats[s][f] + (IF f \in F THEN 1 ELSE 0)]
        BY <1>0
      <4>. QED BY <1>5, <2>1, <3>1, <4>1 DEF NumbersOf
    <3>2. CASE t # s
      <4>1. stats'[t] = stats[t]
        BY <1>0, <3>2
      <4>. QED BY <1>7, <2>1, <3>2, <4>1 DEF NumbersOf
    <3>. QED BY <3>1, <3>2
  <2>3. /\ Tally(t, "table")' = Tally(t, "table")
        /\ \A r \in Reports : Tally(t, r)' = Tally(t, r)
    BY <1>7, ReportsAreNotPlaces
  <2>. QED BY <2>1, <2>2, <2>3 DEF NumbersOf
<1>9. EndedCounted'
  <2>1. ASSUME NEW q \in Pushes PROVE push'[q] \in Ended <=> counted'[q] # "nowhere"
    <3>1. CASE q = p
      BY <1>6, <3>1
    <3>2. CASE q # p
      BY <1>6, <3>2, StatsParts DEF CountingInv, EndedCounted
    <3>. QED BY <3>1, <3>2
  <2>. QED BY <2>1 DEF EndedCounted
<1>. QED BY <1>1, <1>8, <1>9, StatsPartsNext DEF CountingInv

----------------------------------------------------------------------------
LEMMA NextApnsCounting ==
    ASSUME WorkInv, CountingInv, NEW p \in Pushes, ApnsPush(p) \/ apns_notify(p) \/ HuaweiPush(p)
    PROVE  CountingInv'
<1>0. /\ retries \in [Pushes -> Nat] /\ attempts \in [Pushes -> Nat] /\ RetriesOf(p)
      /\ push \in [Pushes -> PushStates]
      /\ TypeOK
  BY TypeParts DEF WorkInv, CountingInv, TypesOfWork, RetriesExact
<1>1. CASE ApnsPush(p) \/ ApnsRetries(p) \/ ApnsWakes(p) \/ ApnsRaises(p) \/ HuaweiPush(p)
  <2>1. PICK from \in {"new", "sending", "sleeping"},
             to \in {"queued", "sending", "sleeping", "lost"} : Moves(p, from, to)
    BY <1>1 DEF ApnsPush, ApnsRetries, ApnsWakes, ApnsRaises, HuaweiPush
  <2>2. UNCHANGED counting /\ crashes' = crashes
    BY <1>1 DEF ApnsPush, ApnsRetries, ApnsWakes, ApnsRaises, HuaweiPush
  <2>3. attempts' = attempts \/ Tried(p)
    BY <1>1 DEF ApnsPush, ApnsRetries, ApnsWakes, ApnsRaises, HuaweiPush
  <2>4. \A q \in Pushes \ {p} : push'[q] = push[q] /\ attempts'[q] = attempts[q]
    BY <1>0, <2>1, <2>3 DEF Moves, Tried
  <2>5. push[p] \notin Ended /\ push'[p] \notin Ended
    BY <1>0, <2>1 DEF Moves, Ended
  <2>6. EndsStay
    BY <2>4, <2>5 DEF EndsStay
  <2>7. \A q \in Pushes : push[q] \notin Ended => push'[q] \notin Ended
    BY <2>4, <2>5
  <2>. QED BY <2>2, <2>6, <2>7, QuietCounting
<1>2. CASE ApnsSucceeds(p) \/ ApnsGivesUp(p)
  <2>1. /\ p \in PushesOf("apns") /\ push[p] = "sending"
        /\ attempts' = [attempts EXCEPT ![p] = @ + 1]
        /\ UNCHANGED <<transit, service_stats, crashes>>
    BY <1>2 DEF ApnsSucceeds, ApnsGivesUp, Moves, Tried
  <2>2. PICK to \in Ended : push' = [push EXCEPT ![p] = to]
    BY <1>2 DEF ApnsSucceeds, ApnsGivesUp, Moves, Ended
  <2>3. push'[p] = to /\ attempts'[p] = attempts[p] + 1
    BY <1>0, <2>1, <2>2
  <2>4. push[p] \notin Ended
    BY <2>1 DEF Ended
  <2>5. \A q \in Pushes \ {p} : push'[q] = push[q] /\ attempts'[q] = attempts[q]
    BY <1>0, <2>1, <2>2
  <2>6. Retried(p) <=> attempts'[p] > 1
    <3>1. retries[p] + attempts[p] = MAX_RETRIES
      BY <1>0, <2>1 DEF RetriesOf
    <3>2. retries[p] \in Nat /\ attempts[p] \in Nat
      BY <1>0
    <3>. QED BY <2>3, <3>1, <3>2, NotifierAssumptions DEF Retried
  <2>7. CASE ApnsSucceeds(p)
    <3> DEFINE F == {"notifies"} \cup (IF Retried(p) THEN {"notify_retries"} ELSE {})
    <3>1. Count("apns", p, F)
      BY <2>7 DEF ApnsSucceeds
    <3>2. push'[p] = "sent"
      BY <1>0, <2>7 DEF ApnsSucceeds, Moves
    <3>3. ASSUME NEW f \in Counters PROVE Shows(p, f)' <=> f \in F
      BY <2>6, <3>2 DEF Shows, Counters
    <3>4. "apns" \in Services
      BY DEF Services
    <3> HIDE DEF F
    <3>. QED BY <1>0, <2>1, <2>2, <2>3, <2>4, <2>5, <3>1, <3>3, <3>4, EndCounting
  <2>8. CASE ApnsGivesUp(p)
    <3>1. Count("apns", p, {"failures"})
      BY <2>8 DEF ApnsGivesUp
    <3>2. push'[p] = "failed"
      BY <1>0, <2>8 DEF ApnsGivesUp, Moves
    <3>3. ASSUME NEW f \in Counters PROVE Shows(p, f)' <=> f \in {"failures"}
      BY <3>2 DEF Shows, Counters
    <3>4. "apns" \in Services
      BY DEF Services
    <3>. QED BY <1>0, <2>1, <2>2, <2>3, <2>4, <2>5, <3>1, <3>3, <3>4, EndCounting
  <2>. QED BY <1>2, <2>7, <2>8
<1>. QED BY <1>1, <1>2 DEF apns_notify

LEMMA NextSendCounting ==
    ASSUME WorkInv, CountingInv, send_pending
    PROVE  CountingInv'
<1>0. /\ attempts \in [Pushes -> Nat] /\ queue \in Seq(PushesOf("huawei")) /\ TypeOK
      /\ push \in [Pushes -> PushStates]
  BY TypeParts DEF WorkInv, CountingInv, TypesOfWork
<1>1. CASE TakePending
  <2>1. push' = push /\ attempts' = attempts /\ UNCHANGED counting /\ crashes' = crashes
    BY <1>1 DEF TakePending
  <2>2. EndsStay
    BY <2>1 DEF EndsStay
  <2>. QED BY <2>1, <2>2, QuietCounting
<1>2. ASSUME NEW q \in Range(queue)
      PROVE  q \in PushesOf("huawei") /\ q \in Pushes /\ push[q] = "queued" /\ attempts[q] = 0
  <2>1. PICK i \in 1..Len(queue) : q = queue[i]
    BY <1>0 DEF Range
  <2>2. q \in PushesOf("huawei") /\ q \in Pushes
    BY <1>0, <2>1, PushesOfService
  <2>3. push[q] = "queued"
    BY <2>1 DEF WorkInv, QueuesExact
  <2>4. attempts[q] = 0
    BY <2>2, <2>3 DEF WorkInv, RetriesExact, RetriesOf
  <2>. QED BY <2>2, <2>3, <2>4
<1>3. ASSUME queue # <<>> PROVE Head(queue) \in Range(queue)
  BY <1>0, <1>3 DEF Range
<1>4. ASSUME NEW outcome \in {"sent", "refused"}, SendNext(outcome) PROVE CountingInv'
  <2>0. PICK h : h = Head(queue)
    OBVIOUS
  <2>1. /\ queue # <<>> /\ push' = [push EXCEPT ![h] = outcome]
        /\ attempts' = [attempts EXCEPT ![h] = @ + 1] /\ Count("huawei", h, {"notifies"})
        /\ UNCHANGED <<transit, service_stats, crashes>>
    BY <1>4, <2>0 DEF SendNext, Moves, Tried
  <2>2. h \in PushesOf("huawei") /\ h \in Pushes /\ push[h] = "queued" /\ attempts[h] = 0
    BY <1>2, <1>3, <2>0, <2>1
  <2>3. push'[h] = outcome /\ attempts'[h] = 1
    BY <1>0, <2>1, <2>2
  <2>4. \A q \in Pushes \ {h} : push'[q] = push[q] /\ attempts'[q] = attempts[q]
    BY <1>0, <2>1
  <2>5. ASSUME NEW f \in Counters PROVE Shows(h, f)' <=> f \in {"notifies"}
    BY <2>3 DEF Shows, Counters
  <2>6. "huawei" \in Services /\ push[h] \notin Ended /\ push'[h] \in Ended
    BY <2>2, <2>3 DEF Services, Ended
  <2>. QED BY <1>0, <2>1, <2>2, <2>4, <2>5, <2>6, EndCounting
<1>5. CASE SendRaises
  <2> DEFINE h == Head(queue)
  <2>1. /\ queue # <<>> /\ push' = [p \in Pushes |-> IF p \in Range(queue) THEN "lost" ELSE push[p]]
        /\ attempts' = [attempts EXCEPT ![h] = @ + 1] /\ UNCHANGED counting /\ crashes' = crashes
    BY <1>5 DEF SendRaises, Tried
  <2>2. h \in Pushes /\ h \in Range(queue)
    BY <1>2, <1>3, <2>1
  <2> HIDE DEF h
  <2>3. ASSUME NEW q \in Pushes, q \notin Range(queue)
        PROVE  push'[q] = push[q] /\ attempts'[q] = attempts[q]
    BY <1>0, <2>1, <2>2, <2>3
  <2>4. ASSUME NEW q \in Pushes, q \in Range(queue)
        PROVE  push[q] \notin Ended /\ push'[q] \notin Ended
    BY <1>2, <2>1, <2>4 DEF Ended
  <2>5. EndsStay
    BY <2>3, <2>4 DEF EndsStay
  <2>6. \A q \in Pushes : push[q] \notin Ended => push'[q] \notin Ended
    BY <2>3, <2>4
  <2>. QED BY <2>1, <2>5, <2>6, QuietCounting
<1>. QED BY <1>1, <1>4, <1>5 DEF send_pending

----------------------------------------------------------------------------
(* Counts move on, or go with a crash or a failed report. *)

LEMMA ShiftedTypes ==
    ASSUME TypeOK, NEW s, NEW from, NEW to, to \in Places \cup Reports, Shift(s, from, to)
    PROVE  counted' \in [Pushes -> Places \cup Reports]
BY DEF Shift, TypeOK

LEMMA ShiftedEnds ==
    ASSUME TypeOK, CountingInv, EndsStay, NEW s, NEW from, NEW to, from # to,
           from # "nowhere", to # "nowhere", Shift(s, from, to),
           \A p \in Pushes : push[p] \notin Ended => push'[p] \notin Ended
    PROVE  EndedCounted'
<1>1. Untouched
  BY EndsStayUntouched DEF CountingInv
<1>2. \A p \in Pushes : counted'[p] = "nowhere" <=> counted[p] = "nowhere"
  BY <1>1, TallyShifted
<1>3. ASSUME NEW p \in Pushes PROVE push'[p] \in Ended <=> push[p] \in Ended
  BY DEF EndsStay
<1>. QED BY <1>2, <1>3, StatsParts DEF CountingInv, EndedCounted

(* The services that a step is not about keep their numbers. *)
LEMMA OtherNumbers ==
    ASSUME TypeOK, CountingInv, EndsStay, NEW s, NEW from, NEW to, from # to,
           from # "nowhere", to # "nowhere", Shift(s, from, to),
           NEW t \in Services, t # s,
           stats'[t] = stats[t], service_stats'[t] = service_stats[t], transit'[t] = transit[t]
    PROVE  NumbersOf(t)'
<1>1. Untouched
  BY EndsStayUntouched DEF CountingInv
<1>2. \A place : place # "nowhere" => Tally(t, place)' = Tally(t, place)
  BY <1>1, TallyShifted
<1>3. NumbersOf(t)
  BY StatsParts DEF CountingInv
<1>4. /\ Tally(t, "stats")' = Tally(t, "stats") /\ Tally(t, "table")' = Tally(t, "table")
      /\ \A r \in Reports : Tally(t, r)' = Tally(t, r)
  BY <1>2, ReportsAreNotPlaces
<1>. QED BY <1>3, <1>4 DEF NumbersOf

LEMMA PlusZero == \A c \in Counts : Plus(Zero, c) = c /\ Plus(c, Zero) = c
BY DEF Counts, Plus, Zero

LEMMA PlusType == \A c, d \in Counts : Plus(c, d) \in Counts
BY DEF Counts, Plus

LEMMA ZeroType == Zero \in Counts
BY DEF Counts, Zero

LEMMA StaysPut ==
    ASSUME UNCHANGED work
    PROVE  EndsStay /\ \A p \in Pushes : push[p] \notin Ended => push'[p] \notin Ended
BY DEF work, EndsStay

LEMMA NextPing ==
    ASSUME TypeOK, CountingInv, NEW s \in Services, NEW r \in Reports, ping(s, r)
    PROVE  CountingInv'
<1>0. /\ stats \in [Services -> Counts] /\ transit \in [Services -> [Reports -> Counts \cup {None}]]
      /\ transit[s][r] = None /\ transit' = [transit EXCEPT ![s][r] = stats[s]]
      /\ stats' = [stats EXCEPT ![s] = Zero] /\ Shift(s, "stats", r)
      /\ service_stats' = service_stats /\ crashes' = crashes
  BY DEF TypeOK, ping, collect
<1>1. EndsStay /\ \A p \in Pushes : push[p] \notin Ended => push'[p] \notin Ended
  BY StaysPut DEF ping
<1>2. r # "nowhere" /\ r # "stats" /\ r # "table"
  BY ReportsAreNotPlaces
<1>3. TypesOfCounting'
  <2>1. stats' \in [Services -> Counts]
    BY <1>0, ZeroType
  <2>2. transit' \in [Services -> [Reports -> Counts \cup {None}]]
    BY <1>0
  <2>3. counted' \in [Pushes -> Places \cup Reports]
    BY <1>0, ShiftedTypes
  <2>. QED BY <1>0, <2>1, <2>2, <2>3 DEF CountingInv, TypesOfCounting
<1>4. EndedCounted'
  BY <1>0, <1>1, <1>2, ShiftedEnds
<1>5. ASSUME NEW t \in Services, t # s PROVE NumbersOf(t)'
  <2>1. stats'[t] = stats[t] /\ service_stats'[t] = service_stats[t] /\ transit'[t] = transit[t]
    BY <1>0, <1>5
  <2>. QED BY <1>0, <1>1, <1>2, <1>5, <2>1, OtherNumbers
<1>6. NumbersOf(s)'
  <2>1. Untouched
    BY <1>1, EndsStayUntouched DEF CountingInv
  <2>2. /\ Tally(s, r)' = Plus(Tally(s, r), Tally(s, "stats")) /\ Tally(s, "stats")' = Zero
        /\ \A place : place \notin {"nowhere", "stats", r} => Tally(s, place)' = Tally(s, place)
    BY <1>0, <1>2, <2>1, TallyShifted
  <2>3. NumbersOf(s)
    BY StatsParts DEF CountingInv
  <2>4. stats'[s] = Zero /\ transit'[s][r] = stats[s] /\ stats[s] \in Counts /\ stats[s] # None
    BY <1>0, NotifierAssumptions
  <2>5. Tally(s, r)' = stats[s]
    <3>1. Tally(s, r) = Zero /\ Tally(s, "stats") = stats[s]
      BY <1>0, <2>3 DEF NumbersOf
    <3>. QED BY <2>2, <2>4, <3>1, PlusZero
  <2>6. ASSUME NEW q \in Reports
        PROVE  (IF transit'[s][q] = None THEN Zero ELSE transit'[s][q]) = Tally(s, q)'
    <3>1. CASE q = r
      BY <2>4, <2>5, <3>1
    <3>2. CASE q # r
      <4>1. transit'[s][q] = transit[s][q]
        BY <1>0, <3>2
      <4>2. Tally(s, q)' = Tally(s, q)
        BY <2>2, <3>2, ReportsAreNotPlaces
      <4>. QED BY <2>3, <4>1, <4>2 DEF NumbersOf
    <3>. QED BY <3>1, <3>2
  <2>7. Tally(s, "table")' = Tally(s, "table")
    BY <1>2, <2>2
  <2>. QED BY <1>0, <2>2, <2>3, <2>4, <2>6, <2>7 DEF NumbersOf
<1>. QED BY <1>3, <1>4, <1>5, <1>6, StatsPartsNext DEF CountingInv

LEMMA NextHandled ==
    ASSUME TypeOK, CountingInv, NEW s \in Services, NEW r \in Reports, Handled(s, r)
    PROVE  CountingInv'
<1>0. /\ stats \in [Services -> Counts] /\ transit \in [Services -> [Reports -> Counts \cup {None}]]
      /\ service_stats \in [Services -> Counts]
      /\ transit[s][r] # None /\ transit' = [transit EXCEPT ![s][r] = None]
      /\ UNCHANGED <<work, stats, crashes>>
  BY DEF TypeOK, Handled, on_service_stats, ReportFails, Received
<1>a. PICK place \in {"table", "lost"} :
        /\ Shift(s, r, place)
        /\ service_stats' = IF place = "table"
                            THEN [service_stats EXCEPT ![s] = Plus(@, transit[s][r])]
                            ELSE service_stats
  BY DEF Handled, on_service_stats, ReportFails
<1>1. EndsStay /\ \A p \in Pushes : push[p] \notin Ended => push'[p] \notin Ended
  BY <1>0, StaysPut
<1>2. r # "nowhere" /\ r # place /\ place # "nowhere" /\ r # "stats" /\ r # "table"
  BY ReportsAreNotPlaces
<1>b. transit[s][r] \in Counts
  BY <1>0
<1>3. TypesOfCounting'
  <2>1. service_stats' \in [Services -> Counts]
    BY <1>0, <1>a, <1>b, PlusType
  <2>2. transit' \in [Services -> [Reports -> Counts \cup {None}]]
    BY <1>0
  <2>3. counted' \in [Pushes -> Places \cup Reports]
    <3>1. place \in Places \cup Reports
      BY DEF Places
    <3>. QED BY <1>a, <3>1, ShiftedTypes
  <2>. QED BY <1>0, <2>1, <2>2, <2>3 DEF CountingInv, TypesOfCounting
<1>4. EndedCounted'
  BY <1>a, <1>1, <1>2, ShiftedEnds
<1>5. ASSUME NEW t \in Services, t # s PROVE NumbersOf(t)'
  <2>1. stats'[t] = stats[t] /\ service_stats'[t] = service_stats[t] /\ transit'[t] = transit[t]
    BY <1>0, <1>a, <1>5
  <2>. QED BY <1>a, <1>1, <1>2, <1>5, <2>1, OtherNumbers
<1>6. NumbersOf(s)'
  <2>1. Untouched
    BY <1>1, EndsStayUntouched DEF CountingInv
  <2>2. /\ Tally(s, place)' = Plus(Tally(s, place), Tally(s, r)) /\ Tally(s, r)' = Zero
        /\ \A q : q \notin {"nowhere", r, place} => Tally(s, q)' = Tally(s, q)
    BY <1>a, <1>2, <2>1, TallyShifted
  <2>3. NumbersOf(s)
    BY StatsParts DEF CountingInv
  <2>4. Tally(s, "stats")' = Tally(s, "stats")
    BY <1>2, <2>2
  <2>5. service_stats'[s] = Tally(s, "table")'
    <3>1. Tally(s, r) = transit[s][r] /\ service_stats[s] = Tally(s, "table")
      BY <1>0, <2>3 DEF NumbersOf
    <3>2. CASE place = "table"
      <4>1. service_stats'[s] = Plus(service_stats[s], transit[s][r])
        BY <1>0, <1>a, <3>2
      <4>. QED BY <2>2, <3>1, <3>2, <4>1
    <3>3. CASE place # "table"
      <4>1. service_stats'[s] = service_stats[s]
        BY <1>a, <3>3
      <4>. QED BY <1>2, <2>2, <3>1, <3>3, <4>1
    <3>. QED BY <3>2, <3>3
  <2>6. ASSUME NEW q \in Reports
        PROVE  (IF transit'[s][q] = None THEN Zero ELSE transit'[s][q]) = Tally(s, q)'
    <3>1. CASE q = r
      <4>1. transit'[s][r] = None
        BY <1>0
      <4>. QED BY <2>2, <3>1, <4>1
    <3>2. CASE q # r
      <4>1. transit'[s][q] = transit[s][q]
        BY <1>0, <3>2
      <4>2. Tally(s, q)' = Tally(s, q)
        BY <2>2, <3>2, ReportsAreNotPlaces
      <4>. QED BY <2>3, <4>1, <4>2 DEF NumbersOf
    <3>. QED BY <3>1, <3>2
  <2>. QED BY <1>0, <2>3, <2>4, <2>5, <2>6 DEF NumbersOf
<1>. QED BY <1>3, <1>4, <1>5, <1>6, StatsPartsNext DEF CountingInv

LEMMA NextCrashCounting ==
    ASSUME TypeOK, CountingInv, NEW s \in Services, Crash(s)
    PROVE  CountingInv'
<1>0. /\ stats \in [Services -> Counts] /\ crashes \in [Services -> Nat]
      /\ crashes' = [crashes EXCEPT ![s] = @ + 1]
      /\ push' = [p \in Pushes |->
                    IF p \in PushesOf(s) /\ push[p] \in {"queued", "sending", "sleeping"}
                    THEN "lost" ELSE push[p]]
      /\ stats' = [stats EXCEPT ![s] = Zero] /\ Shift(s, "stats", "lost")
      /\ UNCHANGED <<attempts, transit, service_stats>>
  BY DEF TypeOK, Crash
<1>1. EndsStay
  BY <1>0 DEF EndsStay, Ended
<1>2. \A p \in Pushes : push[p] \notin Ended => push'[p] \notin Ended
  BY <1>0 DEF Ended
<1>3. TypesOfCounting'
  <2>1. stats' \in [Services -> Counts]
    BY <1>0, ZeroType
  <2>2. crashes' \in [Services -> Nat]
    BY <1>0
  <2>3. counted' \in [Pushes -> Places \cup Reports]
    <3>1. "lost" \in Places \cup Reports
      BY DEF Places
    <3>. QED BY <1>0, <3>1, ShiftedTypes
  <2>. QED BY <1>0, <2>1, <2>2, <2>3 DEF CountingInv, TypesOfCounting
<1>4. EndedCounted'
  BY <1>0, <1>1, <1>2, ShiftedEnds
<1>5. ASSUME NEW t \in Services, t # s PROVE NumbersOf(t)'
  <2>1. stats'[t] = stats[t] /\ service_stats'[t] = service_stats[t] /\ transit'[t] = transit[t]
    BY <1>0, <1>5
  <2>. QED BY <1>0, <1>1, <1>5, <2>1, OtherNumbers
<1>6. NumbersOf(s)'
  <2>1. Untouched
    BY <1>1, EndsStayUntouched DEF CountingInv
  <2>2. /\ Tally(s, "stats")' = Zero
        /\ \A q : q \notin {"nowhere", "stats", "lost"} => Tally(s, q)' = Tally(s, q)
    BY <1>0, <2>1, TallyShifted
  <2>3. NumbersOf(s)
    BY StatsParts DEF CountingInv
  <2>4. stats'[s] = Zero
    BY <1>0
  <2>5. /\ Tally(s, "table")' = Tally(s, "table")
        /\ \A r \in Reports : Tally(s, r)' = Tally(s, r)
    BY <2>2, ReportsAreNotPlaces
  <2>. QED BY <1>0, <2>2, <2>3, <2>4, <2>5 DEF NumbersOf
<1>. QED BY <1>3, <1>4, <1>5, <1>6, StatsPartsNext DEF CountingInv

----------------------------------------------------------------------------
(* The inductive invariant. *)
Inv == WorkInv /\ CountingInv

LEMMA NextInv == Inv /\ [Next]_vars => Inv'
<1> SUFFICES ASSUME Inv, [Next]_vars PROVE CountingInv'
  BY NextWork DEF Inv
<1>0. WorkInv /\ CountingInv /\ TypeOK
  BY TypeParts DEF Inv, WorkInv, CountingInv
<1>1. CASE \E p \in Pushes : ApnsPush(p) \/ apns_notify(p) \/ HuaweiPush(p)
  BY <1>0, <1>1, NextApnsCounting
<1>2. CASE send_pending
  BY <1>0, <1>2, NextSendCounting
<1>3. CASE \E s \in Services, r \in Reports : ping(s, r) \/ Handled(s, r)
  BY <1>0, <1>3, NextPing, NextHandled
<1>4. CASE \E s \in Services : Crash(s)
  BY <1>0, <1>4, NextCrashCounting
<1>5. CASE UNCHANGED vars
  <2>1. UNCHANGED work /\ UNCHANGED counting /\ crashes' = crashes
    BY <1>5 DEF vars
  <2>. QED BY <1>0, <2>1, StaysPut, QuietCounting
<1>. QED BY <1>1, <1>2, <1>3, <1>4, <1>5 DEF Next

LEMMA InvAlways == Spec => []Inv
<1>1. Init => Inv
  BY InitWork, InitCounting DEF Inv
<1>. QED BY <1>1, NextInv, PTL DEF Spec

(* Every variable keeps its type, the queues of huawei included. *)
THEOREM TypeCorrect == Spec => []TypeOK
<1>1. Inv => TypeOK
  BY TypeParts DEF Inv, WorkInv, CountingInv
<1>. QED BY <1>1, InvAlways, PTL

(* The statistics add up (NotifyStats.collect in util.py, on_service_stats *)
(* in hivemind.cpp): for any number of pushes and of reports on their way, *)
(* what a notifier holds, what each report says and what the table says    *)
(* are the cardinalities of the sets of pushes counted there.              *)
THEOREM StatsAddUpHolds == Spec => []StatsAddUp
<1>1. Inv => StatsAddUp
  BY DEF Inv, CountingInv
<1>. QED BY <1>1, InvAlways, PTL

(* The loop of apns_notify tries a push at most MAX_RETRIES + 1 times, and *)
(* huawei tries one once (apns.py:132-162, huawei.py:95-104); while it     *)
(* lasts, the local variable retries is what is left.                      *)
THEOREM RetriesBounded == Spec => []RetriesExact
<1>1. Inv => RetriesExact
  BY DEF Inv, WorkInv
<1>. QED BY <1>1, InvAlways, PTL

(* Both lists of huawei hold only pushes that wait, each of them once, so  *)
(* no run of send_pending sends a push that another has sent or lost       *)
(* (huawei.py:85-104).                                                     *)
THEOREM QueuesExactHolds == Spec => []QueuesExact
<1>1. Inv => QueuesExact
  BY DEF Inv, WorkInv
<1>. QED BY <1>1, InvAlways, PTL
=============================================================================
