--------------------------- MODULE Resubscription ---------------------------
(***************************************************************************)
(* The renewal queue next_ of one service node (spns/hive/snode.cpp:       *)
(* add_account, on_connected, check_subs).  All of it runs on the event    *)
(* loop.  Time 0 is system_epoch; an account has Weight[a] subscriptions   *)
(* whose signatures are current (how they expire is the subject of module  *)
(* Swarms), and they go into one request.  Accounts in the queue are       *)
(* in subscribers_, from which nothing is ever removed, so the branch of   *)
(* check_subs for a missing account is not taken.                          *)
(***************************************************************************)
EXTENDS Naturals, SequencesExt

CONSTANTS
    Accounts, None, Weight,
    SUBS_REQUEST_LIMIT, RESUBSCRIBE_MIN, RESUBSCRIBE_MAX

ASSUME ResubscriptionAssumptions ==
    /\ None \notin Accounts \cup Nat
    /\ Weight \in [Accounts -> Nat]
    /\ SUBS_REQUEST_LIMIT \in Nat \ {0}
    /\ RESUBSCRIBE_MIN \in Nat \ {0} /\ RESUBSCRIBE_MAX \in Nat
    /\ RESUBSCRIBE_MIN <= RESUBSCRIBE_MAX

VARIABLES
    clock,
    connected_,
    subs_,
    next_,
    requests,   \* number of monitor requests that wait for their response
    again,      \* a call_soon of check_my_subs is queued; one does the work of several
    takenAt     \* when the account was last submitted on this connection, or None

queue == <<subs_, next_>>
traffic == <<requests, again, takenAt>>
vars == <<clock, connected_, queue, traffic>>

Entries == [acct : Accounts \cup {None}, time : Nat]
(* The closure of a request holds whether the request was rate_limited,    *)
(* that is full.                                                           *)
Requests == {"rate_limited", "last"}

TypeOK ==
    /\ clock \in Nat /\ connected_ \in BOOLEAN
    /\ subs_ \in SUBSET Accounts
    /\ next_ \in Seq(Entries)
    /\ requests \in [Requests -> Nat]
    /\ again \in BOOLEAN
    /\ takenAt \in [Accounts -> Nat \cup {None}]

Never == [a \in Accounts |-> None]

Init ==
    /\ clock = 1
    /\ connected_ = FALSE
    /\ subs_ = {} /\ next_ = <<>>
    /\ requests = [r \in Requests |-> 0] /\ again = FALSE
    /\ takenAt = Never

IsLive(e) == e.acct # None

(* Seeded fault: a forced account keeps its old entry. *)
FaultKeepEntry(q, a) == q

(* Lazy deletion of the first entry of the account. *)
Unqueue(q, a) ==
    [i \in DOMAIN q |-> IF q[i].acct = a /\ \A j \in 1..(i - 1) : q[j].acct # a
                        THEN [q[i] EXCEPT !.acct = None] ELSE q[i]]

add_account(a, force_now) ==
    /\ subs_' = subs_ \cup {a}
    /\ next_' = IF a \notin subs_ THEN <<[acct |-> a, time |-> 0]>> \o next_
                ELSE IF force_now THEN <<[acct |-> a, time |-> 0]>> \o Unqueue(next_, a)
                ELSE next_
    /\ UNCHANGED <<clock, connected_, traffic>>

reset_swarm ==
    /\ subs_' = {} /\ next_' = <<>>
    /\ UNCHANGED <<clock, connected_, traffic>>

(* gone: the accounts whose entry carries another swarm than the node. *)
remove_stale_swarm_members(gone) ==
    /\ subs_' = subs_ \ gone
    /\ next_' = [i \in DOMAIN next_ |->
            IF next_[i].acct \in gone THEN [next_[i] EXCEPT !.acct = None] ELSE next_[i]]
    /\ UNCHANGED <<clock, connected_, traffic>>

----------------------------------------------------------------------------
(* check_subs.                                                             *)

Sorted(q) == \A i, j \in DOMAIN q : i < j => q[i].time <= q[j].time

(* subreq_count after the first k entries. *)
Size(q, k) ==
    FoldLeft(LAMBDA n, e : IF IsLive(e) THEN n + Weight[e.acct] ELSE n, 0, SubSeq(q, 1, k))

RateLimited(q, k) == Size(q, k) >= SUBS_REQUEST_LIMIT

(* Seeded fault: the loop stops at a lazily deleted entry. *)
FaultStopAtDeleted(q) ==
    Max({k \in 0..Len(q) : \A i \in 1..k :
            IsLive(q[i]) /\ q[i].time <= clock /\ ~RateLimited(q, i - 1)})

(* Seeded fault: the loop goes on at entries that are not due. *)
FaultNotYetDue(q) ==
    Max({k \in 0..Len(q) : \A i \in 1..k : ~RateLimited(q, i - 1)})

(* How many entries the loop removes: it stops at one that is not due, and *)
(* once the request is full.                                               *)
DrainLength(q) ==
    Max({k \in 0..Len(q) : \A i \in 1..k : q[i].time <= clock /\ ~RateLimited(q, i - 1)})

(* Seeded fault: only the new entries are sorted. *)
FaultSortAdded(q, k) == Len(q)

(* partition_point: after k entries were removed, those up to here are     *)
(* before now + RESUBSCRIBE_MIN and stay where they are.                   *)
SortFrom(q, k) ==
    Max({j \in k..Len(q) : \A i \in (k + 1)..j : q[i].time < clock + RESUBSCRIBE_MIN})

(* The entries at the positions I in the order of their times; equal times *)
(* may end in any order.                                                   *)
Arranged(entry, I) ==
    {o \in {[j \in DOMAIN p |-> entry[p[j]]] : p \in SetToSeqs(I)} : Sorted(o)}

(* Seeded fault: only what is new is asked for. *)
FaultKeepTimes(q) == q

(* A new connection: everyone is submitted again. *)
ResetTimes(q) == [i \in DOMAIN q |-> [q[i] EXCEPT !.time = 0]]

(* The accounts of the first k entries are submitted and get new entries,  *)
(* which are sorted together with the untouched ones after `it`.           *)
check_subs(q) ==
    LET k == DrainLength(q)
        live == {i \in 1..k : IsLive(q[i])}
        it == SortFrom(q, k)
        accts == {q[i].acct : i \in live}
        req == IF RateLimited(q, k) THEN "rate_limited" ELSE "last"
    IN  /\ \E delay \in [live -> RESUBSCRIBE_MIN..RESUBSCRIBE_MAX] :
            LET entry == [i \in DOMAIN q |->
                    IF i \in live THEN [acct |-> q[i].acct, time |-> clock + delay[i]] ELSE q[i]]
            IN  \E o \in Arranged(entry, live \cup (it + 1)..Len(q)) :
                    next_' = SubSeq(q, k + 1, it) \o o
        /\ requests' = IF Size(q, k) > 0 THEN [requests EXCEPT ![req] = @ + 1] ELSE requests
        /\ takenAt' = [a \in Accounts |-> IF a \in accts THEN clock ELSE takenAt[a]]

(* The 10s timer of HiveMind::check_subs. *)
TimerCheck ==
    /\ connected_
    /\ check_subs(next_)
    /\ UNCHANGED <<clock, connected_, subs_, again>>

(* The call_soon of a response; nothing to do if the connection is gone. *)
CheckAgain ==
    /\ again /\ again' = FALSE
    /\ IF connected_ THEN check_subs(next_)
       ELSE UNCHANGED <<next_, requests, takenAt>>
    /\ UNCHANGED <<clock, connected_, subs_>>

on_connected ==
    /\ ~connected_
    /\ connected_' = TRUE
    /\ check_subs(ResetTimes(next_))
    /\ UNCHANGED <<clock, subs_, again>>

(* The stream goes with the connection, and its requests are abandoned. *)
on_disconnected ==
    /\ connected_
    /\ connected_' = FALSE
    /\ requests' = [r \in Requests |-> 0] /\ takenAt' = Never
    /\ UNCHANGED <<clock, queue, again>>

MonitorAccepted(r) ==
    /\ requests[r] > 0 /\ requests' = [requests EXCEPT ![r] = @ - 1]
    /\ again' = (again \/ r = "rate_limited")
    /\ UNCHANGED <<clock, connected_, queue, takenAt>>

(* An error or a timeout is logged, and that is all. *)
MonitorFails(r) ==
    /\ requests[r] > 0 /\ requests' = [requests EXCEPT ![r] = @ - 1]
    /\ UNCHANGED <<clock, connected_, queue, again, takenAt>>

Tick ==
    /\ clock' = clock + 1
    /\ UNCHANGED <<connected_, queue, traffic>>

Next ==
    \/ \E a \in Accounts, force_now \in BOOLEAN : add_account(a, force_now)
    \/ reset_swarm
    \/ \E gone \in SUBSET subs_ : remove_stale_swarm_members(gone)
    \/ TimerCheck \/ CheckAgain \/ on_connected \/ on_disconnected
    \/ \E r \in Requests : MonitorAccepted(r) \/ MonitorFails(r)
    \/ Tick

Spec == Init /\ [][Next]_vars

----------------------------------------------------------------------------
(* Properties.                                                             *)

(* "Now everything should be sorted": after any mixture of forced          *)
(* insertions, partial drains and reconnections (snode.cpp:367-384).       *)
QueueSorted == Sorted(next_)

(* Each account of the node has exactly one entry that is not lazily       *)
(* deleted, and nobody else has one (snode.cpp:161-181, 206-392).          *)
OneLiveEntry ==
    \A a \in Accounts :
        Cardinality({i \in DOMAIN next_ : next_[i].acct = a}) = (IF a \in subs_ THEN 1 ELSE 0)

(* A request leaves nothing due behind, unless it is full; then it asks to *)
(* be continued (snode.cpp:303-357).                                       *)
DrainComplete ==
    [][\A r \in Requests : requests'[r] > requests[r] =>
        r = "rate_limited" \/ \A i \in DOMAIN next_' : next_'[i].time > clock]_vars

(* Over one connection every account is submitted, and renewed at most     *)
(* RESUBSCRIBE_MAX after its last submission (snode.cpp:88-105, 345-350).  *)
RenewalScheduled ==
    connected_ => \A i \in DOMAIN next_ : IsLive(next_[i]) =>
        \/ next_[i].time = 0
        \/ LET at == takenAt[next_[i].acct]
           IN  at # None /\ next_[i].time <= at + RESUBSCRIBE_MAX

(* When the account of a live entry of the queue q is due. *)
DueOf(q, S) ==
    [a \in Accounts |-> IF a \in S THEN q[CHOOSE i \in DOMAIN q : q[i].acct = a].time ELSE None]

Service == INSTANCE RenewalService WITH
    connected <- connected_, dueAt <- DueOf(next_, subs_), renewedAt <- takenAt

(* The queue with its lazy deletions, its insertions at the front and its  *)
(* partial sorting is a table of due times, from which check_subs renews   *)
(* the earliest ones: no account is renewed before its time, twice, or     *)
(* after one that is due later, and none is forgotten (snode.cpp:160-392). *)
ImplementsRenewals == Service!Spec
=============================================================================
