------------------------------- MODULE PGPool -------------------------------
(***************************************************************************)
(* The pool of database connections (spns/pg.cpp, spns/pg.hpp), shared by  *)
(* the OxenMQ workers, the notification thread, the timers and the threads *)
(* that load subscriptions.                                                *)
(*                                                                         *)
(* A step is what a thread does under mutex_ once, or between two locks.   *)
(* make_conn keeps the lock while it connects.  A connection that the      *)
(* server has dropped looks open to is_open() until a query fails on it.   *)
(***************************************************************************)
EXTENDS Integers, Sequences, FiniteSets

CONSTANTS
    Threads,
    Conns,           \* names of connections, reused after a connection is closed
    initial_conns,
    max_idle,        \* negative: no limit
    max_idle_time,
    None,
    MaxTime          \* bound of the model

ASSUME PoolAssumptions ==
    /\ IsFiniteSet(Threads) /\ IsFiniteSet(Conns)
    /\ initial_conns \in Nat /\ initial_conns <= Cardinality(Conns)
    /\ max_idle \in Int /\ max_idle_time \in Nat /\ MaxTime \in Nat
    /\ None \notin Threads /\ None \notin Conns

VARIABLES
    now,
    mutex_,       \* the thread inside make_conn, or None
    idle_conns_,  \* connection and the time it became idle, oldest first
    status,       \* of each connection: see Statuses
    pc,           \* where each thread is
    conn          \* the connection each thread has, or None

vars == <<now, mutex_, idle_conns_, status, pc, conn>>

(* "closed": not open (a free name); "up"; "lost": dropped by the server,  *)
(* the client does not know; "dead": the client has seen the failure.      *)
Statuses == {"closed", "up", "lost", "dead"}
States == {"out", "pop", "check", "clear", "make", "use", "release", "tidy"}

TypeOK ==
    /\ now \in 0..MaxTime
    /\ mutex_ \in Threads \cup {None}
    /\ idle_conns_ \in Seq([conn : Conns, since : 0..MaxTime])
    /\ status \in [Conns -> Statuses]
    /\ pc \in [Threads -> States]
    /\ conn \in [Threads -> Conns \cup {None}]

(* The constructor has connected initial_conns times. *)
Init ==
    /\ now = 0 /\ mutex_ = None
    /\ \E f \in [1..initial_conns -> Conns] :
        /\ \A i, j \in 1..initial_conns : f[i] = f[j] => i = j
        /\ idle_conns_ = [i \in 1..initial_conns |-> [conn |-> f[i], since |-> 0]]
        /\ status = [c \in Conns |->
                        IF \E i \in 1..initial_conns : f[i] = c THEN "up" ELSE "closed"]
    /\ pc = [t \in Threads |-> "out"]
    /\ conn = [t \in Threads |-> None]

Goto(t, from, to) == pc[t] = from /\ pc' = [pc EXCEPT ![t] = to]

Tick ==
    /\ now < MaxTime /\ now' = now + 1
    /\ UNCHANGED <<mutex_, idle_conns_, status, pc, conn>>

(* The server drops a connection, idle or in use. *)
ServerDrops(c) ==
    /\ status[c] = "up" /\ status' = [status EXCEPT ![c] = "lost"]
    /\ UNCHANGED <<now, mutex_, idle_conns_, pc, conn>>

----------------------------------------------------------------------------
(* get()                                                                   *)

Get(t) ==
    /\ Goto(t, "out", "pop")
    /\ UNCHANGED <<now, mutex_, idle_conns_, status, conn>>

(* Seeded fault: the connection also stays in the queue. *)
FaultPopKeeps(t) ==
    /\ idle_conns_ # <<>> /\ Goto(t, "pop", "check")
    /\ conn' = [conn EXCEPT ![t] = idle_conns_[Len(idle_conns_)].conn]
    /\ UNCHANGED idle_conns_

(* The most recently used connection. *)
PopConn(t) ==
    /\ idle_conns_ # <<>> /\ Goto(t, "pop", "check")
    /\ conn' = [conn EXCEPT ![t] = idle_conns_[Len(idle_conns_)].conn]
    /\ idle_conns_' = SubSeq(idle_conns_, 1, Len(idle_conns_) - 1)

(* Seeded fault: a new connection is made even if one is idle. *)
FaultAlwaysNone(t) == Goto(t, "pop", "clear") /\ UNCHANGED <<idle_conns_, conn>>

PopNone(t) ==
    /\ idle_conns_ = <<>> /\ Goto(t, "pop", "clear")
    /\ UNCHANGED <<idle_conns_, conn>>

pop_conn(t) ==
    /\ mutex_ = None
    /\ PopConn(t) \/ PopNone(t)
    /\ UNCHANGED <<now, mutex_, status>>

(* Seeded fault: the connection is not tested. *)
FaultIsOpen(c) == TRUE

is_open(c) == status[c] # "dead"

(* A dead connection is destroyed and the next one is tried. *)
CheckOpen(t) ==
    /\ pc[t] = "check" /\ is_open(conn[t]) /\ Goto(t, "check", "clear")
    /\ UNCHANGED <<now, mutex_, idle_conns_, status, conn>>

CheckDead(t) ==
    /\ pc[t] = "check" /\ ~is_open(conn[t]) /\ Goto(t, "check", "pop")
    /\ status' = [status EXCEPT ![conn[t]] = "closed"]
    /\ conn' = [conn EXCEPT ![t] = None]
    /\ UNCHANGED <<now, mutex_, idle_conns_>>

(* How many connections clear_idle_conns takes from the front: those over  *)
(* max_idle, then those idle since before the cutoff, up to the first that *)
(* is not.                                                                 *)
Excess == IF max_idle >= 0 /\ Len(idle_conns_) > max_idle
          THEN Len(idle_conns_) - max_idle ELSE 0

Stale(e) == max_idle_time > 0 /\ e.since < now - max_idle_time

Cleared(n) ==
    /\ n \in Excess..Len(idle_conns_)
    /\ \A i \in (Excess + 1)..n : Stale(idle_conns_[i])
    /\ n < Len(idle_conns_) => ~Stale(idle_conns_[n + 1])

clear_idle_conns ==
    /\ mutex_ = None
    /\ \E n \in 0..Len(idle_conns_) :
        /\ Cleared(n)
        /\ idle_conns_' = SubSeq(idle_conns_, n + 1, Len(idle_conns_))
        /\ status' = [c \in Conns |->
                        IF \E i \in 1..n : idle_conns_[i].conn = c THEN "closed" ELSE status[c]]

GetClears(t) ==
    /\ pc[t] = "clear" /\ clear_idle_conns
    /\ pc' = [pc EXCEPT ![t] = IF conn[t] = None THEN "make" ELSE "use"]
    /\ UNCHANGED <<now, mutex_, conn>>

MakeLocks(t) ==
    /\ pc[t] = "make" /\ mutex_ = None /\ mutex_' = t
    /\ UNCHANGED <<now, idle_conns_, status, pc, conn>>

MakeConnects(t) ==
    /\ mutex_ = t /\ mutex_' = None /\ Goto(t, "make", "use")
    /\ \E c \in Conns :
        /\ status[c] = "closed" /\ status' = [status EXCEPT ![c] = "up"]
        /\ conn' = [conn EXCEPT ![t] = c]
    /\ UNCHANGED <<now, idle_conns_>>

(* The server cannot be reached: get() throws. *)
MakeThrows(t) ==
    /\ mutex_ = t /\ mutex_' = None /\ Goto(t, "make", "out")
    /\ UNCHANGED <<now, idle_conns_, status, conn>>

----------------------------------------------------------------------------
(* The transaction, and ~PGConn, which returns the connection after a      *)
(* failure too.                                                            *)

Work(t) ==
    /\ pc[t] = "use" /\ status[conn[t]] = "up" /\ Goto(t, "use", "release")
    /\ UNCHANGED <<now, mutex_, idle_conns_, status, conn>>

WorkFails(t) ==
    /\ pc[t] = "use" /\ status[conn[t]] # "up" /\ Goto(t, "use", "release")
    /\ status' = [status EXCEPT ![conn[t]] = "dead"]
    /\ UNCHANGED <<now, mutex_, idle_conns_, conn>>

(* Seeded fault: the connection is returned to the front of the queue. *)
FaultPushFront(e) == <<e>> \o idle_conns_

PushBack(e) == Append(idle_conns_, e)

release(t) ==
    /\ mutex_ = None /\ Goto(t, "release", "tidy")
    /\ idle_conns_' = PushBack([conn |-> conn[t], since |-> now])
    /\ conn' = [conn EXCEPT ![t] = None]
    /\ UNCHANGED <<now, mutex_, status>>

ReleaseClears(t) ==
    /\ clear_idle_conns /\ Goto(t, "tidy", "out")
    /\ UNCHANGED <<now, mutex_, conn>>

----------------------------------------------------------------------------
Step(t) ==
    \/ Get(t) \/ pop_conn(t)
    \/ CheckOpen(t) \/ CheckDead(t)
    \/ GetClears(t) \/ MakeLocks(t) \/ MakeConnects(t) \/ MakeThrows(t)
    \/ Work(t) \/ WorkFails(t) \/ release(t) \/ ReleaseClears(t)

Next ==
    \/ Tick
    \/ \E c \in Conns : ServerDrops(c)
    \/ \E t \in Threads : Step(t)

Spec == Init /\ [][Next]_vars

----------------------------------------------------------------------------
(* Properties.                                                             *)

Idle == {idle_conns_[i].conn : i \in 1..Len(idle_conns_)}
Held == {conn[t] : t \in Threads} \ {None}

(* Ownership: a connection belongs to one thread or to one place of the    *)
(* idle queue, never to two, and every connection that is open belongs to  *)
(* somebody, so that none leaks (pg.cpp:20-34, 55-77).                     *)
OwnedOnce ==
    /\ \A i, j \in 1..Len(idle_conns_) : idle_conns_[i].conn = idle_conns_[j].conn => i = j
    /\ \A s, t \in Threads : conn[s] = conn[t] /\ conn[t] # None => s = t
    /\ Idle \cap Held = {}
    /\ Idle \cup Held = {c \in Conns : status[c] # "closed"}

(* Threads that have a connection, or that found none idle and will make   *)
(* one.                                                                    *)
Busy == {t \in Threads :
            conn[t] # None \/ pc[t] = "make" \/ pc[t] = "clear"}

(* The pool never opens more connections than there are threads (or than   *)
(* it starts with), although it sets no limit itself and a thread makes    *)
(* its connection long after it found none idle (pg.cpp:20-34).            *)
PoolBounded ==
    Len(idle_conns_) + Cardinality(Busy) <=
        IF initial_conns > Cardinality(Threads) THEN initial_conns ELSE Cardinality(Threads)

(* A broken connection costs one transaction: the connection on which a    *)
(* query has failed goes back to the pool and is never used again          *)
(* (pg.cpp:22-28, 74-77).                                                  *)
NeverUsedAfterFailure == \A t \in Threads : pc[t] = "use" => status[conn[t]] # "dead"

(* After a check of the idle connections none is left that has been idle   *)
(* longer than max_idle_time: the check stops at the first one that has    *)
(* not, which is right because they are in the order of the time they were *)
(* returned (pg.cpp:44-53).                                                *)
StaleCleared ==
    [][\A t \in Threads :
            pc[t] \in {"clear", "tidy"} /\ pc'[t] # pc[t] =>
                \A i \in 1..Len(idle_conns_') : ~Stale(idle_conns_'[i])]_vars
=============================================================================
