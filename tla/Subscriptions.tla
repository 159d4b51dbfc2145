--------------------------- MODULE Subscriptions ---------------------------
(***************************************************************************)
(* The subscriptions of one account: its rows in the database and its      *)
(* entry in subscribers_ (spns/hivemind.cpp: add_subscription,             *)
(* remove_subscription, on_drop_registrations, db_cleanup,                 *)
(* load_saved_subscriptions; spns/hive/subscription.cpp).                  *)
(*                                                                         *)
(* A worker thread reads the row of a device, writes it in the same        *)
(* transaction, commits, and then merges the subscription into subscribers_ *)
(* on the event loop.  The database runs at READ COMMITTED: other          *)
(* transactions may commit between the read and the write, and the row     *)
(* lock makes the write and the commit one step.                           *)
(*                                                                         *)
(* The settings of a subscription are its namespaces, which are rows of    *)
(* sub_namespaces, and its options (subaccount and want_data), which are   *)
(* columns.  The signature covers both and the timestamp.  The statistics  *)
(* counted in the same transaction are left out.                           *)
(***************************************************************************)
EXTENDS Integers, FiniteSets

CONSTANTS
    Devices,           \* service and svcid of a row
    Workers,           \* threads that handle validated requests
    Namespaces,        \* lists of namespaces a client may ask for
    Options,           \* subaccount and want_data
    SIGNATURE_EXPIRY,
    SIGNATURE_EARLY,
    LoadMargin,        \* rows this close to expiry are not loaded
    MaxTime, MaxRequests   \* bounds of the model

ASSUME SubscriptionAssumptions ==
    /\ SIGNATURE_EXPIRY \in Nat \ {0} /\ SIGNATURE_EARLY \in Nat \ {0}
    /\ LoadMargin \in Nat /\ LoadMargin < SIGNATURE_EXPIRY
    /\ MaxTime \in Nat /\ MaxRequests \in Nat

VARIABLES
    now,
    rows,          \* the committed row of each device
    nextId,        \* sequence of subscriptions.id
    requests,      \* number of requests so far
    tx,            \* the request that each worker handles
    started,       \* when the process was started
    subscribers_,  \* in memory: the sig_ts of the signature kept for each settings
    swarmsKnown,   \* a get_service_nodes response has come since startup
    queued,        \* the members of the swarm have the account in next_
    acked,         \* history: the row of a device's last acknowledged subscription
    unmerged       \* history: ids of rows that memory may not have

database == <<rows, nextId>>
memory == <<started, subscribers_, swarmsKnown, queued>>
history == <<acked, unmerged>>
vars == <<now, requests, tx, database, memory, history>>

Times == 0..(MaxTime + SIGNATURE_EARLY)
Settings == Namespaces \X Options
Subscription == [ns : Namespaces, opts : Options, sig_ts : Times]
None == [none |-> TRUE]
NoSig == -1

(* signed: the namespaces that the stored signature covers. *)
Row == [id : Nat, ns : Namespaces, opts : Options, sig_ts : Times, signed : Namespaces]
Found == [id : Nat, ns : Namespaces]

(* found: what SELECT returned.  overlapped (history): the row was changed *)
(* by somebody else after that.                                            *)
Idle == [pc |-> "idle"]
Tx == {Idle} \cup
      [pc : {"read"}, dev : Devices, sub : Subscription, found : Found \cup {None},
       overlapped : BOOLEAN] \cup
      [pc : {"merge"}, sub : Subscription, new_sub : BOOLEAN]

TypeOK ==
    /\ now \in 0..MaxTime
    /\ rows \in [Devices -> Row \cup {None}]
    /\ nextId \in Nat
    /\ requests \in 0..MaxRequests
    /\ tx \in [Workers -> Tx]
    /\ started \in 0..MaxTime
    /\ subscribers_ \in [Settings -> Times \cup {NoSig}]
    /\ swarmsKnown \in BOOLEAN /\ queued \in BOOLEAN
    /\ acked \in [Devices -> {None} \cup [id : Nat, overlapped : BOOLEAN]]
    /\ unmerged \subseteq Nat

Init ==
    /\ now = 0 /\ started = 0
    /\ rows = [d \in Devices |-> None]
    /\ nextId = 1 /\ requests = 0
    /\ tx = [w \in Workers |-> Idle]
    /\ subscribers_ = [s \in Settings |-> NoSig]
    /\ swarmsKnown = FALSE /\ queued = FALSE
    /\ acked = [d \in Devices |-> None]
    /\ unmerged = {}

Tick ==
    /\ now < MaxTime /\ now' = now + 1
    /\ UNCHANGED <<requests, tx, database, memory, history>>

Overlapping(D) ==
    [w \in Workers |->
        IF tx[w].pc = "read" /\ tx[w].dev \in D
        THEN [tx[w] EXCEPT !.overlapped = TRUE] ELSE tx[w]]

----------------------------------------------------------------------------
(* add_subscription, on a worker thread.                                   *)

(* A request whose signature Subscription::Subscription accepted, some     *)
(* time ago, and that its notifier has validated since: pool_.get() and    *)
(* SELECT.                                                                 *)
Select(w, d, sub) ==
    /\ tx[w] = Idle
    /\ requests < MaxRequests /\ requests' = requests + 1
    /\ \E checked \in started..now :
            /\ checked - sub.sig_ts < SIGNATURE_EXPIRY
            /\ sub.sig_ts - checked < SIGNATURE_EARLY
    /\ tx' = [tx EXCEPT ![w] =
                [pc |-> "read", dev |-> d, sub |-> sub, overlapped |-> FALSE,
                 found |-> IF rows[d] = None THEN None
                           ELSE [id |-> rows[d].id, ns |-> rows[d].ns]]]
    /\ UNCHANGED <<now, database, memory, history>>

(* Seeded fault: the namespaces are written for a new row only. *)
FaultKeepNamespaces(t) == t.found = None

(* insert_ns: decided by what SELECT returned. *)
InsertNs(t) == t.found = None \/ t.found.ns # t.sub.ns

(* The row that UPDATE finds again by its id, if it is still there. *)
SameRow(t) == t.found # None /\ rows[t.dev] # None /\ rows[t.dev].id = t.found.id

(* The write fails: another row was inserted for the device (UNIQUE), or   *)
(* namespaces would be inserted for a row that is gone (REFERENCES).       *)
WriteFails(t) ==
    \/ t.found = None /\ rows[t.dev] # None
    \/ t.found # None /\ ~SameRow(t) /\ InsertNs(t)

(* UPDATE or INSERT, the namespaces, COMMIT.  UPDATE of a row that is gone *)
(* changes nothing and is no error.                                        *)
RowId(t) == IF t.found = None THEN nextId ELSE t.found.id

Write(w) ==
    LET t == tx[w]
    IN  /\ t.pc = "read" /\ ~WriteFails(t)
        /\ rows' = IF t.found = None \/ SameRow(t)
                   THEN [rows EXCEPT ![t.dev] =
                            [id |-> RowId(t),
                             ns |-> IF InsertNs(t) THEN t.sub.ns ELSE rows[t.dev].ns,
                             opts |-> t.sub.opts, sig_ts |-> t.sub.sig_ts,
                             signed |-> t.sub.ns]]
                   ELSE rows
        /\ nextId' = IF t.found = None THEN nextId + 1 ELSE nextId

(* Seeded fault: the swarm's members are left to their next renewal. *)
FaultNotForced(t) == FALSE

NewSub(t) == t.found = None

Commit(w) ==
    LET t == tx[w] IN
    /\ Write(w)
    /\ tx' = [Overlapping({t.dev}) EXCEPT ![w] =
                [pc |-> "merge", sub |-> t.sub, new_sub |-> NewSub(t)]]
    /\ acked' = [acked EXCEPT ![t.dev] = [id |-> RowId(t), overlapped |-> t.overlapped]]
    /\ UNCHANGED <<now, requests, memory, unmerged>>

(* The connection is lost during COMMIT: the row is there, the client is   *)
(* told of an error and nothing is merged.                                 *)
CommitInDoubt(w) ==
    LET t == tx[w] IN
    /\ Write(w)
    /\ tx' = [Overlapping({t.dev}) EXCEPT ![w] = Idle]
    /\ acked' = [acked EXCEPT ![t.dev] = None]
    /\ unmerged' = unmerged \cup {RowId(t)}
    /\ UNCHANGED <<now, requests, memory>>

(* Any database error before COMMIT rolls back. *)
TxFails(w) ==
    /\ tx[w].pc = "read"
    /\ tx' = [tx EXCEPT ![w] = Idle]
    /\ UNCHANGED <<now, requests, database, memory, history>>

(* Seeded fault: whatever is merged last is kept. *)
FaultNotNewer(sig_ts, existing) == TRUE

is_newer(sig_ts, existing) == sig_ts > existing

Merged(mem, s, sig_ts) ==
    IF mem[s] = NoSig \/ is_newer(sig_ts, mem[s]) THEN [mem EXCEPT ![s] = sig_ts] ELSE mem

(* On the event loop: keep the newer signature for the same settings, and  *)
(* force the swarm's members to subscribe if the row is new.               *)
Merge(w) ==
    LET sub == tx[w].sub IN
    /\ tx[w].pc = "merge"
    /\ subscribers_' = Merged(subscribers_, <<sub.ns, sub.opts>>, sub.sig_ts)
    /\ queued' = (queued \/ (tx[w].new_sub /\ swarmsKnown))
    /\ tx' = [tx EXCEPT ![w] = Idle]
    /\ UNCHANGED <<now, started, requests, database, swarmsKnown, history>>

----------------------------------------------------------------------------
(* Rows are deleted with their namespaces (ON DELETE CASCADE).             *)

Delete(D) ==
    /\ rows' = [d \in Devices |-> IF d \in D THEN None ELSE rows[d]]
    /\ tx' = Overlapping(D)
    /\ acked' = [d \in Devices |-> IF d \in D THEN None ELSE acked[d]]

remove_subscription(d) ==
    /\ Delete({d})
    /\ UNCHANGED <<now, requests, nextId, memory, unmerged>>

on_drop_registrations(D) ==
    /\ Delete(D)
    /\ UNCHANGED <<now, requests, nextId, memory, unmerged>>

Expired(d) == rows[d] # None /\ rows[d].sig_ts <= now - SIGNATURE_EXPIRY

db_cleanup ==
    /\ Delete({d \in Devices : Expired(d)})
    /\ UNCHANGED <<now, requests, nextId, memory, unmerged>>

----------------------------------------------------------------------------
(* on_sns_response has found a change: every account of subscribers_ is    *)
(* added to the members of its swarm again (module Swarms).                *)
Recheck ==
    /\ swarmsKnown' = TRUE
    /\ queued' = (\E s \in Settings : subscribers_[s] # NoSig)
    /\ UNCHANGED <<now, started, requests, tx, database, subscribers_, history>>

LoadNewest(D, s) ==
    CHOOSE d \in D : <<rows[d].ns, rows[d].opts>> = s /\
        \A c \in D : <<rows[c].ns, rows[c].opts>> = s => rows[c].sig_ts <= rows[d].sig_ts

(* Rows that load_saved_subscriptions takes: not about to expire. *)
Loaded(left) ==
    {d \in left : /\ rows[d].sig_ts > now - SIGNATURE_EXPIRY + LoadMargin
                  /\ rows[d].sig_ts < now + SIGNATURE_EARLY}

(* The process dies anywhere and starts again: clean up, then load the     *)
(* newest signature of each settings, before anything else runs.           *)
CrashAndRestart ==
    LET left == {d \in Devices : rows[d] # None /\ ~Expired(d)}
        D == Loaded(left)
        With(s) == {d \in D : <<rows[d].ns, rows[d].opts>> = s}
    IN  /\ rows' = [d \in Devices |-> IF d \in left THEN rows[d] ELSE None]
        /\ subscribers_' =
              [s \in Settings |->
                  IF With(s) = {} THEN NoSig ELSE rows[LoadNewest(D, s)].sig_ts]
        /\ acked' = [d \in Devices |-> IF d \in left THEN acked[d] ELSE None]
        /\ unmerged' = {rows[d].id : d \in left \ D}
        /\ tx' = [w \in Workers |-> Idle]
        /\ started' = now /\ swarmsKnown' = FALSE /\ queued' = FALSE
        /\ UNCHANGED <<now, requests, nextId>>

----------------------------------------------------------------------------
add_subscription(w) ==
    \/ \E d \in Devices, sub \in Subscription : Select(w, d, sub)
    \/ Commit(w) \/ CommitInDoubt(w) \/ TxFails(w) \/ Merge(w)

Next ==
    \/ Tick
    \/ \E w \in Workers : add_subscription(w)
    \/ \E d \in Devices : remove_subscription(d)
    \/ \E D \in SUBSET Devices : on_drop_registrations(D)
    \/ db_cleanup
    \/ Recheck
    \/ CrashAndRestart

Spec == Init /\ [][Next]_vars

----------------------------------------------------------------------------
(* Properties.                                                             *)

Merging(w, s, sig_ts) ==
    /\ tx[w].pc = "merge" /\ <<tx[w].sub.ns, tx[w].sub.opts>> = s
    /\ tx[w].sub.sig_ts >= sig_ts

(* Memory is never behind the database: the signature kept for the         *)
(* settings of a committed row is at least as new as the row's, or a       *)
(* thread is about to merge one that is, over any interleaving of          *)
(* subscribers, deletions and restarts.  Rows whose COMMIT was in doubt,   *)
(* rows that were about to expire when the server loaded, and rows whose   *)
(* namespaces are not those signed, are the exceptions                     *)
(* (hivemind.cpp:1811-1843 and 1950-1968).                                 *)
NewestInMemory ==
    \A d \in Devices :
        LET r == rows[d] IN
        r # None /\ r.id \notin unmerged /\ r.signed = r.ns =>
            \/ subscribers_[<<r.ns, r.opts>>] # NoSig
               /\ subscribers_[<<r.ns, r.opts>>] >= r.sig_ts
            \/ \E w \in Workers : Merging(w, <<r.ns, r.opts>>, r.sig_ts)

(* An account that has a subscription in memory is in the queues of its    *)
(* swarm's members, so that it is renewed, once the swarms are known;      *)
(* unless the thread that inserted the row has yet to merge, or memory     *)
(* missed a row (hivemind.cpp:1970-1977).                                  *)
MonitoredOnceMerged ==
    swarmsKnown /\ (\E s \in Settings : subscribers_[s] # NoSig) =>
        \/ queued
        \/ \E w \in Workers : tx[w].pc = "merge" /\ tx[w].new_sub
        \/ unmerged # {}

(* The row that the acknowledged transaction wrote is there, and its       *)
(* signature covers its namespaces.                                        *)
Stored(d) ==
    rows[d] # None /\ rows[d].id = acked[d].id /\ rows[d].signed = rows[d].ns

(* add_subscription replaces the details of the device's subscription, or  *)
(* adds one (hivemind.hpp:310-312): those of the last subscription that    *)
(* was acknowledged are the ones stored, over deletions and restarts,      *)
(* provided nobody else changed the row between the read and the write of  *)
(* the transaction that acknowledged it (hivemind.cpp:1878-1948).          *)
StoredUnlessOverlapped ==
    \A d \in Devices : acked[d] # None /\ ~acked[d].overlapped => Stored(d)
=============================================================================
