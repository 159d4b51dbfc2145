--------------------------- MODULE Notifications ---------------------------
(***************************************************************************)
(* The notification path of HiveMind: storage servers push message         *)
(* notifications over QUIC, the event loop hands them to the notification  *)
(* thread through an inproc zmq socket, and that thread collects them into *)
(* batches which it runs back on the event loop.  A batch looks up the     *)
(* subscribed devices, filters the duplicates that the other members of    *)
(* the swarm deliver, and forwards the rest to the notifier services       *)
(* (spns/hivemind.cpp: on_message_notification, process_notifications).    *)
(*                                                                         *)
(* Two threads are modelled: the notification thread (pc) and the event    *)
(* loop (loop).  Rows of the database change under them, because the       *)
(* transactions of other threads commit between two SELECTs of a batch.    *)
(***************************************************************************)
EXTENDS Integers, Sequences, FiniteSets

CONSTANTS
    Accounts, Namespaces, Services, SvcIds, Hashes,
    Messages,        \* well-formed notifications that swarm members push
    Junk,            \* a notification that fails to parse
    FilterLifetime,  \* config.filter_lifetime, in ticks of `now`
    MAX_BATCH,       \* most notifications in one batch
    Hwm              \* what the inproc socket buffers before a send blocks

RowKeys == Accounts \X Services \X SvcIds
FilterKeys == Services \X SvcIds \X Hashes

ASSUME NotificationAssumptions ==
    /\ Messages \subseteq [account : Accounts, ns : Namespaces, hash : Hashes]
    /\ Junk \notin Messages
    /\ IsFiniteSet(Services) /\ IsFiniteSet(SvcIds)
    /\ FilterLifetime \in Nat
    /\ MAX_BATCH \in Nat \ {0}
    /\ Hwm \in Nat \ {0}

VARIABLES
    now,                  \* steady_clock
    rows,                 \* subscriptions table: namespaces per row, {} if no row
    service_stats,        \* the service_stats rows of service ""
    services_,            \* names of the registered notifier services
    queue,                \* inproc socket; while loop = "send" the last is blocked
    pc,                   \* notification thread: "recv" or "call" (in call_get)
    flags,                \* recv flags of the notification thread
    process,              \* the batch being collected, or being run
    loop,                 \* event loop: "idle", "send" (blocked), "batch"
    todo,                 \* suffix of process the running batch has still to do
    filter_, filter_rotate_, filter_rotate_time_,
    notify_count,         \* notifications sent by the running batch
    pushes_processed_,
    accepted,             \* history: notifications received since the start
    nsent, lastSent,      \* history: how often, and when last, a key was sent
                          \*   since the start
    sentTotal, acceptedTotal  \* history: the same over all restarts

thread == <<queue, pc, flags, process>>
filters == <<filter_, filter_rotate_, filter_rotate_time_>>
database == <<rows, service_stats>>
history == <<accepted, nsent, lastSent, sentTotal, acceptedTotal>>
vars == <<now, database, services_, thread, loop, todo, filters,
          notify_count, pushes_processed_, history>>

TypeOK ==
    /\ now \in Nat
    /\ rows \in [RowKeys -> SUBSET Namespaces]
    /\ service_stats \in [notifications : Nat, pushes : Nat]
    /\ services_ \in SUBSET Services
    /\ queue \in Seq(Messages \cup {Junk})
    /\ pc \in {"recv", "call"}
    /\ flags \in {"dontwait", "none"}
    /\ process \in Seq(Messages \cup {Junk})
    /\ loop \in {"idle", "send", "batch"}
    /\ todo \in Seq(Messages \cup {Junk})
    /\ filter_ \in SUBSET FilterKeys
    /\ filter_rotate_ \in SUBSET FilterKeys
    /\ filter_rotate_time_ \in Nat
    /\ notify_count \in Nat
    /\ pushes_processed_ \in Nat
    /\ accepted \in Nat
    /\ nsent \in [FilterKeys -> Nat]
    /\ lastSent \in [FilterKeys -> Nat]
    /\ sentTotal \in Nat
    /\ acceptedTotal \in Nat

----------------------------------------------------------------------------
Init ==
    /\ now = 0
    /\ rows \in [RowKeys -> SUBSET Namespaces]
    /\ service_stats = [notifications |-> 0, pushes |-> 0]
    /\ sentTotal = 0 /\ acceptedTotal = 0
    /\ services_ = {}
    /\ queue = <<>> /\ process = <<>> /\ todo = <<>>
    /\ pc = "recv" /\ flags = "dontwait" /\ loop = "idle"
    /\ filter_ = {} /\ filter_rotate_ = {}
    /\ filter_rotate_time_ = FilterLifetime
    /\ notify_count = 0 /\ pushes_processed_ = 0
    /\ accepted = 0
    /\ nsent = [k \in FilterKeys |-> 0]
    /\ lastSent = [k \in FilterKeys |-> 0]

(* The process dies and is started again, keeping nothing but the          *)
(* database.  This is also how a database error in a batch ends: a failed  *)
(* query is caught and its notification skipped, but the transaction is    *)
(* then aborted, so that every later query and the commit fail too, and    *)
(* the exception of the commit leaves the notification thread.             *)
CrashAndRestart ==
    /\ UNCHANGED <<now, database, sentTotal, acceptedTotal>>
    /\ services_' = {}
    /\ queue' = <<>> /\ process' = <<>> /\ todo' = <<>>
    /\ pc' = "recv" /\ flags' = "dontwait" /\ loop' = "idle"
    /\ filter_' = {} /\ filter_rotate_' = {}
    /\ filter_rotate_time_' = now + FilterLifetime
    /\ notify_count' = 0 /\ pushes_processed_' = 0
    /\ accepted' = 0
    /\ nsent' = [k \in FilterKeys |-> 0]
    /\ lastSent' = [k \in FilterKeys |-> 0]

Tick ==
    /\ now' = now + 1
    /\ UNCHANGED <<database, services_, thread, loop, todo, filters,
                   notify_count, pushes_processed_, history>>

(* Another thread's transaction commits: add_subscription (a row with some *)
(* namespaces), remove_subscription, drop_registrations or db_cleanup (no  *)
(* row).                                                                   *)
CommitRow(k, nss) ==
    /\ rows' = [rows EXCEPT ![k] = nss]
    /\ UNCHANGED <<now, service_stats, services_, thread, loop, todo, filters,
                   notify_count, pushes_processed_, history>>

on_reg_service(s) ==
    /\ loop = "idle"
    /\ services_' = services_ \cup {s}
    /\ UNCHANGED <<now, database, thread, loop, todo, filters,
                   notify_count, pushes_processed_, history>>

(* A QUIC callback on the event loop.  The send on the inproc socket       *)
(* blocks the loop when the socket already buffers Hwm notifications.      *)
on_message_notification(m) ==
    /\ loop = "idle"
    /\ queue' = Append(queue, m)
    /\ loop' = IF Len(queue) < Hwm THEN "idle" ELSE "send"
    /\ accepted' = accepted + 1
    /\ acceptedTotal' = acceptedTotal + 1
    /\ UNCHANGED <<now, database, services_, pc, flags, process, todo, filters,
                   notify_count, pushes_processed_, nsent, lastSent, sentTotal>>

----------------------------------------------------------------------------
(* The receive loop of the notification thread.                            *)

(* Seeded fault: only a full batch is run. *)
FaultFullBatchOnly(fl, p) == p # <<>> /\ Len(p) >= MAX_BATCH

(* Keep going until we either would block, or hit MAX_BATCH. *)
BatchIsReady(fl, p) == p # <<>> /\ (fl = "none" \/ Len(p) >= MAX_BATCH)

Receive ==
    /\ pc = "recv" /\ queue # <<>>
    /\ queue' = Tail(queue)
    /\ process' = Append(process, Head(queue))
    /\ flags' = "dontwait"
    /\ pc' = IF BatchIsReady("dontwait", process') THEN "call" ELSE "recv"
    /\ loop' = IF loop = "send" THEN "idle" ELSE loop
    /\ UNCHANGED <<now, database, services_, todo, filters,
                   notify_count, pushes_processed_, history>>

(* With flags = "none" the thread sleeps in recv instead. *)
ReceiveNothing ==
    /\ pc = "recv" /\ queue = <<>> /\ flags = "dontwait"
    /\ flags' = "none"
    /\ pc' = IF BatchIsReady("none", process) THEN "call" ELSE "recv"
    /\ UNCHANGED <<now, database, services_, queue, process, loop, todo,
                   filters, notify_count, pushes_processed_, history>>

----------------------------------------------------------------------------
(* A batch, on the event loop.                                             *)

(* Seeded fault: the filter is dropped instead of rotated. *)
FaultDropFilter ==
    IF now >= filter_rotate_time_
    THEN /\ filter_rotate_' = {}
         /\ filter_' = {}
         /\ filter_rotate_time_' = now + FilterLifetime
    ELSE UNCHANGED filters

(* Seeded fault: the old filter is copied, and not cleared. *)
FaultCopyFilter ==
    IF now >= filter_rotate_time_
    THEN /\ filter_rotate_' = filter_
         /\ filter_' = filter_
         /\ filter_rotate_time_' = now + FilterLifetime
    ELSE UNCHANGED filters

RotateFilter ==
    IF now >= filter_rotate_time_
    THEN /\ filter_rotate_' = filter_
         /\ filter_' = {}
         /\ filter_rotate_time_' = now + FilterLifetime
    ELSE UNCHANGED filters

BatchBegin ==
    /\ pc = "call" /\ loop = "idle"
    /\ loop' = "batch"
    /\ RotateFilter
    /\ todo' = process
    /\ notify_count' = 0
    /\ UNCHANGED <<now, database, services_, thread, pushes_processed_, history>>

(* Seeded fault: the service is left out of the filter key. *)
FaultKeyWithoutService(m) ==
    {<<k[3], m.hash>> : k \in {r \in RowKeys : r[1] = m.account /\ m.ns \in rows[r]}}

(* Every matching row stands for one device to notify. *)
FilterKeysOf(m) ==
    {<<k[2], k[3], m.hash>> : k \in {r \in RowKeys : r[1] = m.account /\ m.ns \in rows[r]}}

(* Seeded fault: the rotated filter is not consulted. *)
FaultOneFilter(m) == FilterKeysOf(m) \ filter_

Unfiltered(m) == FilterKeysOf(m) \ (filter_ \cup filter_rotate_)

(* The filter remembers a key before the service is looked up. *)
Forwarded(m) == {k \in Unfiltered(m) : k[1] \in services_}

(* One notification of the batch.  Building the message for a notifier     *)
(* cannot fail (hivemind.cpp:792-796): the buffer is at least as large as  *)
(* the sum of what each field can take.                                    *)
BatchNotify ==
    /\ loop = "batch" /\ todo # <<>> /\ Head(todo) # Junk
    /\ LET m == Head(todo) IN
        /\ filter_' = filter_ \cup Unfiltered(m)
        /\ nsent' = [k \in FilterKeys |->
                        IF k \in Forwarded(m) THEN nsent[k] + 1 ELSE nsent[k]]
        /\ lastSent' = [k \in FilterKeys |->
                        IF k \in Forwarded(m) THEN now ELSE lastSent[k]]
        /\ notify_count' = notify_count + Cardinality(Forwarded(m))
        /\ sentTotal' = sentTotal + Cardinality(Forwarded(m))
    /\ todo' = Tail(todo)
    /\ UNCHANGED <<now, database, services_, thread, loop, filter_rotate_,
                   filter_rotate_time_, pushes_processed_, accepted, acceptedTotal>>

BatchSkipJunk ==
    /\ loop = "batch" /\ todo # <<>> /\ Head(todo) = Junk
    /\ todo' = Tail(todo)
    /\ UNCHANGED <<now, database, services_, thread, loop, filters,
                   notify_count, pushes_processed_, history>>

(* Seeded fault: a batch is counted as a full one. *)
FaultCountFullBatch == [notifications |-> service_stats.notifications + notify_count,
                        pushes |-> service_stats.pushes + MAX_BATCH]

CountedStats == [notifications |-> service_stats.notifications + notify_count,
                 pushes |-> service_stats.pushes + Len(process)]

(* Seeded fault: the batch is run again with the next one. *)
FaultKeepBatch == UNCHANGED process

ClearBatch == process' = <<>>

BatchCommit ==
    /\ loop = "batch" /\ todo = <<>>
    /\ service_stats' = CountedStats
    /\ pushes_processed_' = pushes_processed_ + Len(process)
    /\ ClearBatch
    /\ loop' = "idle" /\ pc' = "recv"
    /\ UNCHANGED <<now, rows, services_, queue, flags, todo, filters,
                   notify_count, history>>

process_notifications ==
    Receive \/ ReceiveNothing \/ BatchBegin \/ BatchNotify \/ BatchSkipJunk \/ BatchCommit

Environment ==
    \/ Tick
    \/ CrashAndRestart
    \/ \E k \in RowKeys, nss \in SUBSET Namespaces : CommitRow(k, nss)
    \/ \E s \in Services : on_reg_service(s)
    \/ \E m \in Messages \cup {Junk} : on_message_notification(m)

Next == process_notifications \/ Environment

Spec == Init /\ [][Next]_vars

----------------------------------------------------------------------------
(* Properties.                                                             *)

(* A device is notified of a message once: a second notification with the  *)
(* same service, device and hash is sent by the same process only after    *)
(* filter_lifetime has passed since the previous one, whatever the swarm   *)
(* members redeliver, however batches are cut and wherever the filter is   *)
(* rotated (hivemind.cpp:636-640 and 741).                                 *)
SendRespectsFilter(k) ==
    \/ nsent'[k] = nsent[k]
    \/ nsent'[k] = 0
    \/ /\ nsent'[k] = nsent[k] + 1
       /\ nsent[k] > 0 => now >= lastSent[k] + FilterLifetime

NoEarlyDuplicate == [][\A k \in FilterKeys : SendRespectsFilter(k)]_vars

(* Why NoEarlyDuplicate holds: a key sent less than a lifetime ago is in   *)
(* filter_, or in filter_rotate_ since a rotation that came after the send *)
(* (the rotation set filter_rotate_time_ one lifetime ahead, so the next   *)
(* one, which forgets the key, comes no earlier than that).                *)
FilterRemembers ==
    /\ filter_rotate_time_ <= now + FilterLifetime
    /\ \A k \in FilterKeys : nsent[k] > 0 =>
        /\ lastSent[k] <= now
        /\ \/ k \in filter_
           \/ k \in filter_rotate_ /\ lastSent[k] + FilterLifetime <= filter_rotate_time_
           \/ lastSent[k] + FilterLifetime <= now

(* The filters forget: after a rotation filter_ starts empty, so a key in  *)
(* filter_ was sent since the last rotation, and one in filter_rotate_     *)
(* before it.  Hence a key is suppressed until the second rotation after   *)
(* it was sent and never beyond, though idle periods delay rotations       *)
(* (hivemind.cpp:636-640).                                                 *)
FilterForgets ==
    \A k \in FilterKeys : nsent[k] > 0 =>
        /\ k[1] \in services_
        /\ k \in filter_ => lastSent[k] + FilterLifetime >= filter_rotate_time_
        /\ k \in filter_rotate_ => lastSent[k] + FilterLifetime <= filter_rotate_time_

(* No notification is lost or run twice between the QUIC callback and the  *)
(* end of its batch: what the process received is what its batches have    *)
(* finished, what is being collected and what the socket buffers, and a    *)
(* running batch works on a suffix of what was collected                   *)
(* (hivemind.cpp:589-598, 608-633 and 808-814).                            *)
NothingLost ==
    /\ accepted = pushes_processed_ + Len(process) + Len(queue)
    /\ loop = "batch" =>
        /\ pc = "call"
        /\ Len(todo) <= Len(process)
        /\ \A i \in 1..Len(todo) : todo[i] = process[Len(process) - Len(todo) + i]

(* The notification thread never sleeps in recv while it holds             *)
(* notifications it has collected: a batch that is not full does not wait  *)
(* for further traffic (hivemind.cpp:625-633).                             *)
NoSleepWithWork == (pc = "recv" /\ flags = "none") => process = <<>>

(* Statistics in the database never claim more notifications than were     *)
(* sent, nor more pushes than arrived, over any number of crashes between  *)
(* the sends of a batch and its commit (hivemind.cpp:798-813).             *)
StatsNeverOverReport ==
    /\ service_stats.notifications + (IF loop = "batch" THEN notify_count ELSE 0)
            <= sentTotal
    /\ service_stats.pushes + Len(process) + Len(queue) <= acceptedTotal

(* The event loop waits in send for the notification thread to receive,    *)
(* and that thread in call_get for the event loop.                         *)
Stalled == loop = "send" /\ pc = "call"

(* What the event loop has received is processed in the end, without any   *)
(* further traffic, unless the process dies first or the two threads block *)
(* each other (hivemind.cpp:597, 608-635).                                 *)
ProcessedUnlessStalled ==
    \A n \in 1..MAX_BATCH :
        accepted >= n ~> (pushes_processed_ >= n \/ accepted < n \/ Stalled)
============================================================================
