----------------------------- MODULE Notifiers -----------------------------
(***************************************************************************)
(* The notifier processes, from the push that HiveMind hands over to the   *)
(* statistics that come back (spns/notifiers/apns.py, huawei.py, util.py;  *)
(* spns/hivemind.cpp: on_service_stats, increment_stat).                   *)
(*                                                                         *)
(* apns runs one coroutine per push, which retries.  huawei queues pushes  *)
(* and sends them from a timer thread.  Both count outcomes in NotifyStats *)
(* and report the counts every few seconds.  Payloads, encryption and the  *)
(* rates per day are left out.                                             *)
(***************************************************************************)
EXTENDS Integers, Sequences, FiniteSets, Functions

CONSTANTS
    Pushes,
    ServiceOf,     \* the notifier each push is for
    MAX_RETRIES,
    Reports,       \* bound: names for a service's reports on their way
    None,          \* no report of that name is on its way
    MaxCrashes     \* bound: crashes of each notifier

Services == {"apns", "huawei"}
PushesOf(s) == {p \in Pushes : ServiceOf[p] = s}

Counters == {"notifies", "notify_retries", "failures"}
Counts == [Counters -> Nat]
Zero == [f \in Counters |-> 0]
Plus(a, b) == [f \in Counters |-> a[f] + b[f]]

(* Where the counts of a push may be, besides in a report on its way. *)
Places == {"nowhere", "stats", "table", "lost"}

ASSUME NotifierAssumptions ==
    /\ IsFiniteSet(Pushes) /\ ServiceOf \in [Pushes -> Services]
    /\ MAX_RETRIES \in Nat /\ MaxCrashes \in Nat
    /\ Reports \cap Places = {} /\ None \notin Counts

VARIABLES
    push,          \* where each push is
    retries,       \* local variable of apns_notify
    notify_queue,  \* huawei: pushes to send
    queue,         \* huawei: what send_pending has taken
    stats,         \* NotifyStats of each notifier
    transit,       \* reports on their way to HiveMind
    service_stats, \* the table, for each service
    crashes,       \* crashes so far
    attempts,      \* history: how often each push was tried
    counted        \* history: where the counts of each push are

work == <<push, retries, notify_queue, queue, attempts>>
counting == <<stats, transit, service_stats, counted>>
vars == <<work, counting, crashes>>

(* A push that was sent was accepted by the remote service, one that was   *)
(* refused was answered with an error code that the notifier ignores.      *)
PushStates == {"new", "queued", "sending", "sleeping", "sent", "refused", "failed", "lost"}

TypeOK ==
    /\ push \in [Pushes -> PushStates]
    /\ retries \in [Pushes -> Nat]
    /\ notify_queue \in Seq(PushesOf("huawei")) /\ queue \in Seq(PushesOf("huawei"))
    /\ stats \in [Services -> Counts]
    /\ transit \in [Services -> [Reports -> Counts \cup {None}]]
    /\ service_stats \in [Services -> Counts]
    /\ crashes \in [Services -> Nat]
    /\ attempts \in [Pushes -> Nat]
    /\ counted \in [Pushes -> Places \cup Reports]

Init ==
    /\ push = [p \in Pushes |-> "new"]
    /\ retries = [p \in Pushes |-> MAX_RETRIES]
    /\ notify_queue = <<>> /\ queue = <<>>
    /\ stats = [s \in Services |-> Zero]
    /\ transit = [s \in Services |-> [r \in Reports |-> None]]
    /\ service_stats = [s \in Services |-> Zero]
    /\ crashes = [s \in Services |-> 0]
    /\ attempts = [p \in Pushes |-> 0]
    /\ counted = [p \in Pushes |-> "nowhere"]

(* The push p of the service s ends, and the counters F of the service go up. *)
Count(s, p, F) ==
    /\ stats' = [stats EXCEPT ![s] = [f \in Counters |-> @[f] + (IF f \in F THEN 1 ELSE 0)]]
    /\ counted' = [counted EXCEPT ![p] = "stats"]

(* All that is counted for s at one place is now at another. *)
Shift(s, from, to) ==
    counted' = [p \in Pushes |-> IF p \in PushesOf(s) /\ counted[p] = from THEN to ELSE counted[p]]

Moves(p, from, to) == push[p] = from /\ push' = [push EXCEPT ![p] = to]

----------------------------------------------------------------------------
(* apns: push_notification starts a coroutine, apns_notify.                *)

ApnsPush(p) ==
    /\ p \in PushesOf("apns") /\ Moves(p, "new", "sending")
    /\ UNCHANGED <<retries, notify_queue, queue, attempts, counting, crashes>>

Tried(p) == attempts' = [attempts EXCEPT ![p] = @ + 1]

Retried(p) == retries[p] < MAX_RETRIES

ApnsSucceeds(p) ==
    /\ p \in PushesOf("apns") /\ Moves(p, "sending", "sent") /\ Tried(p)
    /\ Count("apns", p, {"notifies"} \cup (IF Retried(p) THEN {"notify_retries"} ELSE {}))
    /\ UNCHANGED <<retries, notify_queue, queue, transit, service_stats, crashes>>

(* The token is bad, or no retry is left. *)
ApnsGivesUp(p) ==
    /\ p \in PushesOf("apns") /\ Moves(p, "sending", "failed") /\ Tried(p)
    /\ Count("apns", p, {"failures"})
    /\ UNCHANGED <<retries, notify_queue, queue, transit, service_stats, crashes>>

MayRetry(p) == retries[p] > 0

ApnsRetries(p) ==
    /\ p \in PushesOf("apns") /\ MayRetry(p) /\ Moves(p, "sending", "sleeping") /\ Tried(p)
    /\ retries' = [retries EXCEPT ![p] = @ - 1]
    /\ UNCHANGED <<notify_queue, queue, counting, crashes>>

ApnsWakes(p) ==
    /\ Moves(p, "sleeping", "sending")
    /\ UNCHANGED <<retries, notify_queue, queue, attempts, counting, crashes>>

(* send_notification raises: the coroutine ends, nothing is counted. *)
ApnsRaises(p) ==
    /\ p \in PushesOf("apns") /\ Moves(p, "sending", "lost") /\ Tried(p)
    /\ UNCHANGED <<retries, notify_queue, queue, counting, crashes>>

----------------------------------------------------------------------------
(* huawei                                                                  *)

HuaweiPush(p) ==
    /\ p \in PushesOf("huawei") /\ Moves(p, "new", "queued")
    /\ notify_queue' = Append(notify_queue, p)
    /\ UNCHANGED <<retries, queue, attempts, counting, crashes>>

(* Seeded fault: at most one push is taken, and the queue is cleared. *)
FaultTakeOne ==
    /\ queue = <<>> /\ notify_queue # <<>>
    /\ queue' = <<Head(notify_queue)>> /\ notify_queue' = <<>>
    /\ UNCHANGED <<push, retries, attempts, counting, crashes>>

(* send_pending: one run at a time, on the timer's own thread. *)
TakePending ==
    /\ queue = <<>> /\ notify_queue # <<>>
    /\ queue' = notify_queue /\ notify_queue' = <<>>
    /\ UNCHANGED <<push, retries, attempts, counting, crashes>>

(* send_message returns what a response with status 200 says, success or   *)
(* error code; send_pending does not look at it.                           *)
SendNext(outcome) ==
    /\ queue # <<>>
    /\ Moves(Head(queue), "queued", outcome) /\ Tried(Head(queue))
    /\ queue' = Tail(queue)
    /\ Count("huawei", Head(queue), {"notifies"})
    /\ UNCHANGED <<retries, notify_queue, transit, service_stats, crashes>>

(* send_message raises if there is no response, or one with another        *)
(* status: warn_on_except ends the run, and the rest of what it took goes  *)
(* with it.  No failure is counted.                                        *)
SendRaises ==
    /\ queue # <<>>
    /\ push' = [p \in Pushes |-> IF p \in Range(queue) THEN "lost" ELSE push[p]]
    /\ Tried(Head(queue))
    /\ queue' = <<>>
    /\ UNCHANGED <<retries, notify_queue, counting, crashes>>

----------------------------------------------------------------------------
(* Reports.                                                                *)

(* Seeded fault: the counts are not reset. *)
FaultCollect(s, r) ==
    /\ transit' = [transit EXCEPT ![s][r] = stats[s]]
    /\ UNCHANGED stats

collect(s, r) ==
    /\ transit' = [transit EXCEPT ![s][r] = stats[s]]
    /\ stats' = [stats EXCEPT ![s] = Zero]

ping(s, r) ==
    /\ transit[s][r] = None
    /\ collect(s, r) /\ Shift(s, "stats", r)
    /\ UNCHANGED <<work, service_stats, crashes>>

Received(s, r) == transit[s][r] # None /\ transit' = [transit EXCEPT ![s][r] = None]

(* Reports are handled on any worker thread, so in any order; the          *)
(* increments of a report are one transaction.                             *)
on_service_stats(s, r) ==
    /\ Received(s, r) /\ Shift(s, r, "table")
    /\ service_stats' = [service_stats EXCEPT ![s] = Plus(@, transit[s][r])]
    /\ UNCHANGED <<work, stats, crashes>>

(* The transaction fails, or the message is lost with HiveMind. *)
ReportFails(s, r) ==
    /\ Received(s, r) /\ Shift(s, r, "lost")
    /\ UNCHANGED <<work, stats, service_stats, crashes>>

(* The notifier dies and starts again: pushes and counts in memory go. *)
Crash(s) ==
    /\ crashes[s] < MaxCrashes /\ crashes' = [crashes EXCEPT ![s] = @ + 1]
    /\ push' = [p \in Pushes |->
                    IF p \in PushesOf(s) /\ push[p] \in {"queued", "sending", "sleeping"}
                    THEN "lost" ELSE push[p]]
    /\ IF s = "huawei" THEN queue' = <<>> /\ notify_queue' = <<>>
                       ELSE UNCHANGED <<queue, notify_queue>>
    /\ stats' = [stats EXCEPT ![s] = Zero] /\ Shift(s, "stats", "lost")
    /\ UNCHANGED <<retries, attempts, transit, service_stats>>

----------------------------------------------------------------------------
apns_notify(p) ==
    ApnsSucceeds(p) \/ ApnsGivesUp(p) \/ ApnsRetries(p) \/ ApnsWakes(p) \/ ApnsRaises(p)

send_pending ==
    TakePending \/ (\E outcome \in {"sent", "refused"} : SendNext(outcome)) \/ SendRaises

Handled(s, r) == on_service_stats(s, r) \/ ReportFails(s, r)

Next ==
    \/ \E p \in Pushes : ApnsPush(p) \/ apns_notify(p) \/ HuaweiPush(p)
    \/ send_pending
    \/ \E s \in Services, r \in Reports : ping(s, r) \/ Handled(s, r)
    \/ \E s \in Services : Crash(s)

Spec == Init /\ [][Next]_vars

(* Fairness: coroutines and the timer thread run, and every attempt ends,  *)
(* one way or the other.                                                   *)
Fairness ==
    /\ \A p \in Pushes : WF_vars(apns_notify(p))
    /\ WF_vars(send_pending)

LiveSpec == Spec /\ Fairness

----------------------------------------------------------------------------
(* Properties.                                                             *)

(* What the counter f says about the push p: a push that huawei's service  *)
(* refused is one of its notifies.                                         *)
Shows(p, f) ==
    \/ f = "notifies" /\ push[p] \in {"sent", "refused"}
    \/ f = "notify_retries" /\ push[p] = "sent" /\ attempts[p] > 1
    \/ f = "failures" /\ push[p] = "failed"

Tally(s, place) ==
    [f \in Counters |-> Cardinality({p \in PushesOf(s) : counted[p] = place /\ Shows(p, f)})]

(* The statistics add up: each outcome is counted once, and what the       *)
(* notifier holds, what each report on its way says and what the table     *)
(* says are exactly the outcomes that are counted there.  None is counted  *)
(* twice, over crashes, failed reports and reports in any order; the ones  *)
(* that no number speaks of are those that went with a crash or a failed   *)
(* report (util.py:81-124, apns.py:133-162, hivemind.cpp:850-866).         *)
StatsAddUp ==
    /\ \A p \in Pushes : push[p] \in {"sent", "refused", "failed"} <=> counted[p] # "nowhere"
    /\ \A s \in Services :
        /\ stats[s] = Tally(s, "stats") /\ service_stats[s] = Tally(s, "table")
        /\ \A r \in Reports :
            (IF transit[s][r] = None THEN Zero ELSE transit[s][r]) = Tally(s, r)

(* A push is never forgotten: each one that a notifier has accepted is     *)
(* sent, refused, given up after at most MAX_RETRIES retries, or lost with *)
(* an exception or a crash, also one that is queued while send_pending     *)
(* sends (apns.py:132-162, huawei.py:85-104).                              *)
EventuallySettled ==
    \A p \in Pushes : push[p] # "new" ~> push[p] \in {"sent", "refused", "failed", "lost"}
=============================================================================
