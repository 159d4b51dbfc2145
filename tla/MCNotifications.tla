-------------------------- MODULE MCNotifications --------------------------
(* Bounded instances of Notifications for TLC. *)
EXTENDS Notifications

CONSTANTS
    MaxTime,      \* last value of now
    MaxAccepted,  \* notifications received over all restarts
    MaxCommits,   \* changes of the subscription rows by other threads
    MaxCrashes

VARIABLES commits, crashes

mcVars == <<vars, commits, crashes>>

MCInit == Init /\ commits = 0 /\ crashes = 0

BoundedTick == now < MaxTime /\ Tick /\ UNCHANGED <<commits, crashes>>

BoundedCommitRow ==
    /\ commits < MaxCommits /\ commits' = commits + 1
    /\ \E k \in RowKeys, nss \in SUBSET Namespaces : CommitRow(k, nss)
    /\ UNCHANGED crashes

BoundedCrash ==
    /\ crashes < MaxCrashes /\ crashes' = crashes + 1
    /\ CrashAndRestart
    /\ UNCHANGED commits

BoundedNotification ==
    /\ acceptedTotal < MaxAccepted
    /\ \E m \in Messages \cup {Junk} : on_message_notification(m)
    /\ UNCHANGED <<commits, crashes>>

Registration ==
    /\ \E s \in Services \ services_ : on_reg_service(s)
    /\ UNCHANGED <<commits, crashes>>

Processing == process_notifications /\ UNCHANGED <<commits, crashes>>

MCNext ==
    \/ Processing \/ BoundedTick \/ BoundedCommitRow \/ BoundedCrash
    \/ BoundedNotification \/ Registration

MCSpec == MCInit /\ [][MCNext]_mcVars

(* The notification thread and the event loop keep running.  Crashes,      *)
(* commits, registrations and traffic may stop at any time.                *)
MCLiveSpec == MCSpec /\ WF_mcVars(Processing)

----------------------------------------------------------------------------
CONSTANTS a1, h1, s1, d1, junk

OneMessage == {[account |-> a1, ns |-> 0, hash |-> h1]}
============================================================================
