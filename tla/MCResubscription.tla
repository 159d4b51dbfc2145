-------------------------- MODULE MCResubscription --------------------------
(* Bounded instances of Resubscription for TLC. *)
EXTENDS Resubscription

CONSTANTS
    MaxClock,
    MaxAdds,      \* calls of add_account
    MaxRemovals,  \* removals of accounts, and lost connections
    a1, a2

VARIABLES adds, removals

mcVars == <<vars, adds, removals>>

(* One account with two subscriptions. *)
TwoOfOne == [a \in Accounts |-> IF a = a1 THEN 2 ELSE 1]

MCInit == Init /\ adds = 0 /\ removals = 0

Adds ==
    /\ adds < MaxAdds /\ adds' = adds + 1
    /\ \E a \in Accounts, force_now \in BOOLEAN : add_account(a, force_now)
    /\ UNCHANGED removals

Removes ==
    /\ removals < MaxRemovals /\ removals' = removals + 1
    /\ \/ reset_swarm
       \/ \E gone \in SUBSET subs_ : remove_stale_swarm_members(gone)
       \/ on_disconnected
    /\ UNCHANGED adds

Timer == TimerCheck /\ UNCHANGED <<adds, removals>>
Again == CheckAgain /\ UNCHANGED <<adds, removals>>
Connects == on_connected /\ UNCHANGED <<adds, removals>>
Answers ==
    /\ \E r \in Requests : MonitorAccepted(r) \/ MonitorFails(r)
    /\ UNCHANGED <<adds, removals>>
Time == clock < MaxClock /\ Tick /\ UNCHANGED <<adds, removals>>

MCNext == Adds \/ Removes \/ Timer \/ Again \/ Connects \/ Answers \/ Time

(* Weak fairness of the timer, written out with the condition under which  *)
(* it changes something; TLC is slow at finding it out by itself.          *)
TimerHasWork == connected_ /\ DrainLength(next_) > 0
TimerFair == []<>~TimerHasWork \/ []<><<Timer>>_mcVars

MCSpec == MCInit /\ [][MCNext]_mcVars

(* The timer keeps firing. *)
MCLiveSpec == MCSpec /\ TimerFair

(* The account was submitted over the connection of now, and its renewal   *)
(* is to come.                                                             *)
UpToDate(a) == a \in subs_ /\ takenAt[a] # None /\ DueOf(next_, subs_)[a] > clock

(* Under a connection that lasts, an account that stays on the node's list *)
(* is submitted over that connection, and again whenever its renewal is    *)
(* due, however many wait in front of it and whatever the responses are    *)
(* (snode.cpp:88-105 and 303-360, hivemind.cpp:1656-1666).                 *)
EventuallySubmitted ==
    \A a \in Accounts : <>[](connected_ /\ a \in subs_) => []<>UpToDate(a)
=============================================================================
