--------------------------- MODULE RenewalService ---------------------------
(***************************************************************************)
(* What the renewal queue of a service node promises: it remembers for     *)
(* each account of the node when it is due, and over a connection it       *)
(* renews the accounts that are due, the earliest ones first, each for a   *)
(* random time that is neither too short nor too long.  There is no queue, *)
(* no lazy deletion and no sorting.  Module Resubscription implements this.*)
(***************************************************************************)
EXTENDS Naturals

CONSTANTS Accounts, None, RESUBSCRIBE_MIN, RESUBSCRIBE_MAX

VARIABLES
    clock,
    connected,
    dueAt,      \* when each account is due, or None if it is not the node's
    renewedAt   \* when it was last renewed over this connection, or None

vars == <<clock, connected, dueAt, renewedAt>>

Nothing == [a \in Accounts |-> None]

Init ==
    /\ clock = 1 /\ connected = FALSE
    /\ dueAt = Nothing /\ renewedAt = Nothing

(* An account is new, or has a new subscription: it is due at once. *)
Demand(a) ==
    /\ dueAt' = [dueAt EXCEPT ![a] = 0]
    /\ UNCHANGED <<clock, connected, renewedAt>>

(* Accounts leave the node. *)
Dismiss(S) ==
    /\ dueAt' = [a \in Accounts |-> IF a \in S THEN None ELSE dueAt[a]]
    /\ UNCHANGED <<clock, connected, renewedAt>>

(* The accounts S, which are due, are renewed, and no other account has    *)
(* waited longer than one of them.                                         *)
Renew(S, due) ==
    /\ \A a \in S : due[a] # None /\ due[a] <= clock
    /\ \A a \in S, b \in Accounts \ S : due[b] # None => due[a] <= due[b]
    /\ \E delay \in [S -> RESUBSCRIBE_MIN..RESUBSCRIBE_MAX] :
        dueAt' = [a \in Accounts |-> IF a \in S THEN clock + delay[a] ELSE due[a]]
    /\ renewedAt' = [a \in Accounts |-> IF a \in S THEN clock ELSE renewedAt[a]]
    /\ UNCHANGED clock

Check ==
    /\ connected /\ UNCHANGED connected
    /\ \E S \in SUBSET Accounts : Renew(S, dueAt)

(* A new connection knows of no subscription: all accounts are due. *)
AllDue == [a \in Accounts |-> IF dueAt[a] = None THEN None ELSE 0]

Connect ==
    /\ ~connected /\ connected' = TRUE
    /\ \E S \in SUBSET Accounts : Renew(S, AllDue)

Disconnect ==
    /\ connected /\ connected' = FALSE
    /\ renewedAt' = Nothing
    /\ UNCHANGED <<clock, dueAt>>

Tick ==
    /\ clock' = clock + 1
    /\ UNCHANGED <<connected, dueAt, renewedAt>>

Next ==
    \/ \E a \in Accounts : Demand(a)
    \/ \E S \in SUBSET Accounts : Dismiss(S)
    \/ Check \/ Connect \/ Disconnect \/ Tick

Spec == Init /\ [][Next]_vars
=============================================================================
