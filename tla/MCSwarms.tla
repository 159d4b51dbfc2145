------------------------------ MODULE MCSwarms ------------------------------
(* Bounded instances of Swarms for TLC. *)
EXTENDS Swarms, TLC

CONSTANTS
    MaxResponses,    \* get_service_nodes responses
    MaxTxns,         \* subscriptions and unsubscriptions
    MaxEvents,       \* lost connections, entries whose time comes, old signatures
    a1, a2, n1, n2, s1, s2

VARIABLES responses, events

mcVars == <<vars, responses, events>>

(* Two accounts in different parts of the ring. *)
TwoPositions == a1 :> 1 @@ a2 :> 5
OnePosition == a1 :> 1

MCInit == Init /\ responses = 0 /\ events = 0

MCResponse ==
    /\ responses < MaxResponses /\ responses' = responses + 1
    /\ Response \/ ResponseThrows
    /\ UNCHANGED events

MCTransaction ==
    /\ txns < MaxTxns
    /\ Transaction
    /\ UNCHANGED <<responses, events>>

MCEvent ==
    /\ events < MaxEvents /\ events' = events + 1
    /\ \/ \E n \in Nodes : on_disconnected(n)
       \/ \E n \in Nodes, a \in Accounts : ResubscribeTime(n, a)
       \/ \E a \in Accounts, s \in Settings : SignatureExpires(a, s)
       \/ \E m \in merges : MergeAdd(m, TRUE)
    /\ UNCHANGED responses

MCLoop ==
    /\ \/ CheckSubs
       \/ \E m \in merges : MergeAdd(m, FALSE)
       \/ \E n \in Nodes : on_connected(n)
    /\ UNCHANGED <<responses, events>>

MCNext == MCResponse \/ MCTransaction \/ MCEvent \/ MCLoop

MCSpec == MCInit /\ [][MCNext]_mcVars

Symmetry == Permutations(Nodes) \cup Permutations(Settings)
=============================================================================
