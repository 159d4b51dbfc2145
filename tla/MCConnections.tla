--------------------------- MODULE MCConnections ---------------------------
(* Bounded instances of Connections for TLC. *)
EXTENDS Connections

CONSTANTS
    MaxResponses,  \* get_service_nodes responses
    MaxFailures,   \* failed attempts and lost connections
    n1, n2, n3, x, y

VARIABLES responses, failures

mcVars == <<vars, responses, failures>>

MCInit == Init /\ responses = 0 /\ failures = 0

Response ==
    /\ responses < MaxResponses /\ responses' = responses + 1
    /\ \E v \in Views, c \in BOOLEAN : SnsResponse(v, c)
    /\ UNCHANGED failures

Failure ==
    /\ failures < MaxFailures /\ failures' = failures + 1
    /\ \E n \in Nodes : on_disconnected_failed(n) \/ on_disconnected_lost(n)
    /\ UNCHANGED responses

Established(n) == on_connected(n) /\ UNCHANGED <<responses, failures>>
Cooled(n) == CooldownPasses(n) /\ UNCHANGED <<responses, failures>>
Timer == check_subs /\ UNCHANGED <<responses, failures>>
Handle == Handling /\ UNCHANGED <<responses, failures>>

MCNext ==
    \/ Response \/ Failure \/ Timer \/ Handle
    \/ \E n \in Nodes : Established(n) \/ Cooled(n)

MCSpec == MCInit /\ [][MCNext]_mcVars

(* The event loop runs its handlers and its timer, cooldowns pass, and an  *)
(* attempt ends, here by succeeding once the failures are used up.         *)
MCLiveSpec ==
    /\ MCSpec
    /\ WF_mcVars(Handle) /\ WF_mcVars(Timer)
    /\ \A n \in Nodes : WF_mcVars(Established(n)) /\ WF_mcVars(Cooled(n))

(* Once the network view and the nodes stay put, every known node ends up  *)
(* connected, however few attempts are allowed at once                     *)
(* (hivemind.cpp:1656-1709, snode.cpp:41-64).                              *)
EventuallyConnected == <>[](\A n \in sns_ : conn_[n] = "open")
============================================================================
