----------------------------- MODULE MCRequests -----------------------------
(* Small instances of Requests for TLC. *)
EXTENDS Requests, TLC

CONSTANTS r1, r2, s1, s2

ServicePerElement == [e \in Elements |-> IF e = 1 THEN s1 ELSE s2]

(* r1 is a list, r2 a single object. *)
Small == size'[r2] <= 1

MCNext == Next /\ Small

MCLiveSpec ==
    /\ Init /\ [][MCNext]_vars
    /\ WF_vars(NotifierWaitPasses)
    /\ WF_vars(Startup)
    /\ \A r \in Requests : WF_vars(Handler(r) /\ Small)
    /\ \A r \in Requests, e \in Elements : WF_vars(Callback(r, e))
=============================================================================
