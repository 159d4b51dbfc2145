---------------------------- MODULE SwarmPubkey ----------------------------
(***************************************************************************)
(* One account's SwarmPubkey, whose swarm is recomputed whenever the       *)
(* network's swarms change (spns/swarmpubkey.cpp: update_swarm).           *)
(***************************************************************************)
EXTENDS SwarmSpace

VARIABLES
    swarm_space,  \* the account's position
    swarm,
    swarm_ids     \* the swarm list of the last update_swarm

pubkeyVars == <<swarm_space, swarm, swarm_ids>>

PubkeyTypeOK ==
    /\ swarm_space \in Ring
    /\ swarm \in Ring
    /\ swarm_ids \subseteq ValidIds

PubkeyInit ==
    /\ swarm_space \in Ring
    /\ swarm = INVALID_SWARM_ID
    /\ swarm_ids = {}

update_swarm(ids) ==
    /\ swarm' = closest(ids, swarm_space)
    /\ swarm_ids' = ids
    /\ UNCHANGED swarm_space

PubkeyNext == \E ids \in SUBSET ValidIds : update_swarm(ids)

PubkeySpec == PubkeyInit /\ [][PubkeyNext]_pubkeyVars

----------------------------------------------------------------------------
(* Properties.                                                             *)

(* The account's swarm is the one nearest to its position on the ring, and *)
(* the invalid id only if there is no swarm.  Storage servers compute the  *)
(* same, so that any other answer subscribes the account where none of its *)
(* messages arrive (swarmpubkey.cpp:47-78).                                *)
NearestSwarm ==
    IF swarm_ids = {} THEN swarm = INVALID_SWARM_ID
    ELSE IsNearest(swarm, swarm_ids, swarm_space)

(* Swarms come and go with little disturbance: an account changes its      *)
(* swarm only to one that has just appeared, or because its own has gone.  *)
(* The rule for ties must be consistent for this (swarmpubkey.cpp:70).     *)
MovesOnlyIfNeeded ==
    [][swarm' # swarm =>
        \/ swarm \notin swarm_ids'
        \/ swarm' \notin swarm_ids]_pubkeyVars
============================================================================
