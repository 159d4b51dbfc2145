---------------------------- MODULE Connections ----------------------------
(***************************************************************************)
(* The outgoing QUIC connections to the storage servers of the service     *)
(* nodes, and the limit on simultaneous connection attempts                *)
(* (spns/hive/snode.cpp: connect, disconnect, on_connected,                *)
(* on_disconnected; spns/hivemind.cpp: allow_connect, finished_connect,    *)
(* make_conns, check_subs and the node-list part of on_sns_response).      *)
(*                                                                         *)
(* Everything here runs on the event loop.  The handler of a               *)
(* get_service_nodes response is modelled node by node; no other event     *)
(* runs until it has finished (update = None again).                       *)
(*                                                                         *)
(* External behaviour assumed of the QUIC library: closing a connection    *)
(* runs its disconnection callback before close_connection returns, so     *)
(* that on_connected never finds conn_ empty (snode.cpp:95-98), and to     *)
(* start an attempt at a valid address does not throw (snode.cpp:53-60).   *)
(***************************************************************************)
EXTENDS Integers, FiniteSets

CONSTANTS
    Nodes,
    Addrs,
    Absent,                \* what a view holds for a node not on the network
    max_pending_connects   \* config.max_pending_connects

None == "none"
Views == [Nodes -> Addrs \cup {Absent}]

ASSUME ConnectionAssumptions ==
    /\ IsFiniteSet(Nodes)
    /\ Absent \notin Addrs
    /\ max_pending_connects \in Nat

VARIABLES
    sns_,               \* nodes of the last response
    addr_,              \* address of each node
    conn_,              \* "none", "handshake" or "open"
    cooldown_,          \* is cooldown_until_ set and in the future?
    pending_connects_,
    view,               \* the response being applied
    update,             \* "none", or how far it is: "drop", "update"
    todo,               \* nodes of the response still to update
    changed,            \* swarms_changed or new_or_changed_sns not empty
    refunds             \* history: established connections that disconnect closed

nodeVars == <<sns_, addr_>>
updateVars == <<view, update, todo, changed>>
vars == <<nodeVars, conn_, cooldown_, pending_connects_, updateVars, refunds>>

TypeOK ==
    /\ sns_ \in SUBSET Nodes
    /\ addr_ \in [Nodes -> Addrs \cup {Absent}]
    /\ conn_ \in [Nodes -> {"none", "handshake", "open"}]
    /\ cooldown_ \in [Nodes -> BOOLEAN]
    /\ pending_connects_ \in Int /\ pending_connects_ <= max_pending_connects
    /\ view \in Views
    /\ update \in {"none", "drop", "update"}
    /\ todo \in SUBSET Nodes
    /\ changed \in BOOLEAN
    /\ refunds \in Nat

Init ==
    /\ sns_ = {}
    /\ addr_ = [n \in Nodes |-> Absent]
    /\ conn_ = [n \in Nodes |-> "none"]
    /\ cooldown_ = [n \in Nodes |-> FALSE]
    /\ pending_connects_ = 0
    /\ view = [n \in Nodes |-> Absent]
    /\ update = None /\ todo = {} /\ changed = FALSE
    /\ refunds = 0

Attempts == {n \in Nodes : conn_[n] = "handshake"}

----------------------------------------------------------------------------
(* Starting attempts.  conns and cools are the connections and cooldowns   *)
(* at this point of the step; nodes are tried in the order of a hash map   *)
(* until the limit is reached, so any choice of that many is possible.     *)

Eligible(nodes, conns, cools) == {n \in nodes : conns[n] = "none" /\ ~cools[n]}

(* Seeded fault: one attempt more than the limit is let through. *)
FaultRoom(pending) == max_pending_connects + 1 - pending

(* How many more attempts allow_connect lets through. *)
Room(pending) == max_pending_connects - pending

Picks(eligible, pending) ==
    {T \in SUBSET eligible :
        /\ T # {} => Cardinality(T) <= Room(pending)
        /\ T = eligible \/ Cardinality(T) >= Room(pending)}

Try(nodes, conns, cools, pending) ==
    \E T \in Picks(Eligible(nodes, conns, cools), pending) :
        /\ conn_' = [n \in Nodes |-> IF n \in T THEN "handshake" ELSE conns[n]]
        /\ pending_connects_' = pending + Cardinality(T)

(* The decision to try more is taken before the count is decremented. *)
finished_connect(conns, cools) ==
    LET try_more == pending_connects_ < max_pending_connects
    IN  Try(IF try_more THEN sns_ ELSE {}, conns, cools, pending_connects_ - 1)

----------------------------------------------------------------------------
(* Events of one connection.                                               *)

on_connected(n) ==
    /\ update = None /\ conn_[n] = "handshake"
    /\ cooldown_' = [cooldown_ EXCEPT ![n] = FALSE]
    /\ finished_connect([conn_ EXCEPT ![n] = "open"], cooldown_')
    /\ UNCHANGED <<nodeVars, updateVars, refunds>>

(* Seeded fault: a failed attempt does not give its slot back. *)
FaultKeepSlot(n, cools) ==
    /\ conn_' = [conn_ EXCEPT ![n] = "none"]
    /\ UNCHANGED pending_connects_

(* What on_disconnected does when connected_ was not set. *)
FailedConnect(n, cools) == finished_connect([conn_ EXCEPT ![n] = "none"], cools)

on_disconnected_failed(n) ==
    /\ update = None /\ conn_[n] = "handshake"
    /\ cooldown_' = [cooldown_ EXCEPT ![n] = TRUE]
    /\ FailedConnect(n, cooldown_')
    /\ UNCHANGED <<nodeVars, updateVars, refunds>>

on_disconnected_lost(n) ==
    /\ update = None /\ conn_[n] = "open"
    /\ cooldown_' = [cooldown_ EXCEPT ![n] = TRUE]
    /\ conn_' = [conn_ EXCEPT ![n] = "none"]
    /\ UNCHANGED <<nodeVars, pending_connects_, updateVars, refunds>>

CooldownPasses(n) ==
    /\ update = None /\ cooldown_[n]
    /\ cooldown_' = [cooldown_ EXCEPT ![n] = FALSE]
    /\ UNCHANGED <<nodeVars, conn_, pending_connects_, updateVars, refunds>>

(* The 10s timer. *)
check_subs ==
    /\ update = None
    /\ Try(sns_, conn_, cooldown_, pending_connects_)
    /\ UNCHANGED <<nodeVars, cooldown_, updateVars, refunds>>

(* Seeded fault: closing a connection starts no cooldown. *)
FaultNoCooldown(n) ==
    IF conn_[n] = "none"
    THEN UNCHANGED <<conn_, cooldown_, pending_connects_, refunds>>
    ELSE /\ UNCHANGED <<cooldown_, refunds>>
         /\ FailedConnect(n, cooldown_)

(* disconnect clears connected_ before it closes the connection, so that   *)
(* the callback takes even an established connection for a failed attempt. *)
disconnect(n) ==
    IF conn_[n] = "none"
    THEN UNCHANGED <<conn_, cooldown_, pending_connects_, refunds>>
    ELSE /\ cooldown_' = [cooldown_ EXCEPT ![n] = TRUE]
         /\ FailedConnect(n, cooldown_')
         /\ refunds' = IF conn_[n] = "open" THEN refunds + 1 ELSE refunds

----------------------------------------------------------------------------
(* on_sns_response, node by node.                                          *)

(* swarmsChanged: the swarm ids, or the swarm of a known node, changed. *)
SnsResponse(v, swarmsChanged) ==
    /\ update = None
    /\ view' = v
    /\ update' = "drop"
    /\ todo' = {n \in Nodes : v[n] # Absent}
    /\ changed' = swarmsChanged
    /\ UNCHANGED <<nodeVars, conn_, cooldown_, pending_connects_, refunds>>

Gone == sns_ \ todo

DropNode(n) ==
    /\ update = "drop" /\ n \in Gone
    /\ disconnect(n)
    /\ sns_' = sns_ \ {n}
    /\ addr_' = [addr_ EXCEPT ![n] = Absent]
    /\ UNCHANGED updateVars

DropsDone ==
    /\ update = "drop" /\ Gone = {}
    /\ update' = "update"
    /\ UNCHANGED <<nodeVars, conn_, cooldown_, pending_connects_, view, todo, changed, refunds>>

(* The SNode constructor connects at once, before the node is in sns_. *)
AddNode(n) ==
    /\ update = "update" /\ n \in todo /\ n \notin sns_
    /\ addr_' = [addr_ EXCEPT ![n] = view[n]]
    /\ cooldown_' = [cooldown_ EXCEPT ![n] = FALSE]
    /\ Try({n}, conn_, cooldown_', pending_connects_)
    /\ sns_' = sns_ \cup {n}
    /\ todo' = todo \ {n} /\ changed' = TRUE
    /\ UNCHANGED <<view, update, refunds>>

(* SNode::connect(addr).  If a connection is closed for a new address, its *)
(* callback leaves a cooldown behind, so that connect() does nothing.      *)
UpdateNode(n) ==
    /\ update = "update" /\ n \in todo /\ n \in sns_
    /\ addr_' = [addr_ EXCEPT ![n] = view[n]]
    /\ IF view[n] = addr_[n] \/ conn_[n] = "none"
       THEN Try({n}, conn_, cooldown_, pending_connects_) /\ UNCHANGED <<cooldown_, refunds>>
       ELSE disconnect(n)
    /\ todo' = todo \ {n}
    /\ UNCHANGED <<sns_, view, update, changed>>

(* With new or changed nodes, all of them are checked at the end. *)
UpdatesDone ==
    /\ update = "update" /\ todo = {}
    /\ update' = None /\ changed' = FALSE
    /\ Try(IF changed THEN sns_ ELSE {}, conn_, cooldown_, pending_connects_)
    /\ UNCHANGED <<nodeVars, cooldown_, view, todo, refunds>>

(* The next node of the response has an invalid address: the exception     *)
(* leaves it and the rest of them as they were, and nothing is rechecked.  *)
(* One that comes earlier, from the parts that are parsed first, changes   *)
(* nothing of what is modelled here.                                       *)
ResponseThrows ==
    /\ update = "update" /\ todo # {}
    /\ update' = None /\ todo' = {} /\ changed' = FALSE
    /\ UNCHANGED <<nodeVars, conn_, cooldown_, pending_connects_, view, refunds>>

----------------------------------------------------------------------------
Handling ==
    \/ \E n \in Nodes : DropNode(n) \/ AddNode(n) \/ UpdateNode(n)
    \/ DropsDone \/ UpdatesDone \/ ResponseThrows

Next ==
    \/ \E n \in Nodes :
        \/ on_connected(n) \/ on_disconnected_failed(n) \/ on_disconnected_lost(n)
        \/ CooldownPasses(n)
    \/ check_subs
    \/ \E v \in Views, c \in BOOLEAN : SnsResponse(v, c)
    \/ Handling

Spec == Init /\ [][Next]_vars

----------------------------------------------------------------------------
(* Properties.                                                             *)

(* What pending_connects_ counts, over failures, losses, drops and changes *)
(* of address in any order: the attempts in progress, less one for each    *)
(* established connection that was ever closed by disconnect.  So no slot  *)
(* is ever lost, and the excess over the limit is exactly the refunds      *)
(* (hivemind.cpp:1683-1709, snode.cpp:77-86, 88-113 and 115-153).          *)
PendingExact == pending_connects_ + refunds = Cardinality(Attempts)

(* A node that left the network keeps no connection.  The callback of the  *)
(* close runs make_conns while the node is still in sns_, and only the     *)
(* cooldown that the callback has just set keeps the node from being       *)
(* dialled again, to be erased with an attempt in progress                 *)
(* (hivemind.cpp:1546-1548, snode.cpp:45-49 and 119-152).                  *)
NoOrphanConnection == \A n \in Nodes : conn_[n] # "none" => n \in sns_
============================================================================
