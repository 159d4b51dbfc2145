------------------------------- MODULE Swarms -------------------------------
(***************************************************************************)
(* Which accounts each service node is asked to monitor                    *)
(* (spns/hivemind.cpp: on_sns_response, add_subscription, check_subs;      *)
(* spns/hive/snode.cpp: add_account, reset_swarm,                          *)
(* remove_stale_swarm_members).                                            *)
(*                                                                         *)
(* Each action here is one function that runs on the event loop, or one    *)
(* database transaction of another thread.  A subscription is such a       *)
(* transaction followed, some time later, by its merge on the event loop.  *)
(*                                                                         *)
(* What is monitored is a pair of an account and of settings (namespaces,  *)
(* subaccount, want_data).  The queue next_ of a node is reduced to the    *)
(* accounts with an entry at system_epoch (due) and to the swarm that each *)
(* entry's copy of the account carries; how the queue is drained is the    *)
(* subject of module Resubscription.                                       *)
(***************************************************************************)
EXTENDS SwarmSpace

CONSTANTS
    Accounts, Position,   \* an account's swarm_space
    Devices, Settings,
    NoRow,
    Nodes,
    SwarmIds              \* the swarm ids that the network uses

ASSUME SwarmsAssumptions ==
    /\ Position \in [Accounts -> Ring]
    /\ SwarmIds \subseteq ValidIds
    /\ NoRow \notin Settings

(* A response names the swarm of each service node, if it has one, and has *)
(* the contact details of some nodes.                                      *)
Blocks == [Nodes -> SwarmIds \cup {INVALID_SWARM_ID}]

VARIABLES
    rows,          \* subscriptions table
    merges, txns,  \* committed and not yet merged; number of transactions
    subscribers_,  \* settings per account, {} if there is no entry
    stale,         \* those whose signature is too old to be submitted
    pkSwarm,       \* swarm of the key in subscribers_
    swarm_ids_,
    sns_, nodeSwarm, connected_,
    subs_,         \* accounts per node
    entrySwarm,    \* the swarm that the node's next_ entry was made with
    due,           \* accounts whose next_ entry is at system_epoch
    submitted,     \* settings in the account's last submission over the node's
                   \*   current connection
    missed,        \* history: accounts that a failed response, or a renewal of a
                   \*   row that was not loaded, may have left out at some node
    untold         \* history: settings that were merged, or got a signature that
                   \*   is not too old, since the account's last submission to
                   \*   the node, and without telling the node

memory == <<subscribers_, stale, pkSwarm>>
network == <<swarm_ids_, sns_, nodeSwarm>>
members == <<subs_, entrySwarm, due, submitted>>
history == <<missed, untold>>
vars == <<rows, merges, txns, memory, network, connected_, members, history>>

Merges == [id : Nat, account : Accounts, sub : Settings, new_sub : BOOLEAN]

TypeOK ==
    /\ rows \in [Accounts \X Devices -> Settings \cup {NoRow}]
    /\ merges \in SUBSET Merges /\ txns \in Nat
    /\ subscribers_ \in [Accounts -> SUBSET Settings]
    /\ stale \in [Accounts -> SUBSET Settings]
    /\ pkSwarm \in [Accounts -> Ring]
    /\ swarm_ids_ \in SUBSET SwarmIds
    /\ sns_ \in SUBSET Nodes
    /\ nodeSwarm \in [Nodes -> SwarmIds \cup {INVALID_SWARM_ID}]
    /\ connected_ \in SUBSET sns_
    /\ subs_ \in [Nodes -> SUBSET Accounts]
    /\ entrySwarm \in [Nodes -> [Accounts -> Ring]]
    /\ due \in [Nodes -> SUBSET Accounts]
    /\ \A n \in Nodes : due[n] \subseteq subs_[n] /\ (subs_[n] # {} => n \in sns_)
    /\ submitted \in [Nodes -> [Accounts -> SUBSET Settings]]
    /\ missed \in SUBSET Accounts
    /\ untold \in [Nodes -> [Accounts -> SUBSET Settings]]

Nothing == [a \in Accounts |-> {}]
NoSwarm == [a \in Accounts |-> INVALID_SWARM_ID]
Subscribed == {a \in Accounts : subscribers_[a] # {}}

(* What a submission of the account consists of. *)
Current(a) == subscribers_[a] \ stale[a]

(* load_saved_subscriptions has filled subscribers_ from the rows whose     *)
(* signature is current; it leaves the others in the table.                *)
load_saved_subscriptions ==
    \E expired \in SUBSET (Accounts \X Devices) :
        subscribers_ = [a \in Accounts |->
            {rows[<<a, d>>] : d \in {e \in Devices : <<a, e>> \notin expired}} \ {NoRow}]

Init ==
    /\ rows \in [Accounts \X Devices -> Settings \cup {NoRow}]
    /\ merges = {} /\ txns = 0
    /\ load_saved_subscriptions
    /\ stale = Nothing
    /\ pkSwarm = NoSwarm
    /\ swarm_ids_ = {} /\ sns_ = {} /\ connected_ = {}
    /\ nodeSwarm = [n \in Nodes |-> INVALID_SWARM_ID]
    /\ subs_ = [n \in Nodes |-> {}]
    /\ entrySwarm = [n \in Nodes |-> NoSwarm]
    /\ due = [n \in Nodes |-> {}]
    /\ submitted = [n \in Nodes |-> Nothing]
    /\ missed = {} /\ untold = [n \in Nodes |-> Nothing]

----------------------------------------------------------------------------
(* SNode::check_subs on the nodes conns, where the accounts d[n] are due   *)
(* and sub is what was submitted before.  A request takes all that is due, *)
(* or as much as SUBS_REQUEST_LIMIT lets through; settings whose signature *)
(* is about to expire are skipped, and their account is put off with the   *)
(* others.                                                                 *)
check_subs(conns, d, sub) ==
    \E sent \in [Nodes -> SUBSET Accounts] :
        /\ \A n \in Nodes :
            IF n \in conns
            THEN sent[n] \subseteq d[n] /\ (d[n] # {} => sent[n] # {})
            ELSE sent[n] = {}
        /\ due' = [n \in Nodes |-> d[n] \ sent[n]]
        /\ submitted' = [n \in Nodes |-> [a \in Accounts |->
                IF a \in sent[n] THEN Current(a) ELSE sub[n][a]]]
        /\ untold' = [n \in Nodes |-> [a \in Accounts |->
                IF a \in sent[n] THEN {} ELSE untold[n][a]]]

(* The 10s timer, and the continuation of a rate-limited request. *)
CheckSubs ==
    /\ check_subs(connected_, due, submitted)
    /\ UNCHANGED <<rows, merges, txns, memory, network, connected_, subs_, entrySwarm, missed>>

(* Everything is submitted again over a new connection. *)
on_connected(n) ==
    /\ n \in sns_ \ connected_
    /\ connected_' = connected_ \cup {n}
    /\ check_subs({n}, [due EXCEPT ![n] = subs_[n]], submitted)
    /\ UNCHANGED <<rows, merges, txns, memory, network, subs_, entrySwarm, missed>>

on_disconnected(n) ==
    /\ n \in connected_
    /\ connected_' = connected_ \ {n}
    /\ submitted' = [submitted EXCEPT ![n] = Nothing]
    /\ UNCHANGED <<rows, merges, txns, memory, network, subs_, entrySwarm, due,
                   history>>

(* The time of a next_ entry has come. *)
ResubscribeTime(n, a) ==
    /\ a \in subs_[n] \ due[n]
    /\ due' = [due EXCEPT ![n] = @ \cup {a}]
    /\ UNCHANGED <<rows, merges, txns, memory, network, connected_, subs_,
                   entrySwarm, submitted, history>>

(* A signature comes within 10s of its expiry: the settings stay in        *)
(* subscribers_ but are no longer submitted.  Those that were loaded with  *)
(* less than 10s left expire at once.                                      *)
SignatureExpires(a, s) ==
    /\ s \in Current(a)
    /\ stale' = [stale EXCEPT ![a] = @ \cup {s}]
    /\ UNCHANGED <<rows, merges, txns, subscribers_, pkSwarm, network, connected_, members,
                   history>>

----------------------------------------------------------------------------
(* add_subscription and remove_subscription.                               *)

CommitAdd(a, d, s) ==
    /\ rows' = [rows EXCEPT ![<<a, d>>] = s]
    /\ txns' = txns + 1
    /\ merges' = merges \cup
            {[id |-> txns, account |-> a, sub |-> s, new_sub |-> rows[<<a, d>>] = NoRow]}
    /\ UNCHANGED <<memory, network, connected_, members, history>>

CommitRemove(a, d) ==
    /\ rows' = [rows EXCEPT ![<<a, d>>] = NoRow]
    /\ txns' = txns + 1
    /\ UNCHANGED <<merges, memory, network, connected_, members, history>>

(* Seeded fault: the new subscription waits for the next renewal. *)
FaultNotForced(n, a) == due[n]

(* add_account with force_now: a new entry at the front of next_. *)
add_account(n, a) == due[n] \cup {a}

(* Only a new row is submitted at once.  The signature replaces that of    *)
(* equal settings if it is newer; old says that it is itself too old to be *)
(* submitted by now, and then so is any that it replaces.                  *)
MergeAdd(m, old) ==
    LET a == m.account
        sw == closest(swarm_ids_, Position[a])
        told == IF m.new_sub THEN {n \in sns_ : nodeSwarm[n] = sw} ELSE {}
    IN  /\ m \in merges
        /\ merges' = merges \ {m}
        /\ subscribers_' = [subscribers_ EXCEPT ![a] = @ \cup {m.sub}]
        /\ stale' = [stale EXCEPT ![a] = IF old THEN @ \cup ({m.sub} \ subscribers_[a])
                                               ELSE @ \ {m.sub}]
        /\ pkSwarm' = IF a \in Subscribed THEN pkSwarm ELSE [pkSwarm EXCEPT ![a] = sw]
        /\ subs_' = [n \in Nodes |-> IF n \in told THEN subs_[n] \cup {a} ELSE subs_[n]]
        /\ entrySwarm' = [n \in Nodes |->
                IF n \in told THEN [entrySwarm[n] EXCEPT ![a] = sw] ELSE entrySwarm[n]]
        /\ due' = [n \in Nodes |-> IF n \in told THEN add_account(n, a) ELSE due[n]]
        /\ missed' = IF m.new_sub THEN missed \ {a}
                     ELSE IF a \in Subscribed THEN missed ELSE missed \cup {a}
        /\ untold' = [n \in Nodes |-> [untold[n] EXCEPT ![a] =
                IF n \in told THEN {} ELSE @ \cup ({m.sub} \ Current(a))]]
        /\ UNCHANGED <<rows, txns, network, connected_, submitted>>

----------------------------------------------------------------------------
(* on_sns_response.                                                        *)

IdsOf(block) == {block[n] : n \in Nodes} \ {INVALID_SWARM_ID}

(* A node is used if it has a swarm and the response has its contact       *)
(* details; nodes is the set of those.                                     *)
Listable(block) == {n \in Nodes : block[n] # INVALID_SWARM_ID}

(* The nodes that keep their accounts: those that stay in their swarm. *)
Unmoved(block, nodes) == {n \in nodes \cap sns_ : nodeSwarm[n] = block[n]}

(* Seeded fault: only a change of the swarm ids causes a recheck. *)
FaultIgnoreNodes(block, nodes) == IdsOf(block) # swarm_ids_

(* swarms_changed, or new_or_changed_sns not empty.  last_block_ spares a  *)
(* comparison of swarm ids that would find no difference.                  *)
NeedsRecheck(block, nodes) ==
    IdsOf(block) # swarm_ids_ \/ Unmoved(block, nodes) # nodes

(* The node list after the nodes `done` of the response were updated: the  *)
(* unlisted ones are gone, a moved one has lost its accounts               *)
(* (reset_swarm), a re-addressed one its connection.                       *)
UpdateNodes(block, nodes, done, readdressed) ==
    LET now == (sns_ \cap nodes) \cup done
        same == {n \in now : n \notin done \/ n \in Unmoved(block, nodes)}
    IN  /\ sns_' = now
        /\ nodeSwarm' = [n \in Nodes |-> IF n \notin now THEN INVALID_SWARM_ID
                                         ELSE IF n \in done THEN block[n]
                                         ELSE nodeSwarm[n]]
        /\ connected_' = (connected_ \cap now) \ readdressed
        /\ subs_' = [n \in Nodes |-> IF n \in same THEN subs_[n] ELSE {}]
        /\ due' = [n \in Nodes |-> IF n \in same THEN due[n] ELSE {}]
        /\ submitted' = [n \in Nodes |->
                IF n \in connected_ \cap now /\ n \notin readdressed
                THEN submitted[n] ELSE Nothing]
        /\ UNCHANGED entrySwarm

(* remove_stale_swarm_members updates the swarms in subs_, but compares    *)
(* the one that the next_ entry was made with.                             *)
Remaining(block, n) == {a \in subs_[n] : entrySwarm[n][a] = block[n]}

BelongsTo(block, n, sw) == {a \in Subscribed : sw[a] = block[n]}

(* The full recheck of all nodes and accounts. *)
Recheck(block, nodes, readdressed) ==
    LET sw == [a \in Accounts |-> IF a \in Subscribed
                                  THEN closest(IdsOf(block), Position[a])
                                  ELSE pkSwarm[a]]
        held(n) == IF n \in Unmoved(block, nodes) THEN Remaining(block, n) ELSE {}
        added(n) == BelongsTo(block, n, sw) \ held(n)
        conns == (connected_ \cap nodes) \ readdressed
    IN  /\ pkSwarm' = sw
        /\ sns_' = nodes /\ connected_' = conns
        /\ nodeSwarm' = [n \in Nodes |-> IF n \in nodes THEN block[n] ELSE INVALID_SWARM_ID]
        /\ subs_' = [n \in Nodes |-> IF n \in nodes THEN held(n) \cup added(n) ELSE {}]
        /\ entrySwarm' = [n \in Nodes |-> [a \in Accounts |->
                IF n \in nodes /\ a \in added(n) THEN sw[a] ELSE entrySwarm[n][a]]]
        /\ check_subs(conns,
                [n \in Nodes |-> IF n \in nodes
                                 THEN (due[n] \cap held(n)) \cup added(n) ELSE {}],
                [n \in Nodes |-> IF n \in conns THEN submitted[n] ELSE Nothing])

on_sns_response(block, nodes, readdressed) ==
    /\ swarm_ids_' = IdsOf(block)
    /\ IF NeedsRecheck(block, nodes)
       THEN Recheck(block, nodes, readdressed) /\ missed' = {}
       ELSE UpdateNodes(block, nodes, nodes, readdressed) /\ UNCHANGED <<pkSwarm, history>>
    /\ UNCHANGED <<rows, merges, txns, subscribers_, stale>>

(* An entry of the node list misses a field: the exception comes after the *)
(* swarm ids were stored, and before anything else.                        *)
ResponseThrowsInList(block) ==
    /\ swarm_ids_' = IdsOf(block)
    /\ missed' = Accounts
    /\ UNCHANGED <<rows, merges, txns, memory, sns_, nodeSwarm, connected_, members, untold>>

(* A node's address is invalid: the exception comes when the nodes `done`  *)
(* were updated, and before the recheck.                                   *)
ResponseThrowsAtNode(block, nodes, done, readdressed) ==
    /\ done # nodes
    /\ swarm_ids_' = IdsOf(block)
    /\ UpdateNodes(block, nodes, done, readdressed \cap done)
    /\ missed' = Accounts
    /\ UNCHANGED <<rows, merges, txns, memory, untold>>

----------------------------------------------------------------------------
Response ==
    \E block \in Blocks :
        \E nodes \in SUBSET Listable(block) :
            \E readdressed \in SUBSET (connected_ \cap nodes) :
                on_sns_response(block, nodes, readdressed)

ResponseThrows ==
    \E block \in Blocks :
        \/ ResponseThrowsInList(block)
        \/ \E nodes \in SUBSET Listable(block) :
            \E done \in SUBSET nodes, readdressed \in SUBSET (connected_ \cap nodes) :
                ResponseThrowsAtNode(block, nodes, done, readdressed)

Transaction ==
    \E a \in Accounts, d \in Devices :
        CommitRemove(a, d) \/ \E s \in Settings : CommitAdd(a, d, s)

Loop ==
    \/ CheckSubs
    \/ \E m \in merges, old \in BOOLEAN : MergeAdd(m, old)
    \/ \E n \in Nodes : on_connected(n) \/ on_disconnected(n)
    \/ \E n \in Nodes, a \in Accounts : ResubscribeTime(n, a)
    \/ \E a \in Accounts, s \in Settings : SignatureExpires(a, s)

Next == Response \/ ResponseThrows \/ Transaction \/ Loop

Spec == Init /\ [][Next]_vars

----------------------------------------------------------------------------
(* Properties.                                                             *)

(* Every known member of an account's swarm has the account on its list,   *)
(* whatever nodes and swarms come, go and change and whatever subscribes   *)
(* in between, up to the next full recheck with the exception of those     *)
(* that `missed` names (hivemind.cpp:1597-1627, 1952-1977).                *)
MembersCovered ==
    \A n \in sns_ : \A a \in Subscribed \ missed :
        closest(swarm_ids_, Position[a]) = nodeSwarm[n] => a \in subs_[n]

(* All settings of an account on a node's list that have a signature to be *)
(* submitted with were in the account's last submission over the node's    *)
(* connection, or are due there, over lost connections, changes of the     *)
(* swarm and expiring signatures, also if the account has left the swarm   *)
(* for a while.  Excepted, until the next submission, are those that a     *)
(* renewal brought or gave a new signature, and those that were merged     *)
(* while the account was in another swarm (hivemind.cpp:1970-1977,         *)
(* snode.cpp:88-113, 161-181 and 300-323).                                 *)
SettingsInPlace ==
    \A n \in connected_ : \A a \in subs_[n] :
        \/ Current(a) \ untold[n][a] \subseteq submitted[n][a]
        \/ a \in due[n]

(* "Any existing subscribers that are no longer in this swarm will be      *)
(* removed" (snode.hpp:108-110).                                           *)
NoForeignAccounts ==
    \A n \in sns_ : \A a \in subs_[n] :
        closest(swarm_ids_, Position[a]) = nodeSwarm[n]
=============================================================================
