-------------------------- MODULE ConnectionsProofs --------------------------
(* Proofs about the connection attempts, for every number of nodes and     *)
(* addresses and every limit.                                              *)
EXTENDS Connections, FiniteSetTheorems, TLAPS

ConnStates == {"none", "handshake", "open"}
Dialling(conns) == {n \in Nodes : conns[n] = "handshake"}

LEMMA DiallingFinite ==
    ASSUME NEW conns
    PROVE  IsFiniteSet(Dialling(conns)) /\ Cardinality(Dialling(conns)) \in Nat
<1>1. Dialling(conns) \in SUBSET Nodes
  BY DEF Dialling
<1>. QED BY <1>1, ConnectionAssumptions, FS_Subset, FS_CardinalityType

(* What starting attempts does: only idle nodes that are not cooling down  *)
(* are dialled, each costs one slot, and the limit is kept.                *)
LEMMA TryEffect ==
    ASSUME NEW nodes \in SUBSET Nodes, NEW conns \in [Nodes -> ConnStates],
           NEW cools, NEW pending \in Int,
           pending <= max_pending_connects,
           Try(nodes, conns, cools, pending)
    PROVE  /\ conn_' \in [Nodes -> ConnStates]
           /\ pending_connects_' \in Int /\ pending_connects_' <= max_pending_connects
           /\ \A n \in Nodes : conn_'[n] # conns[n] =>
                    n \in nodes /\ ~cools[n] /\ conns[n] = "none"
           /\ Cardinality(Attempts') - pending_connects_' =
                    Cardinality(Dialling(conns)) - pending
<1> USE ConnectionAssumptions
<1>1. PICK T \in Picks(Eligible(nodes, conns, cools), pending) :
        /\ conn_' = [n \in Nodes |-> IF n \in T THEN "handshake" ELSE conns[n]]
        /\ pending_connects_' = pending + Cardinality(T)
  BY DEF Try
<1>2. /\ T \subseteq Eligible(nodes, conns, cools)
      /\ T # {} => Cardinality(T) <= Room(pending)
  BY DEF Picks
<1>3. \A n \in T : n \in Nodes /\ n \in nodes /\ ~cools[n] /\ conns[n] = "none"
  BY <1>2 DEF Eligible
<1>4. IsFiniteSet(T) /\ Cardinality(T) \in Nat
  <2>1. T \in SUBSET Nodes
    BY <1>3
  <2>. QED BY <2>1, FS_Subset, FS_CardinalityType
<1>5. Attempts' = Dialling(conns) \cup T /\ Dialling(conns) \cap T = {}
  BY <1>1, <1>3 DEF Attempts, Dialling
<1>6. Cardinality(Attempts') = Cardinality(Dialling(conns)) + Cardinality(T)
  <2>1. Cardinality(Dialling(conns) \cap T) = 0
    BY <1>5, FS_EmptySet
  <2>2. Cardinality(Dialling(conns) \cup T) =
            Cardinality(Dialling(conns)) + Cardinality(T) - Cardinality(Dialling(conns) \cap T)
    BY <1>4, DiallingFinite, FS_Union
  <2>. QED BY <1>4, <1>5, <2>1, <2>2, DiallingFinite
<1>7. pending_connects_' <= max_pending_connects
  <2>1. CASE T = {}
    BY <1>1, <2>1, FS_EmptySet
  <2>2. CASE T # {}
    BY <1>1, <1>2, <1>4, <2>2 DEF Room
  <2>. QED BY <2>1, <2>2
<1>8. conn_' \in [Nodes -> ConnStates]
  BY <1>1 DEF ConnStates
<1>9. \A n \in Nodes : conn_'[n] # conns[n] => n \in nodes /\ ~cools[n] /\ conns[n] = "none"
  BY <1>1, <1>3
<1>10. pending_connects_' \in Int
  BY <1>1, <1>4
<1>. QED BY <1>1, <1>4, <1>6, <1>7, <1>8, <1>9, <1>10, DiallingFinite

(* A connection changes its state: what that does to the attempts. *)
LEMMA DiallingChange ==
    ASSUME TypeOK, NEW n \in Nodes, NEW s \in ConnStates \ {"handshake"}
    PROVE  /\ [conn_ EXCEPT ![n] = s] \in [Nodes -> ConnStates]
           /\ Cardinality(Dialling([conn_ EXCEPT ![n] = s])) =
                IF conn_[n] = "handshake" THEN Cardinality(Attempts) - 1
                                          ELSE Cardinality(Attempts)
<1>1. conn_ \in [Nodes -> ConnStates]
  BY DEF TypeOK, ConnStates
<1>2. Dialling([conn_ EXCEPT ![n] = s]) = Attempts \ {n}
  BY <1>1 DEF Dialling, Attempts
<1>3. n \in Attempts <=> conn_[n] = "handshake"
  BY DEF Attempts
<1>4. IsFiniteSet(Attempts)
  BY DiallingFinite DEF Attempts, Dialling
<1>. QED BY <1>1, <1>2, <1>3, <1>4, FS_RemoveElement

----------------------------------------------------------------------------
(* The inductive invariant: types, the accounting and who may have a       *)
(* connection.  None of the three needs more than the types of the others. *)
Inv == TypeOK /\ PendingExact /\ NoOrphanConnection

LEMMA AttemptsFinite == IsFiniteSet(Attempts) /\ Cardinality(Attempts) \in Nat
BY DiallingFinite DEF Attempts, Dialling

LEMMA AttemptsFiniteNext == Cardinality(Attempts') \in Nat
<1>1. Attempts' \in SUBSET Nodes
  BY DEF Attempts
<1>. QED BY <1>1, ConnectionAssumptions, FS_Subset, FS_CardinalityType

(* Starting attempts among nodes that stay known keeps the invariant. *)
LEMMA TryKeeps ==
    ASSUME Inv, NEW nodes \in SUBSET Nodes, nodes \subseteq sns_', sns_ \subseteq sns_',
           NEW cools, Try(nodes, conn_, cools, pending_connects_), UNCHANGED refunds
    PROVE  /\ conn_' \in [Nodes -> ConnStates]
           /\ pending_connects_' \in Int /\ pending_connects_' <= max_pending_connects
           /\ PendingExact' /\ NoOrphanConnection'
<1>1. /\ conn_ \in [Nodes -> ConnStates]
      /\ pending_connects_ \in Int /\ pending_connects_ <= max_pending_connects
      /\ refunds \in Nat
  BY DEF Inv, TypeOK, ConnStates
<1>2. /\ conn_' \in [Nodes -> ConnStates]
      /\ pending_connects_' \in Int /\ pending_connects_' <= max_pending_connects
      /\ \A n \in Nodes : conn_'[n] # conn_[n] => n \in nodes
      /\ Cardinality(Attempts') - pending_connects_' =
            Cardinality(Dialling(conn_)) - pending_connects_
  BY <1>1, TryEffect
<1>3. Dialling(conn_) = Attempts
  BY DEF Dialling, Attempts
<1>4. PendingExact'
  BY <1>1, <1>2, <1>3, AttemptsFinite, AttemptsFiniteNext DEF Inv, PendingExact
<1>5. NoOrphanConnection'
  BY <1>2 DEF Inv, NoOrphanConnection
<1>. QED BY <1>2, <1>4, <1>5

(* finished_connect, after the connection of n changed to s: the slot of   *)
(* an attempt is returned; that of an open connection is a refund.         *)
LEMMA FinishedEffect ==
    ASSUME Inv, NEW n \in Nodes, NEW s \in ConnStates \ {"handshake"}, NEW cools,
           finished_connect([conn_ EXCEPT ![n] = s], cools)
    PROVE  /\ conn_' \in [Nodes -> ConnStates]
           /\ pending_connects_' \in Int /\ pending_connects_' <= max_pending_connects
           /\ \A m \in Nodes : conn_'[m] # [conn_ EXCEPT ![n] = s][m] =>
                    m \in sns_ /\ ~cools[m]
           /\ conn_[n] = "handshake" =>
                pending_connects_' + refunds = Cardinality(Attempts')
           /\ conn_[n] # "handshake" =>
                pending_connects_' + refunds + 1 = Cardinality(Attempts')
<1> DEFINE conns == [conn_ EXCEPT ![n] = s]
           nodes == IF pending_connects_ < max_pending_connects THEN sns_ ELSE {}
           left == pending_connects_ - 1
<1>1. /\ pending_connects_ \in Int /\ pending_connects_ <= max_pending_connects
      /\ refunds \in Nat /\ sns_ \in SUBSET Nodes
  BY DEF Inv, TypeOK
<1>2. Try(nodes, conns, cools, left)
  BY DEF finished_connect
<1>3. nodes \in SUBSET Nodes /\ nodes \subseteq sns_
  BY <1>1
<1>4. /\ conns \in [Nodes -> ConnStates]
      /\ Cardinality(Dialling(conns)) = IF conn_[n] = "handshake"
                                        THEN Cardinality(Attempts) - 1
                                        ELSE Cardinality(Attempts)
  BY DiallingChange DEF Inv
<1>5. left \in Int /\ left <= max_pending_connects /\ left = pending_connects_ - 1
  BY <1>1, ConnectionAssumptions
<1>6. conns \in [Nodes -> ConnStates] /\ nodes \in SUBSET Nodes
  BY <1>3, <1>4
<1> HIDE DEF conns, nodes, left
<1>7. /\ conn_' \in [Nodes -> ConnStates]
      /\ pending_connects_' \in Int /\ pending_connects_' <= max_pending_connects
      /\ \A m \in Nodes : conn_'[m] # conns[m] =>
                m \in nodes /\ ~cools[m] /\ conns[m] = "none"
      /\ Cardinality(Attempts') - pending_connects_' = Cardinality(Dialling(conns)) - left
  BY ONLY <1>2, <1>5, <1>6, TryEffect
<1>8. pending_connects_ + refunds = Cardinality(Attempts)
  BY DEF Inv, PendingExact
<1>9. ASSUME conn_[n] = "handshake"
      PROVE  pending_connects_' + refunds = Cardinality(Attempts')
  <2>1. Cardinality(Dialling(conns)) = Cardinality(Attempts) - 1
    BY <1>4, <1>9
  <2>. QED BY <1>1, <1>5, <1>7, <1>8, <2>1, AttemptsFinite, AttemptsFiniteNext
<1>10. ASSUME conn_[n] # "handshake"
      PROVE  pending_connects_' + refunds + 1 = Cardinality(Attempts')
  <2>1. Cardinality(Dialling(conns)) = Cardinality(Attempts)
    BY <1>4, <1>10
  <2>. QED BY <1>1, <1>5, <1>7, <1>8, <2>1, AttemptsFinite, AttemptsFiniteNext
<1>. QED BY <1>3, <1>7, <1>9, <1>10 DEF conns

(* disconnect: the node that is closed is left without a connection, and   *)
(* the callback dials only known nodes other than it.                      *)
LEMMA DisconnectEffect ==
    ASSUME Inv, NEW n \in Nodes, disconnect(n)
    PROVE  /\ conn_' \in [Nodes -> ConnStates] /\ cooldown_' \in [Nodes -> BOOLEAN]
           /\ pending_connects_' \in Int /\ pending_connects_' <= max_pending_connects
           /\ refunds' \in Nat /\ PendingExact'
           /\ conn_'[n] = "none"
           /\ \A m \in Nodes : conn_'[m] # "none" => m \in sns_
<1>0. /\ conn_ \in [Nodes -> ConnStates] /\ cooldown_ \in [Nodes -> BOOLEAN]
      /\ pending_connects_ \in Int /\ pending_connects_ <= max_pending_connects
      /\ refunds \in Nat /\ PendingExact
      /\ \A m \in Nodes : conn_[m] # "none" => m \in sns_
  BY DEF Inv, TypeOK, NoOrphanConnection, ConnStates
<1>1. CASE conn_[n] = "none"
  <2>1. UNCHANGED <<conn_, cooldown_, pending_connects_, refunds>>
    BY <1>1 DEF disconnect
  <2>2. PendingExact'
    BY <1>0, <2>1 DEF PendingExact, Attempts
  <2>. QED BY <1>0, <1>1, <2>1, <2>2
<1>2. CASE conn_[n] # "none"
  <2>1. /\ cooldown_' = [cooldown_ EXCEPT ![n] = TRUE]
        /\ finished_connect([conn_ EXCEPT ![n] = "none"], cooldown_')
        /\ refunds' = IF conn_[n] = "open" THEN refunds + 1 ELSE refunds
    BY <1>2 DEF disconnect, FailedConnect
  <2>2. "none" \in ConnStates \ {"handshake"}
    BY DEF ConnStates
  <2>3. /\ conn_' \in [Nodes -> ConnStates]
        /\ pending_connects_' \in Int /\ pending_connects_' <= max_pending_connects
        /\ \A m \in Nodes : conn_'[m] # [conn_ EXCEPT ![n] = "none"][m] =>
                m \in sns_ /\ ~cooldown_'[m]
        /\ conn_[n] = "handshake" => pending_connects_' + refunds = Cardinality(Attempts')
        /\ conn_[n] # "handshake" => pending_connects_' + refunds + 1 = Cardinality(Attempts')
    BY <2>1, <2>2, FinishedEffect
  <2>4. cooldown_' \in [Nodes -> BOOLEAN] /\ cooldown_'[n] = TRUE
    BY <1>0, <2>1
  <2>5. PendingExact' /\ refunds' \in Nat
    <3>1. CASE conn_[n] = "open"
      BY <1>0, <2>1, <2>3, <3>1 DEF PendingExact
    <3>2. CASE conn_[n] = "handshake"
      BY <1>0, <2>1, <2>3, <3>2 DEF PendingExact
    <3>. QED BY <1>0, <1>2, <3>1, <3>2 DEF ConnStates
  <2>6. conn_'[n] = "none" /\ \A m \in Nodes : conn_'[m] # "none" => m \in sns_
    BY <1>0, <2>3, <2>4
  <2>. QED BY <2>3, <2>4, <2>5, <2>6
<1>. QED BY <1>1, <1>2

LEMMA InitInv == Init => Inv
<1> SUFFICES ASSUME Init PROVE Inv
  OBVIOUS
<1>1. TypeOK
  <2>1. changed \in BOOLEAN /\ cooldown_ \in [Nodes -> BOOLEAN]
    BY Zenon DEF Init
  <2>2. /\ addr_ \in [Nodes -> Addrs \cup {Absent}] /\ view \in Views
        /\ conn_ \in [Nodes -> {"none", "handshake", "open"}]
    BY DEF Init, Views
  <2>3. sns_ \in SUBSET Nodes /\ todo \in SUBSET Nodes
    BY DEF Init
  <2>. QED BY <2>1, <2>2, <2>3, ConnectionAssumptions DEF Init, TypeOK, None
<1>2. Attempts = {}
  BY DEF Init, Attempts
<1>3. PendingExact
  BY <1>2, FS_EmptySet DEF Init, PendingExact
<1>. QED BY <1>1, <1>3 DEF Inv, Init, NoOrphanConnection

LEMMA NextInv == Inv /\ [Next]_vars => Inv'
<1> SUFFICES ASSUME Inv, [Next]_vars PROVE Inv'
  OBVIOUS
<1> USE ConnectionAssumptions
<1>0. TypeOK /\ sns_ \subseteq Nodes
  BY DEF Inv, TypeOK
<1>1. ASSUME NEW n \in Nodes, on_connected(n) PROVE Inv'
  <2>1. /\ conn_[n] = "handshake" /\ cooldown_' = [cooldown_ EXCEPT ![n] = FALSE]
        /\ finished_connect([conn_ EXCEPT ![n] = "open"], cooldown_')
        /\ UNCHANGED <<sns_, addr_, view, update, todo, changed, refunds>>
    BY <1>1 DEF on_connected, nodeVars, updateVars
  <2>2. "open" \in ConnStates \ {"handshake"}
    BY DEF ConnStates
  <2>3. /\ conn_' \in [Nodes -> ConnStates]
        /\ pending_connects_' \in Int /\ pending_connects_' <= max_pending_connects
        /\ \A m \in Nodes : conn_'[m] # [conn_ EXCEPT ![n] = "open"][m] => m \in sns_
        /\ pending_connects_' + refunds = Cardinality(Attempts')
    BY <2>1, <2>2, FinishedEffect
  <2>4. TypeOK'
    BY <1>0, <2>1, <2>3 DEF TypeOK, ConnStates
  <2>5. NoOrphanConnection'
    BY <1>0, <2>1, <2>3 DEF Inv, NoOrphanConnection, TypeOK
  <2>. QED BY <2>1, <2>3, <2>4, <2>5 DEF Inv, PendingExact
<1>2. ASSUME NEW n \in Nodes, on_disconnected_failed(n) PROVE Inv'
  <2>1. /\ conn_[n] = "handshake" /\ cooldown_' = [cooldown_ EXCEPT ![n] = TRUE]
        /\ finished_connect([conn_ EXCEPT ![n] = "none"], cooldown_')
        /\ UNCHANGED <<sns_, addr_, view, update, todo, changed, refunds>>
    BY <1>2 DEF on_disconnected_failed, FailedConnect, nodeVars, updateVars
  <2>2. "none" \in ConnStates \ {"handshake"}
    BY DEF ConnStates
  <2>3. /\ conn_' \in [Nodes -> ConnStates]
        /\ pending_connects_' \in Int /\ pending_connects_' <= max_pending_connects
        /\ \A m \in Nodes : conn_'[m] # [conn_ EXCEPT ![n] = "none"][m] => m \in sns_
        /\ pending_connects_' + refunds = Cardinality(Attempts')
    BY <2>1, <2>2, FinishedEffect
  <2>4. TypeOK'
    BY <1>0, <2>1, <2>3 DEF TypeOK, ConnStates
  <2>5. NoOrphanConnection'
    BY <1>0, <2>1, <2>3 DEF Inv, NoOrphanConnection, TypeOK
  <2>. QED BY <2>1, <2>3, <2>4, <2>5 DEF Inv, PendingExact
<1>3. ASSUME NEW n \in Nodes, on_disconnected_lost(n) PROVE Inv'
  <2>1. /\ conn_[n] = "open" /\ conn_' = [conn_ EXCEPT ![n] = "none"]
        /\ cooldown_' = [cooldown_ EXCEPT ![n] = TRUE]
        /\ UNCHANGED <<sns_, addr_, pending_connects_, view, update, todo, changed, refunds>>
    BY <1>3 DEF on_disconnected_lost, nodeVars, updateVars
  <2>2. TypeOK'
    BY <1>0, <2>1 DEF TypeOK
  <2>3. Attempts' = Attempts
    BY <1>0, <2>1 DEF Attempts, TypeOK
  <2>. QED BY <1>0, <2>1, <2>2, <2>3 DEF Inv, PendingExact, NoOrphanConnection, TypeOK
<1>4. CASE \/ \E n \in Nodes : CooldownPasses(n)
           \/ \E v \in Views, c \in BOOLEAN : SnsResponse(v, c)
           \/ DropsDone \/ UNCHANGED vars
  <2>1. UNCHANGED <<sns_, addr_, conn_, pending_connects_, refunds>>
    BY <1>4 DEF CooldownPasses, SnsResponse, DropsDone, vars, nodeVars, updateVars
  <2>2. TypeOK'
    <3>1. CASE \E n \in Nodes : CooldownPasses(n)
      BY <1>0, <3>1 DEF CooldownPasses, nodeVars, updateVars, TypeOK
    <3>2. CASE \E v \in Views, c \in BOOLEAN : SnsResponse(v, c)
      <4>1. /\ view' \in Views /\ update' = "drop" /\ todo' \subseteq Nodes
            /\ UNCHANGED cooldown_
        BY <3>2 DEF SnsResponse
      <4>2. changed' \in BOOLEAN
        BY <3>2, Zenon DEF SnsResponse
      <4>. QED BY <1>0, <2>1, <4>1, <4>2 DEF TypeOK
    <3>3. CASE DropsDone \/ UNCHANGED vars
      BY <1>0, <3>3 DEF DropsDone, vars, nodeVars, updateVars, TypeOK
    <3>. QED BY <1>4, <3>1, <3>2, <3>3
  <2>. QED BY <2>1, <2>2 DEF Inv, PendingExact, NoOrphanConnection, Attempts
<1>5. CASE check_subs
  <2>1. /\ Try(sns_, conn_, cooldown_, pending_connects_)
        /\ UNCHANGED <<sns_, addr_, cooldown_, view, update, todo, changed, refunds>>
    BY <1>5 DEF check_subs, nodeVars, updateVars
  <2>2. /\ conn_' \in [Nodes -> ConnStates]
        /\ pending_connects_' \in Int /\ pending_connects_' <= max_pending_connects
        /\ PendingExact' /\ NoOrphanConnection'
    BY <1>0, <2>1, TryKeeps
  <2>3. TypeOK'
    BY <1>0, <2>1, <2>2 DEF TypeOK, ConnStates
  <2>. QED BY <2>2, <2>3 DEF Inv
<1>6. ASSUME NEW n \in Nodes, DropNode(n) PROVE Inv'
  <2>1. /\ disconnect(n) /\ sns_' = sns_ \ {n} /\ addr_' = [addr_ EXCEPT ![n] = Absent]
        /\ UNCHANGED <<view, update, todo, changed>>
    BY <1>6 DEF DropNode, updateVars
  <2>2. /\ conn_' \in [Nodes -> ConnStates] /\ cooldown_' \in [Nodes -> BOOLEAN]
        /\ pending_connects_' \in Int /\ pending_connects_' <= max_pending_connects
        /\ refunds' \in Nat /\ PendingExact'
        /\ conn_'[n] = "none"
        /\ \A m \in Nodes : conn_'[m] # "none" => m \in sns_
    BY <2>1, DisconnectEffect
  <2>3. TypeOK'
    BY <1>0, <2>1, <2>2 DEF TypeOK, ConnStates
  <2>4. NoOrphanConnection'
    BY <2>1, <2>2 DEF NoOrphanConnection
  <2>. QED BY <2>2, <2>3, <2>4 DEF Inv
<1>7. ASSUME NEW n \in Nodes, AddNode(n) PROVE Inv'
  <2>1. /\ cooldown_' = [cooldown_ EXCEPT ![n] = FALSE]
        /\ addr_' = [addr_ EXCEPT ![n] = view[n]]
        /\ Try({n}, conn_, cooldown_', pending_connects_)
        /\ sns_' = sns_ \cup {n} /\ todo' = todo \ {n} /\ changed' = TRUE
        /\ UNCHANGED <<view, update, refunds>>
    BY <1>7 DEF AddNode
  <2>2. /\ conn_' \in [Nodes -> ConnStates]
        /\ pending_connects_' \in Int /\ pending_connects_' <= max_pending_connects
        /\ PendingExact' /\ NoOrphanConnection'
    BY <2>1, TryKeeps
  <2>3. view[n] \in Addrs \cup {Absent}
    BY <1>0 DEF TypeOK, Views
  <2>4. TypeOK'
    BY <1>0, <2>1, <2>2, <2>3 DEF TypeOK, ConnStates
  <2>. QED BY <2>2, <2>4 DEF Inv
<1>8. ASSUME NEW n \in Nodes, UpdateNode(n) PROVE Inv'
  <2>1. /\ n \in sns_ /\ addr_' = [addr_ EXCEPT ![n] = view[n]] /\ todo' = todo \ {n}
        /\ UNCHANGED <<sns_, view, update, changed>>
        /\ \/ /\ Try({n}, conn_, cooldown_, pending_connects_)
              /\ UNCHANGED <<cooldown_, refunds>>
           \/ disconnect(n)
    BY <1>8, Zenon DEF UpdateNode
  <2>2. /\ conn_' \in [Nodes -> ConnStates] /\ cooldown_' \in [Nodes -> BOOLEAN]
        /\ pending_connects_' \in Int /\ pending_connects_' <= max_pending_connects
        /\ refunds' \in Nat /\ PendingExact' /\ NoOrphanConnection'
    <3>1. CASE Try({n}, conn_, cooldown_, pending_connects_) /\ UNCHANGED <<cooldown_, refunds>>
      BY <1>0, <2>1, <3>1, TryKeeps DEF TypeOK
    <3>2. CASE disconnect(n)
      BY <2>1, <3>2, DisconnectEffect DEF NoOrphanConnection
    <3>. QED BY <2>1, <3>1, <3>2
  <2>3. view[n] \in Addrs \cup {Absent}
    BY <1>0 DEF TypeOK, Views
  <2>4. TypeOK'
    BY <1>0, <2>1, <2>2, <2>3 DEF TypeOK, ConnStates
  <2>. QED BY <2>2, <2>4 DEF Inv
<1>9. CASE UpdatesDone
  <2> DEFINE nodes == IF changed THEN sns_ ELSE {}
  <2>1. /\ update' = "none" /\ changed' = FALSE
        /\ Try(nodes, conn_, cooldown_, pending_connects_)
        /\ UNCHANGED <<sns_, addr_, cooldown_, view, todo, refunds>>
    BY <1>9 DEF UpdatesDone, None, nodeVars
  <2>2. nodes \subseteq sns_ /\ nodes \in SUBSET Nodes
    BY <1>0, Zenon
  <2> HIDE DEF nodes
  <2>3. /\ conn_' \in [Nodes -> ConnStates]
        /\ pending_connects_' \in Int /\ pending_connects_' <= max_pending_connects
        /\ PendingExact' /\ NoOrphanConnection'
    BY <2>1, <2>2, TryKeeps
  <2>4. changed' \in BOOLEAN
    BY <2>1, Zenon
  <2>5. TypeOK'
    BY <1>0, <2>1, <2>3, <2>4 DEF TypeOK, ConnStates
  <2>. QED BY <2>3, <2>5 DEF Inv
<1>10. CASE ResponseThrows
  <2>1. /\ update' = "none" /\ todo' = {} /\ changed' = FALSE
        /\ UNCHANGED <<sns_, addr_, conn_, cooldown_, pending_connects_, view, refunds>>
    BY <1>10 DEF ResponseThrows, None, nodeVars
  <2>2. changed' \in BOOLEAN
    BY <2>1, Zenon
  <2>3. TypeOK'
    BY <1>0, <2>1, <2>2 DEF TypeOK
  <2>4. Attempts' = Attempts
    BY <2>1 DEF Attempts
  <2>. QED BY <2>1, <2>3, <2>4 DEF Inv, PendingExact, NoOrphanConnection
<1>. QED BY <1>1, <1>2, <1>3, <1>4, <1>5, <1>6, <1>7, <1>8, <1>9, <1>10 DEF Next, Handling

LEMMA InvAlways == Spec => []Inv
BY InitInv, NextInv, PTL DEF Spec

(* Every state is well-typed; in particular the counter never exceeds the  *)
(* limit.                                                                  *)
THEOREM TypeCorrect == Spec => []TypeOK
BY InvAlways, PTL DEF Inv

(* The counter is exact, up to the slots that disconnect gives back twice, *)
(* for every number of nodes and every limit.                              *)
THEOREM PendingExactHolds == Spec => []PendingExact
BY InvAlways, PTL DEF Inv

(* A node that has left keeps no connection and no attempt. *)
THEOREM NoOrphanConnectionHolds == Spec => []NoOrphanConnection
BY InvAlways, PTL DEF Inv
=============================================================================
