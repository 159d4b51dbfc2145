------------------------ MODULE NotificationsProofs ------------------------
(* Proofs that the notification path keeps its invariants, for every       *)
(* number of accounts, services, devices and messages, every batch size,   *)
(* every filter lifetime and every buffer size.                            *)
EXTENDS Notifications, FiniteSetTheorems, TLAPS

(* A message matches finitely many devices. *)
LEMMA ForwardedFinite ==
    ASSUME TypeOK, NEW m \in Messages
    PROVE  /\ Unfiltered(m) \subseteq FilterKeys
           /\ Forwarded(m) \subseteq FilterKeys
           /\ IsFiniteSet(Forwarded(m))
           /\ Cardinality(Forwarded(m)) \in Nat
<1> DEFINE devices == Services \X SvcIds
           keys == {<<p[1], p[2], m.hash>> : p \in devices}
           key == [p \in devices |-> <<p[1], p[2], m.hash>>]
<1>1. m.hash \in Hashes
  BY NotificationAssumptions
<1>2. FilterKeysOf(m) \subseteq keys /\ keys \subseteq FilterKeys
  <2>1. ASSUME NEW x \in FilterKeysOf(m)
        PROVE  x \in keys
    <3>1. PICK k \in RowKeys : x = <<k[2], k[3], m.hash>>
      BY DEF FilterKeysOf
    <3>2. <<k[2], k[3]>> \in devices
      BY DEF RowKeys
    <3>3. x = <<<<k[2], k[3]>>[1], <<k[2], k[3]>>[2], m.hash>>
      BY <3>1
    <3>. QED BY <3>2, <3>3
  <2>2. keys \subseteq FilterKeys
    BY <1>1 DEF FilterKeys
  <2>. QED BY <2>1, <2>2
<1>3. IsFiniteSet(devices)
  BY FS_Product, NotificationAssumptions
<1>4. key \in Surjection(devices, keys)
  BY DEF Surjection
<1>5. IsFiniteSet(keys)
  <2> HIDE DEF devices, keys, key
  <2>. QED BY <1>3, <1>4, FS_Surjection
<1>6. Unfiltered(m) \subseteq FilterKeysOf(m) /\ Forwarded(m) \subseteq Unfiltered(m)
  BY DEF Unfiltered, Forwarded
<1>7. IsFiniteSet(Forwarded(m))
  <2> HIDE DEF devices, keys, key
  <2>1. Forwarded(m) \in SUBSET keys
    BY <1>2, <1>6, Zenon
  <2>. QED BY <1>5, <2>1, FS_Subset
<1>. QED BY <1>2, <1>6, <1>7, FS_CardinalityType

----------------------------------------------------------------------------
(* Type correctness, one step per action.                                  *)

LEMMA InitTypeOK == Init => TypeOK
BY NotificationAssumptions DEF Init, TypeOK, FilterKeys

LEMMA NextTypeOK == TypeOK /\ [Next]_vars => TypeOK'
<1> SUFFICES ASSUME TypeOK, [Next]_vars PROVE TypeOK'
  OBVIOUS
<1> USE NotificationAssumptions DEF TypeOK
<1>1. CASE Receive
  BY <1>1 DEF Receive, database, filters, history
<1>2. CASE ReceiveNothing
  BY <1>2 DEF ReceiveNothing, database, filters, history
<1>3. CASE BatchBegin
  BY <1>3 DEF BatchBegin, RotateFilter, database, thread, filters, history
<1>4. CASE BatchNotify
  <2> DEFINE m == Head(todo)
  <2>1. m \in Messages
    BY <1>4 DEF BatchNotify
  <2>2. /\ Unfiltered(m) \subseteq FilterKeys
        /\ Cardinality(Forwarded(m)) \in Nat
    BY <2>1, ForwardedFinite
  <2>3. /\ filter_' = filter_ \cup Unfiltered(m)
        /\ nsent' = [k \in FilterKeys |->
                        IF k \in Forwarded(m) THEN nsent[k] + 1 ELSE nsent[k]]
        /\ lastSent' = [k \in FilterKeys |->
                        IF k \in Forwarded(m) THEN now ELSE lastSent[k]]
        /\ notify_count' = notify_count + Cardinality(Forwarded(m))
        /\ sentTotal' = sentTotal + Cardinality(Forwarded(m))
        /\ todo' = Tail(todo) /\ todo # <<>>
        /\ UNCHANGED <<now, database, services_, thread, loop, filter_rotate_,
                       filter_rotate_time_, pushes_processed_, accepted, acceptedTotal>>
    BY <1>4 DEF BatchNotify
  <2> HIDE DEF m
  <2>4. nsent' \in [FilterKeys -> Nat] /\ lastSent' \in [FilterKeys -> Nat]
    BY <2>3
  <2>5. todo' \in Seq(Messages \cup {Junk})
    BY <2>3
  <2>6. filter_' \in SUBSET FilterKeys /\ notify_count' \in Nat /\ sentTotal' \in Nat
    BY <2>2, <2>3
  <2>7. UNCHANGED <<now, rows, service_stats, services_, queue, pc, flags, process,
                    loop, filter_rotate_, filter_rotate_time_, pushes_processed_,
                    accepted, acceptedTotal>>
    BY <2>3 DEF database, thread
  <2>. QED BY <2>4, <2>5, <2>6, <2>7
<1>5. CASE BatchSkipJunk
  BY <1>5 DEF BatchSkipJunk, database, thread, filters, history
<1>6. CASE BatchCommit
  BY <1>6 DEF BatchCommit, CountedStats, ClearBatch, filters, history
<1>7. CASE Tick
  BY <1>7 DEF Tick, database, thread, filters, history
<1>8. CASE CrashAndRestart
  BY <1>8 DEF CrashAndRestart, database
<1>9. ASSUME NEW k \in RowKeys, NEW nss \in SUBSET Namespaces, CommitRow(k, nss)
      PROVE TypeOK'
  BY <1>9 DEF CommitRow, thread, filters, history
<1>10. ASSUME NEW s \in Services, on_reg_service(s)
       PROVE TypeOK'
  BY <1>10 DEF on_reg_service, database, thread, filters, history
<1>11. ASSUME NEW m \in Messages \cup {Junk}, on_message_notification(m)
       PROVE TypeOK'
  BY <1>11 DEF on_message_notification, database, filters
<1>12. CASE UNCHANGED vars
  BY <1>12 DEF vars, database, thread, filters, history
<1>. QED
  BY <1>1, <1>2, <1>3, <1>4, <1>5, <1>6, <1>7, <1>8, <1>9, <1>10, <1>11, <1>12
     DEF Next, process_notifications, Environment

(* Every state of the notification path is well-typed: in particular the   *)
(* filters hold nothing but (service, device, hash) keys.                  *)
THEOREM TypeCorrect == Spec => []TypeOK
BY InitTypeOK, NextTypeOK, PTL DEF Spec

----------------------------------------------------------------------------
(* Duplicates.                                                             *)

LEMMA InitFilterRemembers == Init => FilterRemembers
BY NotificationAssumptions DEF Init, FilterRemembers, FilterKeys

LEMMA NextFilterRemembers ==
    TypeOK /\ FilterRemembers /\ [Next]_vars => FilterRemembers'
<1> SUFFICES ASSUME TypeOK, FilterRemembers, [Next]_vars PROVE FilterRemembers'
  OBVIOUS
<1> USE NotificationAssumptions DEF TypeOK, FilterRemembers
<1>1. CASE UNCHANGED <<now, filters, nsent, lastSent>>
  BY <1>1 DEF filters
<1>2. CASE BatchBegin
  <2>1. UNCHANGED <<now, nsent, lastSent>>
    BY <1>2 DEF BatchBegin, history
  <2>2. CASE now >= filter_rotate_time_
    BY <1>2, <2>1, <2>2 DEF BatchBegin, RotateFilter
  <2>3. CASE ~(now >= filter_rotate_time_)
    BY <1>2, <2>1, <2>3 DEF BatchBegin, RotateFilter, filters
  <2>. QED BY <2>2, <2>3
<1>3. CASE BatchNotify
  <2> DEFINE m == Head(todo)
  <2>1. /\ filter_' = filter_ \cup Unfiltered(m)
        /\ nsent' = [k \in FilterKeys |->
                        IF k \in Forwarded(m) THEN nsent[k] + 1 ELSE nsent[k]]
        /\ lastSent' = [k \in FilterKeys |->
                        IF k \in Forwarded(m) THEN now ELSE lastSent[k]]
        /\ UNCHANGED <<now, filter_rotate_, filter_rotate_time_>>
    BY <1>3 DEF BatchNotify
  <2>2. Forwarded(m) \subseteq Unfiltered(m)
    BY DEF Forwarded
  <2> HIDE DEF m
  <2>3. filter_rotate_time_' <= now' + FilterLifetime
    BY <2>1
  <2>4. ASSUME NEW k \in FilterKeys, nsent'[k] > 0
        PROVE  /\ lastSent'[k] <= now'
               /\ \/ k \in filter_'
                  \/ k \in filter_rotate_' /\ lastSent'[k] + FilterLifetime <= filter_rotate_time_'
                  \/ lastSent'[k] + FilterLifetime <= now'
    <3>1. CASE k \in Forwarded(m)
      BY <2>1, <2>2, <3>1
    <3>2. CASE k \notin Forwarded(m)
      BY <2>1, <2>4, <3>2
    <3>. QED BY <3>1, <3>2
  <2>. QED BY <2>3, <2>4
<1>4. CASE Tick
  BY <1>4 DEF Tick, filters, history
<1>5. CASE CrashAndRestart
  BY <1>5 DEF CrashAndRestart
<1>6. CASE Receive \/ ReceiveNothing \/ BatchSkipJunk \/ BatchCommit
  BY <1>1, <1>6 DEF Receive, ReceiveNothing, BatchSkipJunk, BatchCommit, history
<1>7. ASSUME NEW k \in RowKeys, NEW nss \in SUBSET Namespaces, CommitRow(k, nss)
      PROVE FilterRemembers'
  BY <1>1, <1>7 DEF CommitRow, history
<1>8. ASSUME NEW s \in Services, on_reg_service(s)
      PROVE FilterRemembers'
  BY <1>1, <1>8 DEF on_reg_service, history
<1>9. ASSUME NEW m \in Messages \cup {Junk}, on_message_notification(m)
      PROVE FilterRemembers'
  BY <1>1, <1>9 DEF on_message_notification
<1>10. CASE UNCHANGED vars
  BY <1>1, <1>10 DEF vars, history
<1>. QED
  BY <1>2, <1>3, <1>4, <1>5, <1>6, <1>7, <1>8, <1>9, <1>10
     DEF Next, process_notifications, Environment

(* A step sends a key only if the filters, and so the invariant, allow it. *)
LEMMA StepRespectsFilter ==
    TypeOK /\ FilterRemembers /\ [Next]_vars
        => \A k \in FilterKeys : SendRespectsFilter(k)
<1> SUFFICES ASSUME TypeOK, FilterRemembers, [Next]_vars, NEW k \in FilterKeys
             PROVE  SendRespectsFilter(k)
  OBVIOUS
<1> USE NotificationAssumptions DEF SendRespectsFilter
<1>1. CASE UNCHANGED nsent
  BY <1>1
<1>2. CASE BatchNotify
  <2> DEFINE m == Head(todo)
  <2>1. nsent' = [x \in FilterKeys |->
                    IF x \in Forwarded(m) THEN nsent[x] + 1 ELSE nsent[x]]
    BY <1>2 DEF BatchNotify
  <2>2. k \in Forwarded(m) => k \notin filter_ /\ k \notin filter_rotate_
    BY DEF Forwarded, Unfiltered
  <2> HIDE DEF m
  <2>. QED BY <2>1, <2>2 DEF TypeOK, FilterRemembers
<1>3. CASE CrashAndRestart
  BY <1>3 DEF CrashAndRestart
<1>4. CASE Receive \/ ReceiveNothing \/ BatchBegin \/ BatchSkipJunk \/ BatchCommit \/ Tick
  BY <1>1, <1>4 DEF Receive, ReceiveNothing, BatchBegin, BatchSkipJunk, BatchCommit,
                    Tick, history
<1>5. ASSUME NEW r \in RowKeys, NEW nss \in SUBSET Namespaces, CommitRow(r, nss)
      PROVE UNCHANGED nsent
  BY <1>5 DEF CommitRow, history
<1>6. ASSUME NEW s \in Services, on_reg_service(s)
      PROVE UNCHANGED nsent
  BY <1>6 DEF on_reg_service, history
<1>7. ASSUME NEW m \in Messages \cup {Junk}, on_message_notification(m)
      PROVE UNCHANGED nsent
  BY <1>7 DEF on_message_notification
<1>8. CASE UNCHANGED vars
  BY <1>1, <1>8 DEF vars, history
<1>. QED
  BY <1>1, <1>2, <1>3, <1>4, <1>5, <1>6, <1>7, <1>8
     DEF Next, process_notifications, Environment

(* The filters remember every key for as long as the property needs them. *)
THEOREM FilterRemembersAlways == Spec => []FilterRemembers
BY TypeCorrect, InitFilterRemembers, NextFilterRemembers, PTL DEF Spec

(* No device is notified twice of one message within filter_lifetime, for  *)
(* every lifetime and batch size.                                          *)
THEOREM NoEarlyDuplicateHolds == Spec => NoEarlyDuplicate
BY TypeCorrect, FilterRemembersAlways, StepRespectsFilter, PTL
   DEF Spec, NoEarlyDuplicate

----------------------------------------------------------------------------
(* The filters forget, and remember nothing that was not sent.             *)

LEMMA NextFilterForgets ==
    TypeOK /\ FilterRemembers /\ FilterForgets /\ [Next]_vars => FilterForgets'
<1> SUFFICES ASSUME TypeOK, FilterRemembers, FilterForgets, [Next]_vars
             PROVE  FilterForgets'
  OBVIOUS
<1> USE NotificationAssumptions DEF TypeOK, FilterForgets
<1>1. CASE UNCHANGED <<services_, filters, nsent, lastSent>>
  BY <1>1 DEF filters
<1>2. CASE BatchBegin
  <2>1. UNCHANGED <<now, services_, nsent, lastSent>>
    BY <1>2 DEF BatchBegin, history
  <2>2. CASE now >= filter_rotate_time_
    BY <1>2, <2>1, <2>2 DEF BatchBegin, RotateFilter, FilterRemembers
  <2>3. CASE ~(now >= filter_rotate_time_)
    BY <1>2, <2>1, <2>3 DEF BatchBegin, RotateFilter, filters
  <2>. QED BY <2>2, <2>3
<1>3. CASE BatchNotify
  <2> DEFINE m == Head(todo)
  <2>1. /\ filter_' = filter_ \cup Unfiltered(m)
        /\ nsent' = [k \in FilterKeys |->
                        IF k \in Forwarded(m) THEN nsent[k] + 1 ELSE nsent[k]]
        /\ lastSent' = [k \in FilterKeys |->
                        IF k \in Forwarded(m) THEN now ELSE lastSent[k]]
        /\ UNCHANGED <<services_, filter_rotate_, filter_rotate_time_>>
    BY <1>3 DEF BatchNotify
  <2>2. /\ Forwarded(m) = {k \in Unfiltered(m) : k[1] \in services_}
        /\ \A k \in Unfiltered(m) : k \notin filter_rotate_
    BY DEF Forwarded, Unfiltered
  <2> HIDE DEF m
  <2>3. ASSUME NEW k \in FilterKeys, nsent'[k] > 0
        PROVE  /\ k[1] \in services_'
               /\ k \in filter_' => lastSent'[k] + FilterLifetime >= filter_rotate_time_'
               /\ k \in filter_rotate_' => lastSent'[k] + FilterLifetime <= filter_rotate_time_'
    <3>1. CASE k \in Forwarded(m)
      BY <2>1, <2>2, <3>1 DEF FilterRemembers
    <3>2. CASE k \notin Forwarded(m)
      <4>1. nsent[k] > 0 /\ lastSent'[k] = lastSent[k]
        BY <2>1, <2>3, <3>2
      <4>2. k[1] \in services_
        BY <4>1
      <4>3. k \notin Unfiltered(m)
        BY <2>2, <3>2, <4>2
      <4>. QED BY <2>1, <4>1, <4>2, <4>3
    <3>. QED BY <3>1, <3>2
  <2>. QED BY <2>3
<1>4. CASE CrashAndRestart
  BY <1>4 DEF CrashAndRestart
<1>5. CASE Receive \/ ReceiveNothing \/ BatchSkipJunk \/ BatchCommit \/ Tick
  BY <1>1, <1>5 DEF Receive, ReceiveNothing, BatchSkipJunk, BatchCommit, Tick, history
<1>6. ASSUME NEW k \in RowKeys, NEW nss \in SUBSET Namespaces, CommitRow(k, nss)
      PROVE FilterForgets'
  BY <1>1, <1>6 DEF CommitRow, history
<1>7. ASSUME NEW s \in Services, on_reg_service(s)
      PROVE FilterForgets'
  BY <1>7 DEF on_reg_service, filters, history
<1>8. ASSUME NEW m \in Messages \cup {Junk}, on_message_notification(m)
      PROVE FilterForgets'
  BY <1>1, <1>8 DEF on_message_notification
<1>9. CASE UNCHANGED vars
  BY <1>1, <1>9 DEF vars, history
<1>. QED
  BY <1>2, <1>3, <1>4, <1>5, <1>6, <1>7, <1>8, <1>9
     DEF Next, process_notifications, Environment

(* A key is suppressed until the second rotation after it was sent, and no *)
(* longer, for every lifetime and whatever delays the rotations.           *)
THEOREM FilterForgetsAlways == Spec => []FilterForgets
<1>1. Init => FilterForgets
  BY DEF Init, FilterForgets
<1>. QED
  BY <1>1, TypeCorrect, FilterRemembersAlways, NextFilterForgets, PTL DEF Spec

----------------------------------------------------------------------------
(* Hand-over between the event loop and the notification thread.           *)

(* What a running batch has left is a suffix of it, and so is its tail. *)
LEMMA TailOfBatch ==
    ASSUME TypeOK, NothingLost, loop = "batch", todo # <<>>
    PROVE  /\ Len(Tail(todo)) <= Len(process)
           /\ \A i \in 1..Len(Tail(todo)) :
                 Tail(todo)[i] = process[Len(process) - Len(Tail(todo)) + i]
<1> DEFINE M == Messages \cup {Junk}
<1>1. todo \in Seq(M) /\ process \in Seq(M)
  BY DEF TypeOK
<1> HIDE DEF M
<1>2. /\ Len(todo) <= Len(process)
      /\ \A i \in 1..Len(todo) : todo[i] = process[Len(process) - Len(todo) + i]
  BY DEF NothingLost
<1>3. Len(todo) \in Nat /\ Len(process) \in Nat /\ Len(todo) > 0
  BY <1>1
<1>4. Len(Tail(todo)) = Len(todo) - 1
  BY <1>1
<1>5. ASSUME NEW i \in 1..Len(Tail(todo))
      PROVE  Tail(todo)[i] = process[Len(process) - Len(Tail(todo)) + i]
  <2>1. i + 1 \in 1..Len(todo) /\ Tail(todo)[i] = todo[i + 1]
    BY <1>1, <1>3, <1>4
  <2>2. Len(process) - Len(todo) + (i + 1) = Len(process) - Len(Tail(todo)) + i
    BY <1>3, <1>4
  <2>. QED BY <1>2, <2>1, <2>2
<1>. QED BY <1>2, <1>3, <1>4, <1>5

HandoverInv == NothingLost /\ NoSleepWithWork /\ StatsNeverOverReport

LEMMA InitHandoverInv == Init => HandoverInv
BY DEF Init, HandoverInv, NothingLost, NoSleepWithWork, StatsNeverOverReport

LEMMA NextHandoverInv == TypeOK /\ HandoverInv /\ [Next]_vars => HandoverInv'
<1> SUFFICES ASSUME TypeOK, HandoverInv, [Next]_vars PROVE HandoverInv'
  OBVIOUS
<1> USE NotificationAssumptions
    DEF TypeOK, HandoverInv, NothingLost, NoSleepWithWork, StatsNeverOverReport
<1>1. CASE UNCHANGED <<service_stats, thread, loop, todo, notify_count,
                       pushes_processed_, history>>
  BY <1>1 DEF thread, history
<1>2. CASE Receive
  BY <1>2 DEF Receive, database, history
<1>3. CASE ReceiveNothing
  BY <1>3 DEF ReceiveNothing, BatchIsReady, database, history
<1>4. CASE BatchBegin
  BY <1>4 DEF BatchBegin, database, thread, history
<1>5. CASE BatchNotify
  <2>1. Head(todo) \in Messages
    BY <1>5, SMTT(30) DEF BatchNotify
  <2>2. Cardinality(Forwarded(Head(todo))) \in Nat
    BY <2>1, ForwardedFinite
  <2>3. PICK n \in Nat : notify_count' = notify_count + n /\ sentTotal' = sentTotal + n
    BY <1>5, <2>2 DEF BatchNotify
  <2>4. /\ loop = "batch" /\ todo # <<>> /\ todo' = Tail(todo)
        /\ UNCHANGED <<service_stats, thread, loop, pushes_processed_, accepted, acceptedTotal>>
    BY <1>5 DEF BatchNotify, database
  <2>5. /\ Len(Tail(todo)) <= Len(process)
        /\ \A i \in 1..Len(Tail(todo)) :
                Tail(todo)[i] = process[Len(process) - Len(Tail(todo)) + i]
    BY <2>4, TailOfBatch
  <2>6. NothingLost'
    BY <2>4, <2>5 DEF thread
  <2>7. NoSleepWithWork' /\ StatsNeverOverReport'
    BY <2>3, <2>4, SMTT(30) DEF thread
  <2>. QED BY <2>6, <2>7
<1>6. CASE BatchSkipJunk
  <2>1. /\ loop = "batch" /\ todo # <<>> /\ todo' = Tail(todo)
        /\ UNCHANGED <<service_stats, thread, loop, notify_count, pushes_processed_, history>>
    BY <1>6 DEF BatchSkipJunk, database
  <2>2. /\ Len(Tail(todo)) <= Len(process)
        /\ \A i \in 1..Len(Tail(todo)) :
                Tail(todo)[i] = process[Len(process) - Len(Tail(todo)) + i]
    BY <2>1, TailOfBatch
  <2>3. NothingLost'
    BY <2>1, <2>2 DEF thread, history
  <2>4. NoSleepWithWork' /\ StatsNeverOverReport'
    BY <2>1 DEF thread, history
  <2>. QED BY <2>3, <2>4
<1>7. CASE BatchCommit
  BY <1>7 DEF BatchCommit, CountedStats, ClearBatch, history
<1>8. CASE Tick
  BY <1>1, <1>8 DEF Tick, database
<1>9. CASE CrashAndRestart
  BY <1>9 DEF CrashAndRestart, database
<1>10. ASSUME NEW k \in RowKeys, NEW nss \in SUBSET Namespaces, CommitRow(k, nss)
       PROVE HandoverInv'
  BY <1>1, <1>10 DEF CommitRow
<1>11. ASSUME NEW s \in Services, on_reg_service(s)
       PROVE HandoverInv'
  BY <1>1, <1>11 DEF on_reg_service, database
<1>12. ASSUME NEW m \in Messages \cup {Junk}, on_message_notification(m)
       PROVE HandoverInv'
  BY <1>12, SMTT(30) DEF on_message_notification, database
<1>13. CASE UNCHANGED vars
  BY <1>1, <1>13 DEF vars, database
<1>. QED
  BY <1>2, <1>3, <1>4, <1>5, <1>6, <1>7, <1>8, <1>9, <1>10, <1>11, <1>12, <1>13
     DEF Next, process_notifications, Environment

(* No notification is lost between the QUIC callback and its batch, for    *)
(* every batch size and every buffer size.                                 *)
THEOREM NothingLostHolds == Spec => []NothingLost
<1>1. Spec => []HandoverInv
  BY TypeCorrect, InitHandoverInv, NextHandoverInv, PTL DEF Spec
<1>. QED BY <1>1, PTL DEF HandoverInv

(* The notification thread never sleeps on collected notifications. *)
THEOREM NoSleepWithWorkHolds == Spec => []NoSleepWithWork
<1>1. Spec => []HandoverInv
  BY TypeCorrect, InitHandoverInv, NextHandoverInv, PTL DEF Spec
<1>. QED BY <1>1, PTL DEF HandoverInv

(* Committed statistics never exceed what was sent and received, over any  *)
(* number of crashes.                                                      *)
THEOREM StatsNeverOverReportHolds == Spec => []StatsNeverOverReport
<1>1. Spec => []HandoverInv
  BY TypeCorrect, InitHandoverInv, NextHandoverInv, PTL DEF Spec
<1>. QED BY <1>1, PTL DEF HandoverInv
============================================================================
