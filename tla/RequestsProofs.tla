--------------------------- MODULE RequestsProofs ---------------------------
(* Proofs that requests are answered at most once and completely, for      *)
(* every number of requests, elements and services.                        *)
EXTENDS Requests, FiniteSetTheorems, SequenceTheorems, TLAPS

LEMMA InitTypeOK == Init => TypeOK
<1> SUFFICES ASSUME Init PROVE TypeOK
  OBVIOUS
<1> USE RequestAssumptions DEF Init
<1>1. waitOver \in BOOLEAN /\ ready \in BOOLEAN
  BY Zenon
<1>6. /\ main \in {"wait", "drain", "done"}
      /\ services_ \in SUBSET Services
      /\ deferred_ \in Seq(Requests) /\ tagged \in SUBSET Requests
  OBVIOUS
<1>2. /\ hpc \in [Requests -> HandlerStates]
      /\ size \in [Requests -> 0..MaxSize] /\ idx \in [Requests -> Nat]
  BY DEF HandlerStates
<1>3. elem \in [Requests -> [Elements -> ElementStates]]
  BY DEF ElementStates
<1>4. /\ val \in [Requests -> [Elements -> Codes \cup {NotSet}]]
      /\ response \in [Requests -> [Elements -> Codes \cup {NotSet}]]
  BY DEF NoResults
<1>5. remaining \in [Requests -> Int] /\ replies \in [Requests -> Seq(Reply)]
  OBVIOUS
<1>. QED BY <1>1, <1>2, <1>3, <1>4, <1>5, <1>6 DEF TypeOK

LEMMA NextTypeOK == TypeOK /\ [Next]_vars => TypeOK'
<1> SUFFICES ASSUME TypeOK, [Next]_vars PROVE TypeOK'
  OBVIOUS
<1> USE RequestAssumptions DEF TypeOK, HandlerStates, ElementStates, At, Goto, deferral
<1>1. CASE NotifierWaitPasses
  BY <1>1 DEF NotifierWaitPasses, results
<1>2. ASSUME NEW s \in Services, on_reg_service(s) PROVE TypeOK'
  BY <1>2 DEF on_reg_service, results
<1>3. CASE Startup
  <2>1. CASE SetReady
    BY <2>1 DEF SetReady, results
  <2>2. CASE RunDeferred
    BY <2>2 DEF RunDeferred, startup, results
  <2>3. CASE PopDeferred
    BY <2>3 DEF PopDeferred, startup, results
  <2>4. CASE DrainDone
    BY <2>4 DEF DrainDone, results
  <2>. QED BY <1>3, <2>1, <2>2, <2>3, <2>4 DEF Startup
<1>4. ASSUME NEW r \in Requests, Arrive(r) PROVE TypeOK'
  BY <1>4 DEF Arrive, startup, results
<1>5. ASSUME NEW r \in Requests, Handler(r) PROVE TypeOK'
  <2>1. CASE ready_or_defer(r)
    BY <2>1 DEF ready_or_defer, startup, results
  <2>7. CASE defer_request(r)
    <3>1. deferred_' = deferred_ \/ deferred_' = Append(deferred_, r)
      BY <2>7, Zenon DEF defer_request, DeferredRequest
    <3>2. hpc' \in [Requests -> HandlerStates]
      BY <2>7 DEF defer_request, DeferredRequest
    <3>3. Append(deferred_, r) \in Seq(Requests)
      BY AppendProperties
    <3>4. deferred_' \in Seq(Requests)
      BY <3>1, <3>3, Zenon
    <3>5. tagged' = tagged \/ tagged' = tagged \ {r}
      BY <2>7, Zenon DEF defer_request, DeferredRequest
    <3>6. tagged' \in SUBSET Requests
      BY <3>5, Zenon
    <3>. QED BY <2>7, <3>2, <3>4, <3>6 DEF defer_request, startup, results
  <2>2. ASSUME NEW error \in RequestErrors, RejectBody(r, error) PROVE TypeOK'
    <3>1. [error |-> error, results |-> NoResults] \in Reply
      BY DEF Reply, NoResults
    <3>2. replies' \in [Requests -> Seq(Reply)]
      BY <2>2, <3>1 DEF RejectBody
    <3>. QED BY <2>2, <3>2 DEF RejectBody, startup
  <2>3. ASSUME NEW n \in 0..MaxSize, AcceptBody(r, n) PROVE TypeOK'
    BY <2>3 DEF AcceptBody, InitialRemaining, startup
  <2>4. ASSUME NEW code \in Codes, ElementFails(r, code) PROVE TypeOK'
    BY <2>4 DEF ElementFails, startup
  <2>5. CASE ElementInvalid(r) \/ ServiceNotAvailable(r)
    BY <2>4, <2>5 DEF ElementInvalid, ServiceNotAvailable, Codes
  <2>6. CASE RequestValidation(r)
    <3>1. hpc' \in [Requests -> HandlerStates] /\ idx' \in [Requests -> Nat]
      BY <2>6 DEF RequestValidation, AfterElement
    <3>2. elem' \in [Requests -> [Elements -> ElementStates]]
      BY <2>6 DEF RequestValidation
    <3>. QED BY <2>6, <3>1, <3>2 DEF RequestValidation, startup
  <2>. QED BY <1>5, <2>1, <2>2, <2>3, <2>5, <2>6, <2>7 DEF Handler
<1>6. ASSUME NEW r \in Requests, NEW e \in Elements, Callback(r, e) PROVE TypeOK'
  <2>1. CASE ValidationFails(r, e)
    BY <2>1 DEF ValidationFails, Codes, startup
  <2>2. CASE ValidationSucceeds(r, e)
    BY <2>2 DEF ValidationSucceeds, startup
  <2>3. CASE Applied(r, e)
    BY <2>3 DEF Applied, Codes, startup
  <2>4. CASE StoreResponse(r, e)
    BY <2>4 DEF StoreResponse, startup
  <2>5. CASE CountDown(r, e)
    <3>1. hpc' \in [Requests -> HandlerStates] /\ idx' \in [Requests -> Nat]
      <4>1. CASE AfterElement(r)
        BY <4>1 DEF AfterElement
      <4>2. CASE UNCHANGED <<hpc, idx>>
        BY <4>2
      <4>. QED BY <2>5, <4>1, <4>2, Zenon DEF CountDown
    <3>2. /\ elem' \in [Requests -> [Elements -> ElementStates]]
          /\ remaining' \in [Requests -> Int]
      BY <2>5 DEF CountDown
    <3>3. [error |-> "none", results |-> response[r]] \in Reply
      BY DEF Reply
    <3>4. replies' \in [Requests -> Seq(Reply)]
      BY <2>5, <3>3 DEF CountDown
    <3>. QED BY <2>5, <3>1, <3>2, <3>4 DEF CountDown, startup
  <2>. QED BY <1>6, <2>1, <2>2, <2>3, <2>4, <2>5 DEF Callback
<1>7. CASE UNCHANGED vars
  BY <1>7 DEF vars, startup, results
<1>. QED BY <1>1, <1>2, <1>3, <1>4, <1>5, <1>6, <1>7 DEF Next

(* Every state of the request pipeline is well-typed. *)
THEOREM TypeCorrect == Spec => []TypeOK
BY InitTypeOK, NextTypeOK, PTL DEF Spec

----------------------------------------------------------------------------
(* Startup and deferral.                                                   *)

LEMMA InitStartupInv == Init => StartupInv
BY DEF Init, StartupInv, At

LEMMA NextStartupInv == TypeOK /\ StartupInv /\ [Next]_vars => StartupInv'
<1> SUFFICES ASSUME TypeOK, StartupInv, [Next]_vars PROVE StartupInv'
  OBVIOUS
<1> USE DEF StartupInv, At, Goto, deferral
<1>1. CASE NotifierWaitPasses
  BY <1>1 DEF NotifierWaitPasses
<1>2. ASSUME NEW s \in Services, on_reg_service(s) PROVE StartupInv'
  BY <1>2 DEF on_reg_service
<1>3. CASE SetReady
  BY <1>3 DEF SetReady, notifier_startup_done
<1>4. CASE RunDeferred
  BY <1>4 DEF RunDeferred, startup, TypeOK
<1>5. CASE PopDeferred
  <2>1. /\ deferred_ # <<>> /\ deferred_' = Tail(deferred_)
        /\ hpc[Head(deferred_)] = "done"
        /\ UNCHANGED <<main, waitOver, services_, ready, hpc>>
        /\ main = "drain"
    BY <1>5 DEF PopDeferred, startup
  <2>2. ASSUME NEW r \in Requests, hpc'[r] = "deferred"
        PROVE  \E i \in 1..Len(deferred_') : deferred_'[i] = r
    <3>1. PICK i \in 1..Len(deferred_) : deferred_[i] = r
      BY <2>1, <2>2
    <3>2. i # 1
      <4>1. Head(deferred_) = deferred_[1]
        BY <2>1 DEF TypeOK
      <4>. QED BY <2>1, <2>2, <3>1, <4>1, Zenon
    <3>3. i - 1 \in 1..Len(deferred_') /\ deferred_'[i - 1] = r
      BY <2>1, <3>1, <3>2 DEF TypeOK
    <3>. QED BY <3>3
  <2>. QED BY <2>1, <2>2
<1>6. CASE DrainDone
  BY <1>6 DEF DrainDone
<1>7. ASSUME NEW r \in Requests, Arrive(r) PROVE StartupInv'
  BY <1>7 DEF Arrive, startup, TypeOK
<1>8. ASSUME NEW r \in Requests, ready_or_defer(r) PROVE StartupInv'
  <2>1. UNCHANGED <<main, waitOver, services_, ready, deferred_>>
    BY <1>8 DEF ready_or_defer, startup
  <2>2. CASE ready
    BY <1>8, <2>1, <2>2 DEF ready_or_defer, TypeOK
  <2>3. CASE ~ready
    BY <1>8, <2>1, <2>3 DEF ready_or_defer, TypeOK
  <2>. QED BY <2>2, <2>3
<1>9. ASSUME NEW r \in Requests, defer_request(r) PROVE StartupInv'
  <2>1. UNCHANGED <<main, waitOver, services_, ready>>
    BY <1>9 DEF defer_request, startup
  <2>2. CASE ready
    <3>1. hpc' = [hpc EXCEPT ![r] = "called"] /\ UNCHANGED deferred_
      BY <1>9, <2>2, Zenon DEF defer_request
    <3>. QED BY <2>1, <3>1 DEF TypeOK
  <2>3. CASE ~ready
    <3>1. deferred_' = Append(deferred_, r) /\ hpc' = [hpc EXCEPT ![r] = "deferred"]
      BY <1>9, <2>3 DEF defer_request, DeferredRequest
    <3>2. ASSUME NEW q \in Requests, hpc'[q] = "deferred"
          PROVE  \E i \in 1..Len(deferred_') : deferred_'[i] = q
      <4>1. CASE q = r
        <5>1. Len(deferred_') \in 1..Len(deferred_') /\ deferred_'[Len(deferred_')] = r
          BY <3>1, AppendProperties DEF TypeOK
        <5>. QED BY <4>1, <5>1
      <4>2. CASE q # r
        <5>1. PICK i \in 1..Len(deferred_) : deferred_[i] = q
          BY <3>1, <3>2, <4>2 DEF TypeOK
        <5>2. i \in 1..Len(deferred_') /\ deferred_'[i] = q
          BY <3>1, <5>1 DEF TypeOK
        <5>. QED BY <5>2
      <4>. QED BY <4>1, <4>2
    <3>. QED BY <2>1, <2>3, <3>1, <3>2 DEF TypeOK
  <2>. QED BY <2>2, <2>3
<1>10. ASSUME NEW r \in Requests, UNCHANGED <<startup, deferred_>>,
              hpc' = [hpc EXCEPT ![r] = hpc'[r]],
              hpc[r] \in {"parse", "element", "storing"},
              hpc'[r] # "deferred"
       PROVE  StartupInv'
  BY <1>10 DEF startup, TypeOK
<1>11. ASSUME NEW r \in Requests,
              \/ \E error \in RequestErrors : RejectBody(r, error)
              \/ \E n \in 0..MaxSize : AcceptBody(r, n)
       PROVE  StartupInv'
  BY <1>10, <1>11, ZenonT(60) DEF RejectBody, AcceptBody, TypeOK
<1>12. ASSUME NEW r \in Requests,
              ElementInvalid(r) \/ ServiceNotAvailable(r) \/ RequestValidation(r)
       PROVE  StartupInv'
  BY <1>10, <1>12, ZenonT(60) DEF ElementInvalid, ServiceNotAvailable, ElementFails,
                      RequestValidation, AfterElement, TypeOK
<1>13. CASE UNCHANGED <<startup, deferred_, hpc>>
  BY <1>13 DEF startup
<1>14. ASSUME NEW r \in Requests, NEW e \in Elements, Callback(r, e) PROVE StartupInv'
  <2>1. CASE CountDown(r, e) /\ hpc[r] = "storing" /\ idx[r] = e
    BY <1>10, <2>1, ZenonT(60) DEF CountDown, AfterElement, TypeOK
  <2>2. CASE CountDown(r, e) /\ ~(hpc[r] = "storing" /\ idx[r] = e)
    BY <1>13, <2>2 DEF CountDown
  <2>3. CASE ValidationFails(r, e) \/ ValidationSucceeds(r, e) \/ Applied(r, e)
             \/ StoreResponse(r, e)
    BY <1>13, <2>3 DEF ValidationFails, ValidationSucceeds, Applied, StoreResponse
  <2>. QED BY <1>14, <2>1, <2>2, <2>3 DEF Callback
<1>15. CASE UNCHANGED vars
  BY <1>13, <1>15 DEF vars
<1>. QED
  BY <1>1, <1>2, <1>3, <1>4, <1>5, <1>6, <1>7, <1>8, <1>9, <1>11, <1>12, <1>14, <1>15
     DEF Next, Startup, Handler

(* No request that was deferred during startup is forgotten. *)
THEOREM NothingStrandedHolds == Spec => []NothingStranded
<1>1. Spec => []StartupInv
  BY TypeCorrect, InitStartupInv, NextStartupInv, PTL DEF Spec
<1>2. StartupInv => NothingStranded
  BY DEF StartupInv, NothingStranded
<1>. QED BY <1>1, <1>2, PTL

----------------------------------------------------------------------------
(* Unavailable notifiers.                                                  *)

LEMMA NextUnavailable ==
    TypeOK /\ StartupInv /\ UnavailableOnlyAfterWait /\ [Next]_vars
        => UnavailableOnlyAfterWait'
<1> SUFFICES ASSUME TypeOK, StartupInv, UnavailableOnlyAfterWait, [Next]_vars,
                    NEW q \in Requests, NEW d \in Elements,
                    val'[q][d] = "SERVICE_NOT_AVAILABLE",
                    ServiceOf[d] \in notifiers_expected
             PROVE  waitOver'
  BY DEF UnavailableOnlyAfterWait
<1>1. waitOver => waitOver'
  BY DEF Next, vars, NotifierWaitPasses, on_reg_service, Startup, SetReady, RunDeferred,
         PopDeferred, DrainDone, Arrive, Handler, ready_or_defer, defer_request, RejectBody,
         AcceptBody, ElementInvalid, ServiceNotAvailable, ElementFails, RequestValidation,
         Callback, ValidationFails, ValidationSucceeds, Applied, StoreResponse, CountDown,
         startup
<1>2. CASE val[q][d] = "SERVICE_NOT_AVAILABLE"
  BY <1>1, <1>2 DEF UnavailableOnlyAfterWait
<1>3. CASE val[q][d] # "SERVICE_NOT_AVAILABLE"
  <2>1. ~ UNCHANGED val
    BY <1>3
  <2>2. CASE \E r \in Requests : ServiceNotAvailable(r)
    <3>1. PICK r \in Requests : ServiceNotAvailable(r)
      BY <2>2
    <3>2. /\ hpc[r] = "element" /\ ServiceOf[idx[r]] \notin services_
          /\ val' = [val EXCEPT ![r][idx[r]] = "SERVICE_NOT_AVAILABLE"]
      BY <3>1 DEF ServiceNotAvailable, ElementFails, At
    <3>3. d = idx[r]
      BY <1>3, <3>2 DEF TypeOK
    <3>. QED BY <1>1, <3>2, <3>3 DEF StartupInv
  <2>3. CASE \E r \in Requests : ElementInvalid(r)
    BY <1>3, <2>3 DEF ElementInvalid, ElementFails, TypeOK
  <2>4. CASE \E r \in Requests, e \in Elements : ValidationFails(r, e) \/ Applied(r, e)
    <3>1. PICK r \in Requests, e \in Elements, code \in Codes \ {"SERVICE_NOT_AVAILABLE"} :
                val' = [val EXCEPT ![r][e] = code]
      BY <2>4, ZenonT(60) DEF ValidationFails, Applied, Codes
    <3>2. val'[q][d] = val[q][d] \/ val'[q][d] = code
      BY <3>1 DEF TypeOK
    <3>. QED BY <1>3, <3>2
  <2>. QED
    BY <2>1, <2>2, <2>3, <2>4
       DEF Next, vars, NotifierWaitPasses, on_reg_service, Startup, SetReady, RunDeferred,
           PopDeferred, DrainDone, Arrive, Handler, ready_or_defer, defer_request, RejectBody,
           AcceptBody, RequestValidation, Callback, ValidationSucceeds, StoreResponse,
           CountDown, results
<1>. QED BY <1>2, <1>3

(* A request that had to wait for startup is not refused for want of an    *)
(* expected notifier, unless notifier_wait passed without it.              *)
THEOREM UnavailableOnlyAfterWaitHolds == Spec => []UnavailableOnlyAfterWait
<1>1. Spec => []StartupInv
  BY TypeCorrect, InitStartupInv, NextStartupInv, PTL DEF Spec
<1>2. Init => UnavailableOnlyAfterWait
  BY DEF Init, UnavailableOnlyAfterWait, NoResults, NotSet
<1>. QED BY <1>1, <1>2, TypeCorrect, NextUnavailable, PTL DEF Spec

----------------------------------------------------------------------------
(* Counting the outcomes of a request down to its reply.                   *)

LEMMA InitCountingInv == TypeOK /\ Init => CountingInv
<1> SUFFICES ASSUME TypeOK, Init, NEW r \in Requests PROVE CountedOf(r)
  BY DEF CountingInv
<1>1. Uncounted(r) = {}
  BY DEF Init, Uncounted
<1>. QED BY <1>1, FS_EmptySet DEF Init, CountedOf

(* A step that leaves everything of a request alone keeps its part. *)
LEMMA CountedFrame ==
    ASSUME NEW r, CountedOf(r),
           hpc'[r] = hpc[r], size'[r] = size[r], idx'[r] = idx[r], elem'[r] = elem[r],
           val'[r] = val[r], response'[r] = response[r], remaining'[r] = remaining[r],
           replies'[r] = replies[r]
    PROVE  CountedOf(r)'
<1>1. Uncounted(r)' = Uncounted(r)
  BY DEF Uncounted
<1>. QED BY <1>1 DEF CountedOf

LEMMA UncountedFinite ==
    ASSUME TypeOK, NEW r \in Requests
    PROVE  IsFiniteSet(Uncounted(r)) /\ Cardinality(Uncounted(r)) \in Nat
<1>1. size[r] \in Nat
  BY RequestAssumptions DEF TypeOK
<1>2. IsFiniteSet(1..size[r])
  BY <1>1, FS_Interval
<1>3. Uncounted(r) \in SUBSET (1..size[r])
  BY DEF Uncounted
<1>. QED BY <1>2, <1>3, FS_Subset, FS_CardinalityType

LEMMA SizeInElements ==
    ASSUME TypeOK, NEW r \in Requests
    PROVE  1..size[r] \subseteq Elements
BY RequestAssumptions DEF TypeOK, Elements

(* The handler moves on without touching the outcomes: before parsing. *)
LEMMA CountedMove ==
    ASSUME TypeOK, NEW r \in Requests, CountedOf(r), UNCHANGED <<size, idx, results>>,
           hpc[r] \in {"idle", "called", "defer", "deferred"},
           hpc'[r] \in {"called", "defer", "deferred", "parse"}
    PROVE  CountedOf(r)'
<1>1. Uncounted(r)' = Uncounted(r)
  BY DEF Uncounted, results
<1>. QED BY <1>1 DEF CountedOf, results, TypeOK

LEMMA CountedReject ==
    ASSUME TypeOK, NEW r \in Requests, CountedOf(r), NEW error, RejectBody(r, error)
    PROVE  CountedOf(r)'
<1>1. Uncounted(r)' = Uncounted(r)
  BY DEF Uncounted, RejectBody
<1>2. /\ hpc[r] = "parse" /\ hpc'[r] = "done"
      /\ Len(replies'[r]) = 1
  BY DEF RejectBody, At, Goto, CountedOf, TypeOK
<1>. QED BY <1>1, <1>2 DEF CountedOf, RejectBody, TypeOK

LEMMA CountedAccept ==
    ASSUME TypeOK, NEW r \in Requests, CountedOf(r), NEW n \in 0..MaxSize, AcceptBody(r, n)
    PROVE  CountedOf(r)'
<1>1. /\ hpc[r] = "parse" /\ hpc'[r] = "element" /\ n > 0
      /\ size'[r] = n /\ remaining'[r] = n
      /\ UNCHANGED <<idx, elem, val, response, replies>>
  BY RequestAssumptions DEF AcceptBody, AcceptSize, InitialRemaining, At, Goto, TypeOK
<1>2. size[r] = 0 /\ idx[r] = 1 /\ replies[r] = <<>>
  BY <1>1 DEF CountedOf
<1>3. \A e \in Elements : elem[r][e] = "none"
  BY <1>2 DEF CountedOf, Elements
<1>4. Uncounted(r)' = 1..n
  BY <1>1, <1>3, RequestAssumptions DEF Uncounted, Elements
<1>5. Cardinality(1..n) = n /\ 1..n # {}
  <2>1. n \in Nat
    BY RequestAssumptions
  <2>2. Cardinality(1..n) = n
    BY <1>1, <2>1, FS_Interval
  <2>. QED BY <1>1, <2>1, <2>2
<1>. QED BY <1>1, <1>2, <1>3, <1>4, <1>5 DEF CountedOf

LEMMA CountedElementFails ==
    ASSUME TypeOK, NEW r \in Requests, CountedOf(r), NEW code \in Codes,
           ElementFails(r, code)
    PROVE  CountedOf(r)'
<1>1. /\ hpc[r] = "element" /\ hpc'[r] = "storing"
      /\ UNCHANGED <<size, idx, response, remaining, replies>>
  BY DEF ElementFails, At, Goto, TypeOK
<1>2. idx[r] \in Elements /\ idx[r] <= size[r]
  BY <1>1, RequestAssumptions DEF CountedOf, TypeOK, Elements
<1>3. elem[r][idx[r]] = "none"
  BY <1>1, <1>2 DEF CountedOf, TypeOK
<1>4. \A e \in Elements :
        /\ elem'[r][e] = IF e = idx[r] THEN "store" ELSE elem[r][e]
        /\ val'[r][e] = IF e = idx[r] THEN code ELSE val[r][e]
  BY <1>2 DEF ElementFails, TypeOK
<1>5. Uncounted(r)' = Uncounted(r)
  BY <1>1, <1>3, <1>4, SizeInElements DEF Uncounted
<1>6. code # NotSet
  BY DEF Codes, NotSet
<1>. QED BY <1>1, <1>2, <1>3, <1>4, <1>5, <1>6 DEF CountedOf, TypeOK

LEMMA CountedRequestValidation ==
    ASSUME TypeOK, NEW r \in Requests, CountedOf(r), RequestValidation(r)
    PROVE  CountedOf(r)'
<1>1. /\ hpc[r] = "element"
      /\ hpc'[r] = IF idx[r] < size[r] THEN "element" ELSE "done"
      /\ idx'[r] = idx[r] + 1
      /\ UNCHANGED <<size, val, response, remaining, replies>>
  BY DEF RequestValidation, AfterElement, At, Goto, TypeOK
<1>2. idx[r] \in Elements /\ idx[r] <= size[r] /\ idx[r] \in Nat /\ size[r] \in Nat
  BY <1>1, RequestAssumptions DEF CountedOf, TypeOK, Elements
<1>3. elem[r][idx[r]] = "none"
  BY <1>1, <1>2 DEF CountedOf, TypeOK
<1>4. \A e \in Elements :
        elem'[r][e] = IF e = idx[r] THEN "validating" ELSE elem[r][e]
  BY <1>2 DEF RequestValidation, TypeOK
<1>5. Uncounted(r)' = Uncounted(r)
  BY <1>1, <1>3, <1>4, SizeInElements DEF Uncounted
<1>. QED BY <1>1, <1>2, <1>3, <1>4, <1>5 DEF CountedOf, Elements

(* A callback works on an element that the handler has left behind. *)
LEMMA CountedProgress ==
    ASSUME TypeOK, NEW r \in Requests, CountedOf(r), NEW e \in Elements,
           \/ ValidationFails(r, e) \/ ValidationSucceeds(r, e)
           \/ Applied(r, e) \/ StoreResponse(r, e)
    PROVE  CountedOf(r)'
<1>1. UNCHANGED <<hpc, size, idx, remaining, replies>>
  BY DEF ValidationFails, ValidationSucceeds, Applied, StoreResponse
<1>2. /\ elem[r][e] \in {"validating", "applying", "store"}
      /\ \A d \in Elements \ {e} : /\ elem'[r][d] = elem[r][d]
                                   /\ val'[r][d] = val[r][d]
                                   /\ response'[r][d] = response[r][d]
  BY DEF ValidationFails, ValidationSucceeds, Applied, StoreResponse, TypeOK
<1>3. /\ elem'[r][e] \in {"applying", "store", "count"}
      /\ elem'[r][e] \in {"store", "count"} => val'[r][e] # NotSet
      /\ elem'[r][e] = "count" => response'[r][e] = val'[r][e]
      /\ elem[r][e] = "store" => elem'[r][e] = "count"
  <2>1. CASE ValidationFails(r, e)
    BY <2>1 DEF ValidationFails, NotSet, TypeOK
  <2>2. CASE ValidationSucceeds(r, e)
    BY <2>2 DEF ValidationSucceeds, TypeOK
  <2>3. CASE Applied(r, e)
    BY <2>3 DEF Applied, NotSet, TypeOK
  <2>4. CASE StoreResponse(r, e)
    BY <2>4 DEF StoreResponse, CountedOf, TypeOK
  <2>. QED BY <2>1, <2>2, <2>3, <2>4
<1>4. e \in 1..size[r]
  BY <1>2, RequestAssumptions DEF CountedOf, TypeOK, Elements
<1>5. Uncounted(r)' = Uncounted(r)
  BY <1>1, <1>2, <1>3, SizeInElements DEF Uncounted
<1>6. Uncounted(r) # {}
  BY <1>2, <1>4 DEF Uncounted
<1>7. \A d \in Elements :
        /\ elem'[r][d] # "none" =>
            d <= size[r] /\ (d < idx[r] \/ (d = idx[r] /\ hpc[r] = "storing"))
        /\ elem'[r][d] \in {"store", "count", "counted"} => val'[r][d] # NotSet
        /\ elem'[r][d] \in {"count", "counted"} => response'[r][d] = val'[r][d]
  BY <1>2, <1>3 DEF CountedOf
<1>8. hpc[r] = "storing" => elem'[r][idx[r]] \in {"store", "count"}
  <2> SUFFICES ASSUME hpc[r] = "storing" PROVE elem'[r][idx[r]] \in {"store", "count"}
    OBVIOUS
  <2>1. idx[r] \in Elements
    BY RequestAssumptions DEF CountedOf, TypeOK, Elements
  <2>. QED BY <1>2, <1>3, <2>1 DEF CountedOf
<1>. QED BY <1>1, <1>5, <1>6, <1>7, <1>8 DEF CountedOf

LEMMA CountedCountDown ==
    ASSUME TypeOK, NEW r \in Requests, CountedOf(r), NEW e \in Elements, CountDown(r, e)
    PROVE  CountedOf(r)'
<1>1. /\ elem[r][e] = "count"
      /\ \A d \in Elements : elem'[r][d] = IF d = e THEN "counted" ELSE elem[r][d]
      /\ remaining'[r] = remaining[r] - 1
      /\ UNCHANGED <<size, val, response>>
  BY DEF CountDown, TypeOK
<1>2. e \in 1..size[r] /\ size[r] > 0
  <2>1. size[r] \in Nat
    BY RequestAssumptions DEF TypeOK
  <2>2. e <= size[r]
    BY <1>1 DEF CountedOf
  <2>. QED BY <2>1, <2>2, RequestAssumptions DEF Elements
<1>3. e \in Uncounted(r) /\ replies[r] = <<>>
  BY <1>1, <1>2 DEF Uncounted, CountedOf
<1>4. Uncounted(r)' = Uncounted(r) \ {e}
  BY <1>1, <1>2, SizeInElements DEF Uncounted
<1>5. /\ Cardinality(Uncounted(r) \ {e}) = Cardinality(Uncounted(r)) - 1
      /\ IsFiniteSet(Uncounted(r) \ {e})
  BY <1>3, UncountedFinite, FS_RemoveElement
<1>6. remaining'[r] = Cardinality(Uncounted(r)')
  BY <1>1, <1>4, <1>5 DEF CountedOf
<1>7. remaining'[r] = 0 <=> Uncounted(r)' = {}
  BY <1>4, <1>5, <1>6, FS_EmptySet
<1>8. IF Uncounted(r)' = {}
      THEN Len(replies'[r]) = 1 /\ replies'[r][1].results = response'[r]
      ELSE replies'[r] = <<>>
  BY <1>1, <1>3, <1>7 DEF CountDown, ReplyDue, TypeOK
<1>9. Len(replies'[r]) <= 1
  BY <1>8
<1>10. CASE hpc[r] = "storing" /\ idx[r] = e
  <2>1. /\ hpc'[r] = IF idx[r] < size[r] THEN "element" ELSE "done"
        /\ idx'[r] = idx[r] + 1
    BY <1>10 DEF CountDown, AfterElement, At, Goto, TypeOK
  <2>2. idx[r] \in Nat /\ size[r] \in Nat /\ idx[r] <= size[r]
    BY <1>2, <1>10, RequestAssumptions DEF TypeOK
  <2>3. idx'[r] \in Nat /\ hpc'[r] \in {"element", "done"}
        /\ (hpc'[r] = "element" => idx'[r] \in 1..size'[r])
    BY <1>1, <2>1, <2>2
  <2>4. \A d \in Elements : elem'[r][d] # "none" =>
            d <= size'[r] /\ d < idx'[r]
    BY <1>1, <1>2, <1>10, <2>1, <2>2 DEF CountedOf, Elements
  <2>5. \A d \in Elements :
            /\ elem'[r][d] \in {"store", "count", "counted"} => val'[r][d] # NotSet
            /\ elem'[r][d] \in {"count", "counted"} => response'[r][d] = val'[r][d]
    BY <1>1 DEF CountedOf
  <2>. QED BY <1>6, <1>8, <1>9, <2>3, <2>4, <2>5 DEF CountedOf
<1>11. CASE ~(hpc[r] = "storing" /\ idx[r] = e)
  <2>1. UNCHANGED <<hpc, idx>>
    BY <1>11 DEF CountDown, At
  <2>2. hpc[r] \notin {"idle", "called", "defer", "deferred", "parse"}
    BY <1>2 DEF CountedOf
  <2>3. hpc[r] = "storing" => elem'[r][idx[r]] \in {"store", "count"}
    <3>1. hpc[r] = "storing" => idx[r] \in Elements
      BY SizeInElements DEF CountedOf
    <3>. QED BY <1>1, <1>11, <3>1 DEF CountedOf
  <2>. QED BY <1>1, <1>2, <1>6, <1>8, <1>9, <2>1, <2>2, <2>3 DEF CountedOf
<1>. QED BY <1>10, <1>11

LEMMA NextCountingInv == TypeOK /\ CountingInv /\ [Next]_vars => CountingInv'
<1> SUFFICES ASSUME TypeOK, CountingInv, [Next]_vars, NEW q \in Requests
             PROVE  CountedOf(q)'
  BY DEF CountingInv
<1>0. CountedOf(q)
  BY DEF CountingInv
<1>1. CASE UNCHANGED <<hpc, size, idx, results>>
  BY <1>0, <1>1, CountedFrame DEF results
<1>2. CASE NotifierWaitPasses \/ (\E s \in Services : on_reg_service(s))
           \/ SetReady \/ PopDeferred \/ DrainDone
  BY <1>1, <1>2 DEF NotifierWaitPasses, on_reg_service, SetReady, PopDeferred, DrainDone
<1>3. ASSUME NEW r \in Requests, UNCHANGED <<size, idx, results>>,
             hpc' = [hpc EXCEPT ![r] = hpc'[r]],
             hpc[r] \in {"idle", "called", "defer", "deferred"},
             hpc'[r] \in {"called", "defer", "deferred", "parse"}
      PROVE  CountedOf(q)'
  <2>1. CASE q = r
    BY <1>0, <1>3, <2>1, CountedMove
  <2>2. CASE q # r
    BY <1>0, <1>3, <2>2, CountedFrame DEF results, TypeOK
  <2>. QED BY <2>1, <2>2
<1>4. CASE RunDeferred
  <2>1. Head(deferred_) \in Requests
    BY <1>4 DEF RunDeferred, TypeOK
  <2>. QED BY <1>3, <1>4, <2>1 DEF RunDeferred, At, Goto, TypeOK
<1>5. ASSUME NEW r \in Requests, Arrive(r) PROVE CountedOf(q)'
  BY <1>3, <1>5 DEF Arrive, At, Goto, TypeOK
<1>6. ASSUME NEW r \in Requests, ready_or_defer(r) PROVE CountedOf(q)'
  <2>1. /\ hpc[r] = "called" /\ UNCHANGED <<size, idx, results>>
        /\ \/ hpc' = [hpc EXCEPT ![r] = "parse"]
           \/ hpc' = [hpc EXCEPT ![r] = "defer"]
    BY <1>6, Zenon DEF ready_or_defer, At, Goto
  <2>. QED BY <1>3, <2>1 DEF TypeOK
<1>7. ASSUME NEW r \in Requests, defer_request(r) PROVE CountedOf(q)'
  <2>1. /\ hpc[r] = "defer" /\ UNCHANGED <<size, idx, results>>
        /\ \/ hpc' = [hpc EXCEPT ![r] = "called"]
           \/ hpc' = [hpc EXCEPT ![r] = "deferred"]
    BY <1>7, Zenon DEF defer_request, DeferredRequest, At, Goto
  <2>. QED BY <1>3, <2>1 DEF TypeOK
<1>8. ASSUME NEW r \in Requests, NEW error, RejectBody(r, error) PROVE CountedOf(q)'
  <2>1. CASE q = r
    BY <1>0, <1>8, <2>1, CountedReject
  <2>2. CASE q # r
    BY <1>0, <1>8, <2>2, CountedFrame DEF RejectBody, Goto, TypeOK
  <2>. QED BY <2>1, <2>2
<1>9. ASSUME NEW r \in Requests, NEW n \in 0..MaxSize, AcceptBody(r, n)
      PROVE  CountedOf(q)'
  <2>1. CASE q = r
    BY <1>0, <1>9, <2>1, CountedAccept
  <2>2. CASE q # r
    BY <1>0, <1>9, <2>2, CountedFrame DEF AcceptBody, Goto, TypeOK
  <2>. QED BY <2>1, <2>2
<1>10. ASSUME NEW r \in Requests, NEW code \in Codes, ElementFails(r, code)
       PROVE  CountedOf(q)'
  <2>1. CASE q = r
    BY <1>0, <1>10, <2>1, CountedElementFails
  <2>2. CASE q # r
    BY <1>0, <1>10, <2>2, CountedFrame DEF ElementFails, Goto, TypeOK
  <2>. QED BY <2>1, <2>2
<1>11. ASSUME NEW r \in Requests, ElementInvalid(r) \/ ServiceNotAvailable(r)
       PROVE  CountedOf(q)'
  BY <1>10, <1>11 DEF ElementInvalid, ServiceNotAvailable, Codes
<1>12. ASSUME NEW r \in Requests, RequestValidation(r) PROVE CountedOf(q)'
  <2>1. CASE q = r
    BY <1>0, <1>12, <2>1, CountedRequestValidation
  <2>2. CASE q # r
    BY <1>0, <1>12, <2>2, CountedFrame DEF RequestValidation, AfterElement, Goto, TypeOK
  <2>. QED BY <2>1, <2>2
<1>13. ASSUME NEW r \in Requests, NEW e \in Elements, Callback(r, e) PROVE CountedOf(q)'
  <2>1. CASE q = r /\ CountDown(r, e)
    BY <1>0, <2>1, CountedCountDown
  <2>2. CASE q = r /\ ~CountDown(r, e)
    BY <1>0, <1>13, <2>2, CountedProgress DEF Callback
  <2>3. CASE q # r /\ CountDown(r, e)
    <3>1. /\ size'[q] = size[q] /\ elem'[q] = elem[q] /\ val'[q] = val[q]
          /\ response'[q] = response[q] /\ remaining'[q] = remaining[q]
          /\ replies'[q] = replies[q]
      BY <2>3 DEF CountDown, TypeOK
    <3>2. hpc'[q] = hpc[q] /\ idx'[q] = idx[q]
      <4>1. CASE AfterElement(r)
        BY <2>3, <4>1 DEF AfterElement, Goto, TypeOK
      <4>. QED BY <2>3, <4>1, Zenon DEF CountDown
    <3>. QED BY <1>0, <3>1, <3>2, CountedFrame
  <2>4. CASE q # r /\ ~CountDown(r, e)
    <3>1. /\ UNCHANGED <<hpc, size, idx, remaining, replies>>
          /\ elem'[q] = elem[q] /\ val'[q] = val[q] /\ response'[q] = response[q]
      BY <1>13, <2>4 DEF Callback, ValidationFails, ValidationSucceeds, Applied,
                         StoreResponse, TypeOK
    <3>. QED BY <1>0, <3>1, CountedFrame
  <2>. QED BY <2>1, <2>2, <2>3, <2>4
<1>14. CASE UNCHANGED vars
  BY <1>1, <1>14 DEF vars
<1>. QED
  BY <1>2, <1>4, <1>5, <1>6, <1>7, <1>8, <1>9, <1>11, <1>12, <1>13, <1>14
     DEF Next, Startup, Handler

LEMMA CountingAlways == Spec => []CountingInv
BY TypeCorrect, InitTypeOK, InitCountingInv, NextCountingInv, PTL DEF Spec

(* No request is answered twice, whatever the number of its elements and   *)
(* the threads that finish them.                                           *)
THEOREM ReplyAtMostOnceHolds == Spec => []ReplyAtMostOnce
<1>1. CountingInv => ReplyAtMostOnce
  BY DEF CountingInv, CountedOf, ReplyAtMostOnce
<1>. QED BY <1>1, CountingAlways, PTL

(* A reply carries the outcome of every element of its request. *)
THEOREM ReplyCompleteHolds == Spec => []ReplyComplete
<1>1. TypeOK /\ CountingInv => ReplyComplete
  <2> SUFFICES ASSUME TypeOK, CountingInv, NEW r \in Requests,
                      replies[r] # <<>>, NEW e \in 1..size[r]
               PROVE  val[r][e] # NotSet /\ replies[r][1].results[e] = val[r][e]
    BY DEF ReplyComplete
  <2>0. CountedOf(r) /\ e \in Elements
    BY SizeInElements DEF CountingInv
  <2>1. size[r] > 0
    BY RequestAssumptions DEF TypeOK
  <2>2. Uncounted(r) = {} /\ replies[r][1].results = response[r]
    BY <2>0, <2>1 DEF CountedOf
  <2>3. elem[r][e] = "counted"
    BY <2>2 DEF Uncounted
  <2>. QED BY <2>0, <2>2, <2>3 DEF CountedOf
<1>. QED BY <1>1, CountingAlways, TypeCorrect, PTL

----------------------------------------------------------------------------
(* Refinement: the pipeline implements the abstract request service.       *)

(* What the service shows of a request. *)
Shown(r) == [i \in DOMAIN replies[r] |-> ShownReply(r, replies[r][i])]
Asked == {r \in Requests : ~At(r, "idle")}

(* ShownReply, for a request of n elements. *)
View(n, reply) ==
    [error |-> reply.error,
     results |-> IF reply.error = "none"
                 THEN [e \in 1..n |-> reply.results[e]] ELSE <<>>]

LEMMA ShownNothing ==
    ASSUME NEW r, replies[r] = <<>>
    PROVE  Shown(r) = <<>>
BY DEF Shown

LEMMA InitImplements == Init => Service!Init
<1> SUFFICES ASSUME Init PROVE Service!Init
  OBVIOUS
<1>1. {r \in Requests : ~At(r, "idle")} = {}
  BY DEF Init, At
<1>2. \A r \in Requests : Shown(r) = <<>>
  BY ShownNothing DEF Init
<1>. QED BY <1>1, <1>2 DEF Service!Init, Shown

(* A step that keeps what the service shows is a stuttering step. *)
LEMMA HiddenStep ==
    ASSUME Asked' = Asked, \A r \in Requests : Shown(r)' = Shown(r)
    PROVE  UNCHANGED Service!vars
BY DEF Service!vars, Asked, Shown

LEMMA ShownFrame ==
    ASSUME NEW r, size'[r] = size[r], replies'[r] = replies[r]
    PROVE  Shown(r)' = Shown(r)
BY DEF Shown, ShownReply

(* A step that only moves a handler that has started shows nothing. *)
LEMMA HandlerHidden ==
    ASSUME TypeOK, UNCHANGED <<size, replies>>, NEW r \in Requests,
           hpc' = [hpc EXCEPT ![r] = hpc'[r]], hpc[r] # "idle", hpc'[r] # "idle"
    PROVE  UNCHANGED Service!vars
<1>1. Asked' = Asked
  BY DEF Asked, At, TypeOK
<1>. QED BY <1>1, HiddenStep, ShownFrame

(* A step that sends the first reply of a request answers it. *)
LEMMA ReplyImplements ==
    ASSUME TypeOK, NEW r \in Requests, NEW reply \in Reply,
           hpc[r] # "idle", Asked' = Asked, UNCHANGED size,
           replies[r] = <<>>, replies' = [replies EXCEPT ![r] = Append(@, reply)],
           ShownReply(r, reply) \in Service!Answer
    PROVE  Service!Reply(r)
<1> DEFINE a == ShownReply(r, reply)
<1>1. r \in Asked
  BY DEF Asked, At
<1>2. Shown(r) = <<>>
  BY ShownNothing
<1>3. Shown(r)' = <<a>>
  <2>1. replies'[r] = <<reply>>
    BY DEF TypeOK
  <2>2. DOMAIN replies'[r] = 1..1 /\ replies'[r][1] = reply
    BY <2>1
  <2>3. Shown(r)' = [i \in DOMAIN replies'[r] |-> View(size'[r], replies'[r][i])]
    BY DEF Shown, ShownReply, View
  <2>4. a = View(size[r], reply)
    BY DEF ShownReply, View
  <2> HIDE DEF a
  <2>5. Shown(r)' = [i \in 1..1 |-> a]
    BY <2>2, <2>3, <2>4
  <2>. QED BY <2>5
<1>4. \A q \in Requests \ {r} : Shown(q)' = Shown(q)
  BY ShownFrame DEF TypeOK
<1>5. [q \in Requests |-> Shown(q)'] = [[q \in Requests |-> Shown(q)] EXCEPT ![r] = <<a>>]
  BY <1>3, <1>4
<1>. QED BY <1>1, <1>2, <1>5 DEF Service!Reply, Asked, Shown

LEMMA RejectImplements ==
    ASSUME TypeOK, NEW r \in Requests, CountedOf(r), NEW error \in RequestErrors,
           RejectBody(r, error)
    PROVE  Service!Reply(r)
<1> DEFINE reply == [error |-> error, results |-> NoResults]
<1>1. hpc[r] = "parse" /\ Asked' = Asked /\ UNCHANGED size
  BY DEF RejectBody, At, Goto, Asked, TypeOK
<1>2. replies[r] = <<>> /\ replies' = [replies EXCEPT ![r] = Append(@, reply)]
  BY <1>1 DEF RejectBody, CountedOf
<1>3. reply \in Reply
  BY DEF Reply, NoResults
<1>4. ShownReply(r, reply) \in Service!Answer
  BY DEF ShownReply, Service!Answer, RequestErrors
<1>. QED BY <1>1, <1>2, <1>3, <1>4, ReplyImplements

LEMMA AcceptImplements ==
    ASSUME TypeOK, NEW r \in Requests, CountedOf(r), NEW n \in 0..MaxSize, AcceptBody(r, n)
    PROVE  UNCHANGED Service!vars
<1>1. /\ hpc[r] = "parse" /\ UNCHANGED replies /\ Asked' = Asked
      /\ \A q \in Requests \ {r} : size'[q] = size[q]
  BY DEF AcceptBody, At, Goto, Asked, TypeOK
<1>2. replies[r] = <<>>
  BY <1>1 DEF CountedOf
<1>3. Shown(r)' = Shown(r)
  BY <1>1, <1>2 DEF Shown
<1>. QED BY <1>1, <1>3, HiddenStep, ShownFrame

LEMMA CountDownImplements ==
    ASSUME TypeOK, NEW r \in Requests, CountedOf(r), NEW e \in Elements, CountDown(r, e)
    PROVE  Service!Reply(r) \/ UNCHANGED Service!vars
<1>1. elem[r][e] = "count" /\ UNCHANGED <<size, response>>
  BY DEF CountDown
<1>2. e \in 1..size[r] /\ size[r] \in 1..MaxSize /\ e \in Uncounted(r) /\ replies[r] = <<>>
  <2>1. size[r] \in 0..MaxSize
    BY DEF TypeOK
  <2>2. e <= size[r]
    BY <1>1 DEF CountedOf
  <2>3. e \in 1..size[r] /\ size[r] > 0
    BY <2>1, <2>2, RequestAssumptions DEF Elements
  <2>4. e \in Uncounted(r)
    BY <1>1, <2>3 DEF Uncounted
  <2>5. size[r] \in 1..MaxSize
    BY <2>1, <2>3, RequestAssumptions
  <2>. QED BY <2>3, <2>4, <2>5 DEF CountedOf
<1>3. hpc[r] # "idle"
  BY <1>2 DEF CountedOf
<1>4. Asked' = Asked
  <2>1. CASE AfterElement(r)
    BY <1>3, <2>1 DEF AfterElement, Goto, At, Asked, TypeOK
  <2>2. CASE UNCHANGED hpc
    BY <2>2 DEF Asked, At
  <2>. QED BY <2>1, <2>2, Zenon DEF CountDown
<1>5. CASE replies' = replies
  BY <1>1, <1>4, <1>5, HiddenStep, ShownFrame
<1>6. CASE replies' # replies
  <2> DEFINE reply == [error |-> "none", results |-> response[r]]
  <2>1. replies' = [replies EXCEPT ![r] = Append(@, reply)]
    BY <1>6 DEF CountDown
  <2>2. reply \in Reply
    BY DEF Reply, TypeOK
  <2>3. CountedOf(r)'
    BY CountedCountDown
  <2>4. replies'[r] # <<>>
    BY <2>1, <1>2, <2>2 DEF TypeOK
  <2>5. Uncounted(r)' = {}
    BY <1>1, <1>2, <2>3, <2>4 DEF CountedOf
  <2>6. \A d \in 1..size[r] : response[r][d] \in Codes
    <3> SUFFICES ASSUME NEW d \in 1..size[r] PROVE response[r][d] \in Codes
      OBVIOUS
    <3>1. d \in Elements /\ response[r][d] \in Codes \cup {NotSet}
      BY SizeInElements DEF TypeOK
    <3>2. elem'[r][d] = "counted"
      BY <1>1, <2>5 DEF Uncounted
    <3>3. response'[r][d] # NotSet
      BY <2>3, <3>1, <3>2 DEF CountedOf
    <3>. QED BY <1>1, <3>1, <3>3
  <2>7. [d \in 1..size[r] |-> response[r][d]] \in UNION {[1..n -> Codes] : n \in 1..MaxSize}
    BY <1>2, <2>6
  <2>8. ShownReply(r, reply) = [error |-> "none",
                                results |-> [d \in 1..size[r] |-> response[r][d]]]
    BY DEF ShownReply
  <2>9. ShownReply(r, reply) \in Service!Answer
    <3> DEFINE outcomes == [d \in 1..size[r] |-> response[r][d]]
               Outcomes == UNION {[1..n -> Codes] : n \in 1..MaxSize}
    <3> HIDE DEF outcomes, Outcomes
    <3>1. [error |-> "none", results |-> outcomes] \in [error : {"none"}, results : Outcomes]
      BY <2>7 DEF outcomes, Outcomes
    <3>. QED BY <2>8, <3>1 DEF outcomes, Outcomes, Service!Answer
  <2>. QED BY <1>1, <1>2, <1>3, <1>4, <2>1, <2>2, <2>9, ReplyImplements
<1>. QED BY <1>5, <1>6

LEMMA ArriveImplements ==
    ASSUME TypeOK, NEW r \in Requests, Arrive(r)
    PROVE  Service!Ask(r)
<1>1. hpc[r] = "idle" /\ hpc' = [hpc EXCEPT ![r] = "called"] /\ UNCHANGED <<size, replies>>
  BY DEF Arrive, At, Goto, results
<1>2. r \notin Asked /\ Asked' = Asked \cup {r}
  BY <1>1 DEF Asked, At, TypeOK
<1>3. \A q \in Requests : Shown(q)' = Shown(q)
  BY <1>1, ShownFrame
<1>. QED BY <1>2, <1>3 DEF Service!Ask, Asked, Shown

(* Every step of the pipeline is a step of the service, or does not show. *)
LEMMA NextImplements ==
    TypeOK /\ CountingInv /\ [Next]_vars => [Service!Next]_Service!vars
<1> SUFFICES ASSUME TypeOK, CountingInv, [Next]_vars
             PROVE  Service!Next \/ UNCHANGED Service!vars
  OBVIOUS
<1>0. \A r \in Requests : CountedOf(r)
  BY DEF CountingInv
<1>1. CASE UNCHANGED <<hpc, size, replies>>
  BY <1>1, HiddenStep, ShownFrame DEF Asked, At
<1>2. CASE NotifierWaitPasses \/ (\E s \in Services : on_reg_service(s))
           \/ SetReady \/ PopDeferred \/ DrainDone
  BY <1>1, <1>2 DEF NotifierWaitPasses, on_reg_service, SetReady, PopDeferred, DrainDone,
                    results
<1>3. CASE RunDeferred
  <2>1. Head(deferred_) \in Requests
    BY <1>3 DEF RunDeferred, TypeOK
  <2>. QED BY <1>3, <2>1, HandlerHidden DEF RunDeferred, At, Goto, TypeOK, results
<1>4. ASSUME NEW r \in Requests, Arrive(r) PROVE Service!Next
  BY <1>4, ArriveImplements DEF Service!Next
<1>5. ASSUME NEW r \in Requests, ready_or_defer(r) PROVE UNCHANGED Service!vars
  <2>1. /\ hpc[r] = "called" /\ UNCHANGED <<size, replies>>
        /\ \/ hpc' = [hpc EXCEPT ![r] = "parse"]
           \/ hpc' = [hpc EXCEPT ![r] = "defer"]
    BY <1>5, Zenon DEF ready_or_defer, At, Goto, results
  <2>. QED BY <2>1, HandlerHidden DEF TypeOK
<1>6. ASSUME NEW r \in Requests, defer_request(r) PROVE UNCHANGED Service!vars
  <2>1. /\ hpc[r] = "defer" /\ UNCHANGED <<size, replies>>
        /\ \/ hpc' = [hpc EXCEPT ![r] = "called"]
           \/ hpc' = [hpc EXCEPT ![r] = "deferred"]
    BY <1>6, Zenon DEF defer_request, DeferredRequest, At, Goto, results
  <2>. QED BY <2>1, HandlerHidden DEF TypeOK
<1>7. ASSUME NEW r \in Requests, NEW error \in RequestErrors, RejectBody(r, error)
      PROVE  Service!Next
  BY <1>0, <1>7, RejectImplements DEF Service!Next
<1>8. ASSUME NEW r \in Requests, NEW n \in 0..MaxSize, AcceptBody(r, n)
      PROVE  UNCHANGED Service!vars
  BY <1>0, <1>8, AcceptImplements
<1>9. ASSUME NEW r \in Requests,
             ElementInvalid(r) \/ ServiceNotAvailable(r) \/ RequestValidation(r)
      PROVE  UNCHANGED Service!vars
  <2>1. /\ hpc[r] = "element" /\ UNCHANGED <<size, replies>>
        /\ hpc' = [hpc EXCEPT ![r] = hpc'[r]] /\ hpc'[r] # "idle"
    BY <1>9 DEF ElementInvalid, ServiceNotAvailable, ElementFails, RequestValidation,
                AfterElement, At, Goto, TypeOK
  <2>. QED BY <2>1, HandlerHidden
<1>10. ASSUME NEW r \in Requests, NEW e \in Elements, Callback(r, e)
       PROVE  Service!Next \/ UNCHANGED Service!vars
  <2>1. CASE CountDown(r, e)
    BY <1>0, <2>1, CountDownImplements DEF Service!Next
  <2>2. CASE ~CountDown(r, e)
    BY <1>1, <1>10, <2>2 DEF Callback, ValidationFails, ValidationSucceeds, Applied,
                             StoreResponse
  <2>. QED BY <2>1, <2>2
<1>11. CASE UNCHANGED vars
  BY <1>1, <1>11 DEF vars, results
<1>. QED
  BY <1>2, <1>3, <1>4, <1>5, <1>6, <1>7, <1>8, <1>9, <1>10, <1>11
     DEF Next, Startup, Handler

(* The startup thread, the handlers and the callbacks implement the        *)
(* abstract request service, for every number of requests and elements.    *)
THEOREM ImplementsServiceHolds == Spec => ImplementsService
BY InitImplements, NextImplements, TypeCorrect, CountingAlways, PTL
   DEF Spec, ImplementsService, Service!SafeSpec
=============================================================================
