------------------------------ MODULE Requests ------------------------------
(***************************************************************************)
(* Subscribe and unsubscribe requests, from their arrival over OxenMQ or   *)
(* QUIC to the reply (spns/hivemind.cpp: ExcWrapper, defer_request,        *)
(* set_ready, on_sub_unsub_impl, on_notifier_validation,                   *)
(* sub_json_set_one_response).                                             *)
(*                                                                         *)
(* Requests that arrive while the server starts up are deferred until the  *)
(* notifiers have had time to register.  A request is an object or a list  *)
(* of objects; each element is validated by its notifier service           *)
(* asynchronously, so that the elements of one request finish on different *)
(* worker threads, and the thread that finishes the last one sends the     *)
(* reply.                                                                  *)
(***************************************************************************)
EXTENDS Integers, Sequences, FiniteSets

CONSTANTS
    Requests,
    OverQuic,            \* requests that come over QUIC, the others over OxenMQ
    MaxSize,             \* longest list of elements in a request
    Services,
    ServiceOf,           \* the notifier service that an element asks for
    notifiers_expected   \* config.notifiers_expected

Elements == 1..MaxSize

ASSUME RequestAssumptions ==
    /\ OverQuic \subseteq Requests
    /\ MaxSize \in Nat
    /\ ServiceOf \in [Elements -> Services]
    /\ notifiers_expected \subseteq Services

(* What an element can end with: codes of hive::SUBSCRIBE and, for any     *)
(* other code that a notifier answers with, "NOTIFIER".                    *)
Codes == {"OK", "BAD_INPUT", "SERVICE_NOT_AVAILABLE", "SERVICE_TIMEOUT",
          "ERROR", "NOTIFIER"}
NotSet == "none"

VARIABLES
    main,       \* startup thread: "wait" for notifiers, "drain", "done"
    waitOver,   \* notifier_wait has passed
    services_,  \* registered notifier services
    ready,
    deferred_,  \* requests to run once ready
    tagged,     \* requests whose message still has its reply_tag, or is a QUIC one
    hpc,        \* where the handler of a request is
    size,       \* number of elements, once parsed
    idx,        \* element that the handler is at
    elem,       \* where each element is
    val,        \* the outcome of each element, on the thread that has it
    response,   \* the shared array of outcomes
    remaining,  \* the shared count of outcomes still missing
    replies     \* the replies sent to the requester

startup == <<main, waitOver, services_, ready>>
deferral == <<deferred_, tagged>>
results == <<elem, val, response, remaining, replies>>
vars == <<startup, deferral, hpc, size, idx, results>>

HandlerStates == {"idle", "called", "defer", "deferred", "parse", "element", "storing", "done"}
ElementStates == {"none", "validating", "applying", "store", "count", "counted"}
RequestErrors == {"BAD_INPUT", "INTERNAL_ERROR"}
Reply == [error : {"none"} \cup RequestErrors, results : [Elements -> Codes \cup {NotSet}]]

TypeOK ==
    /\ main \in {"wait", "drain", "done"}
    /\ waitOver \in BOOLEAN
    /\ services_ \in SUBSET Services
    /\ ready \in BOOLEAN
    /\ deferred_ \in Seq(Requests)
    /\ tagged \in SUBSET Requests
    /\ hpc \in [Requests -> HandlerStates]
    /\ size \in [Requests -> 0..MaxSize]
    /\ idx \in [Requests -> Nat]
    /\ elem \in [Requests -> [Elements -> ElementStates]]
    /\ val \in [Requests -> [Elements -> Codes \cup {NotSet}]]
    /\ response \in [Requests -> [Elements -> Codes \cup {NotSet}]]
    /\ remaining \in [Requests -> Int]
    /\ replies \in [Requests -> Seq(Reply)]

NoResults == [e \in Elements |-> NotSet]

Init ==
    /\ main = "wait" /\ waitOver = FALSE
    /\ services_ = {} /\ ready = FALSE
    /\ deferred_ = <<>> /\ tagged = Requests
    /\ hpc = [r \in Requests |-> "idle"]
    /\ size = [r \in Requests |-> 0]
    /\ idx = [r \in Requests |-> 1]
    /\ elem = [r \in Requests |-> [e \in Elements |-> "none"]]
    /\ val = [r \in Requests |-> NoResults]
    /\ response = [r \in Requests |-> NoResults]
    /\ remaining = [r \in Requests |-> 0]
    /\ replies = [r \in Requests |-> <<>>]

At(r, from) == hpc[r] = from
Goto(r, to) == hpc' = [hpc EXCEPT ![r] = to]

----------------------------------------------------------------------------
(* Startup: the main thread waits for the notifiers, then sets ready and   *)
(* runs what was deferred meanwhile.                                       *)

NotifierWaitPasses ==
    /\ ~waitOver /\ waitOver' = TRUE
    /\ UNCHANGED <<main, services_, ready, deferral, hpc, size, idx, results>>

on_reg_service(s) ==
    /\ s \notin services_
    /\ services_' = services_ \cup {s}
    /\ UNCHANGED <<main, waitOver, ready, deferral, hpc, size, idx, results>>

(* Seeded fault: one of the expected notifiers is enough. *)
FaultAnyNotifier == notifiers_expected \cap services_ # {} \/ waitOver

notifier_startup_done ==
    \/ notifiers_expected # {} /\ notifiers_expected \subseteq services_
    \/ waitOver

SetReady ==
    /\ main = "wait" /\ notifier_startup_done
    /\ ready' = TRUE
    /\ main' = "drain"
    /\ UNCHANGED <<waitOver, services_, deferral, hpc, size, idx, results>>

(* The main thread runs the handler of the first deferred request itself;  *)
(* PopDeferred comes after that handler has returned.                      *)
RunDeferred ==
    /\ main = "drain" /\ deferred_ # <<>>
    /\ At(Head(deferred_), "deferred")
    /\ Goto(Head(deferred_), "called")
    /\ UNCHANGED <<startup, deferral, size, idx, results>>

PopDeferred ==
    /\ main = "drain" /\ deferred_ # <<>>
    /\ At(Head(deferred_), "done")
    /\ deferred_' = Tail(deferred_)
    /\ UNCHANGED <<startup, tagged, hpc, size, idx, results>>

DrainDone ==
    /\ main = "drain" /\ deferred_ = <<>>
    /\ main' = "done"
    /\ UNCHANGED <<waitOver, services_, ready, deferral, hpc, size, idx, results>>

----------------------------------------------------------------------------
(* The handler of one request, on the thread that received it.             *)

Arrive(r) ==
    /\ At(r, "idle") /\ Goto(r, "called")
    /\ UNCHANGED <<startup, deferral, size, idx, results>>

(* ready_or_defer reads ready without the lock. *)
ready_or_defer(r) ==
    /\ At(r, "called")
    /\ Goto(r, IF ready THEN "parse" ELSE "defer")
    /\ UNCHANGED <<startup, deferral, size, idx, results>>

(* DeferredRequest takes a QUIC message over as it is, but builds a new    *)
(* OxenMQ message of the parts of the old one, without its reply_tag.      *)
DeferredRequest(r) ==
    /\ Goto(r, "deferred")
    /\ deferred_' = Append(deferred_, r)
    /\ tagged' = IF r \in OverQuic THEN tagged ELSE tagged \ {r}

(* Seeded fault: ready is not read again under the lock. *)
FaultNoRecheck(r) ==
    /\ At(r, "defer")
    /\ DeferredRequest(r)
    /\ UNCHANGED <<startup, size, idx, results>>

(* Under deferred_mutex_: ready may have been set since ready_or_defer. *)
defer_request(r) ==
    /\ At(r, "defer")
    /\ IF ready
       THEN Goto(r, "called") /\ UNCHANGED deferral
       ELSE DeferredRequest(r)
    /\ UNCHANGED <<startup, size, idx, results>>

(* Bad JSON, no body, neither an object nor a list, or an empty list.  Any *)
(* other exception before the elements is caught by ExcWrapper, which      *)
(* answers that an internal error occurred.                                *)
RejectBody(r, error) ==
    /\ At(r, "parse") /\ Goto(r, "done")
    /\ replies' = [replies EXCEPT ![r] =
                        Append(@, [error |-> error, results |-> NoResults])]
    /\ UNCHANGED <<startup, deferral, size, idx, elem, val, response, remaining>>

(* Seeded fault: an empty list is accepted. *)
FaultAcceptEmpty(n) == n >= 0

AcceptSize(n) == n > 0

(* Seeded fault: the count is that of a single object. *)
FaultOneRemaining(n) == 1

InitialRemaining(n) == n

AcceptBody(r, n) ==
    /\ At(r, "parse") /\ AcceptSize(n)
    /\ Goto(r, IF n > 0 THEN "element" ELSE "done")
    /\ size' = [size EXCEPT ![r] = n]
    /\ remaining' = [remaining EXCEPT ![r] = InitialRemaining(n)]
    /\ UNCHANGED <<startup, deferral, idx, elem, val, response, replies>>

(* An exception for this element only: its outcome is set to the error,    *)
(* and the handler stores it before it goes on to the next element.        *)
ElementFails(r, code) ==
    /\ At(r, "element") /\ Goto(r, "storing")
    /\ elem' = [elem EXCEPT ![r][idx[r]] = "store"]
    /\ val' = [val EXCEPT ![r][idx[r]] = code]
    /\ UNCHANGED <<startup, deferral, size, idx, response, remaining, replies>>

ElementInvalid(r) == \E code \in {"BAD_INPUT", "ERROR"} : ElementFails(r, code)

ServiceNotAvailable(r) ==
    /\ At(r, "element")
    /\ ServiceOf[idx[r]] \notin services_
    /\ ElementFails(r, "SERVICE_NOT_AVAILABLE")

(* The handler goes on to the next element, or returns. *)
AfterElement(r) ==
    /\ idx' = [idx EXCEPT ![r] = @ + 1]
    /\ Goto(r, IF idx[r] < size[r] THEN "element" ELSE "done")

RequestValidation(r) ==
    /\ At(r, "element")
    /\ ServiceOf[idx[r]] \in services_
    /\ elem' = [elem EXCEPT ![r][idx[r]] = "validating"]
    /\ AfterElement(r)
    /\ UNCHANGED <<startup, deferral, size, val, response, remaining, replies>>

----------------------------------------------------------------------------
(* on_notifier_validation, on the worker thread that gets the answer.      *)

(* Seeded fault: the transport's error string is used as the outcome. *)
FaultRawError(r, e) ==
    /\ elem[r][e] = "validating"
    /\ elem' = [elem EXCEPT ![r][e] = "store"]
    /\ \E code \in {"TIMEOUT", "ERROR", "NOTIFIER"} :
            val' = [val EXCEPT ![r][e] = code]
    /\ UNCHANGED <<startup, deferral, hpc, size, idx, response, remaining, replies>>

(* No answer in time, no connection, a malformed answer, or the notifier's *)
(* own error code.                                                         *)
ValidationFails(r, e) ==
    /\ elem[r][e] = "validating"
    /\ elem' = [elem EXCEPT ![r][e] = "store"]
    /\ \E code \in {"SERVICE_TIMEOUT", "ERROR", "NOTIFIER"} :
            val' = [val EXCEPT ![r][e] = code]
    /\ UNCHANGED <<startup, deferral, hpc, size, idx, response, remaining, replies>>

ValidationSucceeds(r, e) ==
    /\ elem[r][e] = "validating"
    /\ elem' = [elem EXCEPT ![r][e] = "applying"]
    /\ UNCHANGED <<startup, deferral, hpc, size, idx, val, response, remaining, replies>>

(* add_subscription or remove_subscription returns, or throws. *)
Applied(r, e) ==
    /\ elem[r][e] = "applying"
    /\ elem' = [elem EXCEPT ![r][e] = "store"]
    /\ \E code \in {"OK", "ERROR"} : val' = [val EXCEPT ![r][e] = code]
    /\ UNCHANGED <<startup, deferral, hpc, size, idx, response, remaining, replies>>

----------------------------------------------------------------------------
(* sub_json_set_one_response, on any of these threads.                     *)

StoreResponse(r, e) ==
    /\ elem[r][e] = "store"
    /\ response' = [response EXCEPT ![r][e] = val[r][e]]
    /\ elem' = [elem EXCEPT ![r][e] = "count"]
    /\ UNCHANGED <<startup, deferral, hpc, size, idx, val, remaining, replies>>

(* Seeded fault: the reply is due one outcome early, and again at the end. *)
FaultReplyEarly(n) == n <= 1

ReplyDue(n) == n = 0

CountDown(r, e) ==
    /\ elem[r][e] = "count"
    /\ elem' = [elem EXCEPT ![r][e] = "counted"]
    /\ remaining' = [remaining EXCEPT ![r] = @ - 1]
    /\ replies' = IF ReplyDue(remaining[r] - 1)
                  THEN [replies EXCEPT ![r] =
                            Append(@, [error |-> "none", results |-> response[r]])]
                  ELSE replies
    /\ IF At(r, "storing") /\ idx[r] = e
       THEN AfterElement(r)
       ELSE UNCHANGED <<hpc, idx>>
    /\ UNCHANGED <<startup, deferral, size, val, response>>

----------------------------------------------------------------------------
Startup == SetReady \/ RunDeferred \/ PopDeferred \/ DrainDone

Handler(r) ==
    \/ ready_or_defer(r) \/ defer_request(r)
    \/ \E error \in RequestErrors : RejectBody(r, error)
    \/ \E n \in 0..MaxSize : AcceptBody(r, n)
    \/ ElementInvalid(r) \/ ServiceNotAvailable(r) \/ RequestValidation(r)

Callback(r, e) ==
    \/ ValidationFails(r, e) \/ ValidationSucceeds(r, e) \/ Applied(r, e)
    \/ StoreResponse(r, e) \/ CountDown(r, e)

Next ==
    \/ NotifierWaitPasses
    \/ \E s \in Services : on_reg_service(s)
    \/ Startup
    \/ \E r \in Requests : Arrive(r) \/ Handler(r)
    \/ \E r \in Requests, e \in Elements : Callback(r, e)

Spec == Init /\ [][Next]_vars

(* Fairness: notifier_wait passes, every thread runs, and OxenMQ answers   *)
(* every request, if only with a timeout.  Arrivals and registrations may  *)
(* stop.                                                                   *)
Fairness ==
    /\ WF_vars(NotifierWaitPasses)
    /\ WF_vars(Startup)
    /\ \A r \in Requests : WF_vars(Handler(r))
    /\ \A r \in Requests, e \in Elements : WF_vars(Callback(r, e))

LiveSpec == Spec /\ Fairness

----------------------------------------------------------------------------
(* Properties.                                                             *)

(* A requester gets at most one reply, whichever threads finish the        *)
(* elements of the request and in whichever order (hivemind.cpp:1031-1041  *)
(* and 1366-1381).                                                         *)
ReplyAtMostOnce == \A r \in Requests : Len(replies[r]) <= 1

(* The reply to a list carries the outcome of each of its elements, in its *)
(* place: the thread that counts down to zero sees what all the other      *)
(* threads stored (hivemind.cpp:1031-1041).                                *)
ReplyComplete ==
    \A r \in Requests : replies[r] # <<>> /\ replies[r][1].error = "none" =>
        \A e \in 1..size[r] :
            /\ val[r][e] # NotSet
            /\ replies[r][1].results[e] = val[r][e]

(* No request is left in deferred_ once startup is over: defer_request     *)
(* never adds to the list after set_ready has drained it                   *)
(* (hivemind.cpp:438-441 and 452-461).                                     *)
NothingStranded == main = "done" => \A r \in Requests : ~At(r, "deferred")

(* What deferring is for: an expected notifier is reported as unavailable  *)
(* only if it did not register before notifier_wait had passed             *)
(* (hivemind.cpp:408-435 and 1179-1187; config.hpp:42-48).                 *)
UnavailableOnlyAfterWait ==
    \A r \in Requests, e \in Elements :
        val[r][e] = "SERVICE_NOT_AVAILABLE" /\ ServiceOf[e] \in notifiers_expected
            => waitOver

(* The abstract view of a request: it has arrived, and the reply shows the *)
(* outcomes of its elements.                                               *)
ShownReply(r, reply) ==
    [error |-> reply.error,
     results |-> IF reply.error = "none"
                 THEN [e \in 1..size[r] |-> reply.results[e]] ELSE <<>>]

Service == INSTANCE RequestService WITH
    asked <- {r \in Requests : ~At(r, "idle")},
    answers <- [r \in Requests |->
                    [i \in DOMAIN replies[r] |-> ShownReply(r, replies[r][i])]]

(* The handlers, callbacks and startup together are the request service:   *)
(* a request is answered at most once, never before it has arrived, with   *)
(* an error or with an outcome for every element, and an answer never      *)
(* changes (hivemind.cpp:438-525 and 1024-1394).                           *)
ImplementsService == Service!SafeSpec

(* The requester's OxenMQ tells the replies that it gets apart by their    *)
(* tag, and drops one that has none.                                       *)
Received(r) == replies[r] # <<>> /\ r \in tagged

(* Every request that arrives is replied to in the end, the deferred ones  *)
(* and the empty list included (hivemind.cpp:1239-1394), and the requester *)
(* gets that reply if it used QUIC, or asked after startup: what           *)
(* DeferredRequest loses is lost to no other request.                      *)
EventuallyReplied ==
    \A r \in Requests :
        /\ ~At(r, "idle") ~> replies[r] # <<>>
        /\ r \in OverQuic => (~At(r, "idle") ~> Received(r))
        /\ [](ready /\ At(r, "idle") => (~At(r, "idle") ~> Received(r)))

(* Why ReplyAtMostOnce and ReplyComplete hold: remaining counts exactly    *)
(* the elements whose outcome has not been counted, an outcome is counted  *)
(* only after it is stored, and the reply exists from the moment the count *)
(* is zero.                                                                *)
Uncounted(r) == {e \in 1..size[r] : elem[r][e] # "counted"}

CountedOf(r) ==
    /\ hpc[r] \in {"idle", "called", "defer", "deferred", "parse"} =>
        size[r] = 0 /\ idx[r] = 1 /\ replies[r] = <<>>
    /\ hpc[r] \in {"element", "storing"} => idx[r] \in 1..size[r]
    /\ hpc[r] = "storing" => elem[r][idx[r]] \in {"store", "count"}
    /\ \A e \in Elements :
        /\ elem[r][e] # "none" =>
            e <= size[r] /\ (e < idx[r] \/ (e = idx[r] /\ hpc[r] = "storing"))
        /\ elem[r][e] \in {"store", "count", "counted"} => val[r][e] # NotSet
        /\ elem[r][e] \in {"count", "counted"} => response[r][e] = val[r][e]
    /\ remaining[r] = Cardinality(Uncounted(r))
    /\ Len(replies[r]) <= 1
    /\ size[r] > 0 =>
        IF Uncounted(r) = {}
        THEN Len(replies[r]) = 1 /\ replies[r][1].results = response[r]
        ELSE replies[r] = <<>>

CountingInv == \A r \in Requests : CountedOf(r)

(* Why the other two hold: a deferred request is in the list, the list is  *)
(* empty when startup ends, and handlers get past ready_or_defer only      *)
(* after the wait for the notifiers.                                       *)
StartupInv ==
    /\ main # "wait" <=> ready
    /\ main = "done" => deferred_ = <<>>
    /\ \A r \in Requests : At(r, "deferred") =>
            \E i \in 1..Len(deferred_) : deferred_[i] = r
    /\ \A r \in Requests : hpc[r] \in {"parse", "element", "storing"} => ready
    /\ ready => notifiers_expected \subseteq services_ \/ waitOver
=============================================================================
