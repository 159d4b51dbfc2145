------------------------------ MODULE Workers ------------------------------
(***************************************************************************)
(* The threads: the event loop, which owns subscribers_, swarm_ids_, sns_  *)
(* and services_, and the OxenMQ workers, which wait for the loop in       *)
(* loop_.call_get (spns/hivemind.cpp: constructor, on_quic_request,        *)
(* sub_unsub_service_conn, add_subscription, refresh_sns).  One function   *)
(* goes the other way: on_sns_response, on the loop, waits for a batch of  *)
(* worker jobs that recheck the accounts of each swarm.                    *)
(*                                                                         *)
(* Jobs of a kind are alike, so they are counted.  OxenMQ's scheduling is  *)
(* external: a job starts when fewer threads than general_threads are      *)
(* busy; batch jobs and replies also when their own reserve is not used up. *)
(***************************************************************************)
EXTENDS Integers, Sequences, FiniteSets, Functions

CONSTANTS
    general_threads, batch_threads, reply_threads,
    MaxSwarms,      \* bound: swarms rechecked at once
    MaxLoad         \* bound: jobs of each kind present at once

(* "request": a QUIC request (omq_.job); "command": a request over OxenMQ; *)
(* "reply": a notifier's answer; "refresh": oxend's answer; "swarm" and    *)
(* "completion": the batch of on_sns_response.                             *)
Outside == {"request", "command", "reply", "refresh"}
BatchKinds == {"request", "swarm", "completion"}
ReplyKinds == {"reply", "refresh"}
Kinds == Outside \cup BatchKinds

ASSUME WorkerAssumptions ==
    /\ general_threads \in Nat \ {0} /\ batch_threads \in Nat \ {0}
    /\ reply_threads \in Nat \ {0}
    /\ MaxSwarms \in Nat \ {0} /\ MaxLoad \in [Outside -> Nat]

VARIABLES
    batch_jobs,  \* OxenMQ's queue of batch jobs
    queued,      \* commands and replies that wait for a thread
    running,     \* threads at work on a job of each kind
    waiting,     \* threads blocked in loop_.call_get for a job of each kind
    loop_,       \* "free", or "batch": blocked in on_sns_response
    swarmsLeft   \* jobs of the batch that have not finished

workersVars == <<batch_jobs, queued, running, waiting, loop_, swarmsLeft>>

WorkersTypeOK ==
    /\ batch_jobs \in Seq(BatchKinds)
    /\ queued \in [Outside -> Nat]
    /\ running \in [Kinds -> Nat]
    /\ waiting \in [Kinds -> Nat]
    /\ loop_ \in {"free", "batch"}
    /\ swarmsLeft \in 0..MaxSwarms

WorkersInit ==
    /\ batch_jobs = <<>>
    /\ queued = [k \in Outside |-> 0]
    /\ running = [k \in Kinds |-> 0]
    /\ waiting = [k \in Kinds |-> 0]
    /\ loop_ = "free" /\ swarmsLeft = 0

Inc(f, k) == [f EXCEPT ![k] = @ + 1]
Dec(f, k) == [f EXCEPT ![k] = @ - 1]

(* Threads taken by jobs of the given kinds. *)
Active(K) == FoldFunctionOnSet(+, 0, running, K) + FoldFunctionOnSet(+, 0, waiting, K)

----------------------------------------------------------------------------
(* Arrivals.  QUIC requests come in on the loop, so only when it is free.  *)

InBatch(jobs, k) == Cardinality({i \in DOMAIN jobs : jobs[i] = k})

Present(k) == queued[k] + running[k] + waiting[k] + InBatch(batch_jobs, k)

on_quic_request ==
    /\ loop_ = "free" /\ Present("request") < MaxLoad["request"]
    /\ batch_jobs' = Append(batch_jobs, "request")
    /\ UNCHANGED <<queued, running, waiting, loop_, swarmsLeft>>

MessageArrives(k) ==
    /\ Present(k) < MaxLoad[k]
    /\ queued' = Inc(queued, k)
    /\ UNCHANGED <<batch_jobs, running, waiting, loop_, swarmsLeft>>

----------------------------------------------------------------------------
(* OxenMQ starts jobs.                                                     *)

GeneralFree == Active(Kinds) < general_threads

(* Seeded fault: batch jobs have no threads of their own. *)
FaultNoReserve == GeneralFree

BatchFree == Active(BatchKinds) < batch_threads \/ GeneralFree

StartBatchJob ==
    /\ batch_jobs # <<>> /\ BatchFree
    /\ batch_jobs' = Tail(batch_jobs) /\ running' = Inc(running, Head(batch_jobs))
    /\ UNCHANGED <<queued, waiting, loop_, swarmsLeft>>

StartMessage(k) ==
    /\ queued[k] > 0
    /\ GeneralFree \/ (k \in ReplyKinds /\ Active(ReplyKinds) < reply_threads)
    /\ queued' = Dec(queued, k) /\ running' = Inc(running, k)
    /\ UNCHANGED <<batch_jobs, waiting, loop_, swarmsLeft>>

----------------------------------------------------------------------------
(* Jobs.  The look-up of the service, the merge of a subscription and the  *)
(* response of oxend run on the loop; a job may also end without that (a   *)
(* malformed request, the notifier's answer to an unsubscribe, a failed    *)
(* request to oxend).  A list makes a call for each element; one is enough *)
(* to wait.                                                                *)

CallGet(k) ==
    /\ running[k] > 0
    /\ running' = Dec(running, k) /\ waiting' = Inc(waiting, k)
    /\ UNCHANGED <<batch_jobs, queued, loop_, swarmsLeft>>

Finish(k) ==
    /\ running[k] > 0
    /\ running' = Dec(running, k)
    /\ UNCHANGED <<batch_jobs, queued, waiting, loop_, swarmsLeft>>

(* The loop runs the function of a waiting thread, which then ends its job. *)
LoopRuns(k) ==
    /\ loop_ = "free" /\ waiting[k] > 0
    /\ waiting' = Dec(waiting, k)
    /\ UNCHANGED <<batch_jobs, queued, running, loop_, swarmsLeft>>

(* on_sns_response with a change: one job per swarm, and the loop blocks.  *)
(* The thread of the reply waits until the function returns.               *)
Recheck(n) ==
    /\ loop_ = "free" /\ waiting["refresh"] > 0
    /\ loop_' = "batch" /\ swarmsLeft' = n
    /\ batch_jobs' = batch_jobs \o [i \in 1..n |-> "swarm"]
    /\ UNCHANGED <<queued, running, waiting>>

(* Seeded fault: the first job to finish completes the batch. *)
FaultCompleteEarly == swarmsLeft = MaxSwarms

LastSwarm == swarmsLeft = 1

(* The job that finishes last queues the completion. *)
SwarmDone ==
    /\ running["swarm"] > 0
    /\ running' = Dec(running, "swarm")
    /\ swarmsLeft' = swarmsLeft - 1
    /\ batch_jobs' = IF LastSwarm THEN Append(batch_jobs, "completion") ELSE batch_jobs
    /\ UNCHANGED <<queued, waiting, loop_>>

(* done.set_value(): on_sns_response returns, and the thread that called it. *)
Completion ==
    /\ running["completion"] > 0
    /\ running' = Dec(running, "completion")
    /\ waiting' = Dec(waiting, "refresh")
    /\ loop_' = "free"
    /\ UNCHANGED <<batch_jobs, queued, swarmsLeft>>

----------------------------------------------------------------------------
JobSteps(k) == CallGet(k) \/ Finish(k)

WorkersNext ==
    \/ on_quic_request
    \/ \E k \in Outside \ {"request"} : MessageArrives(k) \/ StartMessage(k)
    \/ StartBatchJob
    \/ \E k \in Outside : JobSteps(k) \/ LoopRuns(k)
    \/ \E n \in 1..MaxSwarms : Recheck(n)
    \/ SwarmDone \/ Completion

WorkersSpec == WorkersInit /\ [][WorkersNext]_workersVars

(* Fairness: every thread runs, the loop serves the threads that wait, and *)
(* OxenMQ starts what it may start, batch jobs before commands whenever a  *)
(* thread becomes free.  Nothing need arrive.                              *)
Fairness ==
    /\ SF_workersVars(StartBatchJob)
    /\ \A k \in Outside \ {"request"} : WF_workersVars(StartMessage(k))
    /\ \A k \in Outside : WF_workersVars(JobSteps(k)) /\ WF_workersVars(LoopRuns(k))
    /\ WF_workersVars(SwarmDone) /\ WF_workersVars(Completion)

LiveSpec == WorkersSpec /\ Fairness

----------------------------------------------------------------------------
(* Properties.                                                             *)

(* Worker jobs read subscribers_ and swarm_ids_ and change the nodes, all  *)
(* of which belong to the loop, without a lock: they may only run while    *)
(* the loop is blocked for them (hivemind.cpp:1605-1627).                  *)
SwarmJobsOnlyWhileBlocked ==
    running["swarm"] > 0 \/ swarmsLeft > 0 => loop_ = "batch"

(* No thread is left for the batch: requests hold the batch threads, and   *)
(* all other threads are taken, by jobs that wait for the blocked loop.    *)
Exhausted ==
    /\ waiting["request"] >= batch_threads
    /\ FoldFunctionOnSet(+, 0, waiting, Kinds) >= general_threads

(* The loop is released again, unless every thread that could run the      *)
(* batch waits for the loop (hivemind.cpp:1624-1626 and 52-57).            *)
ReleasedUnlessExhausted == loop_ = "batch" ~> (loop_ = "free" \/ Exhausted)

(* The thread counts are enough for the loop to be released after every    *)
(* recheck, as the constructor claims (hivemind.cpp:54-57).                *)
AlwaysReleased == loop_ = "batch" ~> loop_ = "free"
=============================================================================
