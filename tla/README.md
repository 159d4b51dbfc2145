# Session push notification server: TLA+ verification

This directory holds TLA+ models of `spns`, the Session push notification
server, the TLC configurations that check them on small instances, and proofs
that TLAPS checks. Source references are to `spns/` in the repository.

## 1. The system

The server keeps push subscriptions of Session accounts, registers them with
the storage servers of each account's swarm, and turns the message
notifications that those servers push into calls of the notifier services
(Apple, Huawei, ...).

| Component | State | Operations | Interacts with |
|---|---|---|---|
| Notification processing (`hivemind.cpp:585-816`) | inproc socket, batch, `filter_`, `filter_rotate_`, statistics rows | `on_message_notification`, `process_notifications` | storage servers (QUIC callbacks on the event loop), database, notifiers |
| Startup and requests (`hivemind.cpp:335-525, 1024-1425`) | `ready`, `deferred_`, `services_`, per request `response` and `remaining` | `set_ready`, `defer_request`, `on_reg_service`, `on_sub_unsub_impl`, `on_notifier_validation` | clients (OxenMQ, QUIC), notifiers, subscription store |
| Service node connections (`hive/snode.cpp:31-153`, `hivemind.cpp:1452-1709`) | `sns_`, `conn_`, `connected_`, `cooldown_until_`, `pending_connects_` | `connect`, `disconnect`, the two callbacks, `allow_connect`, `finished_connect`, `make_conns`, `check_subs` | oxend (`get_service_nodes`), storage servers |
| Swarm membership (`swarmpubkey.cpp`, `hivemind.cpp:1487-1628`, `hive/snode.cpp:161-204`) | `swarm_ids_`, `last_block_`, the `swarm` of accounts and nodes, `subs_` | `update_swarm`, `on_sns_response`, `add_account`, `remove_stale_swarm_members`, `reset_swarm` | oxend, subscription store |
| Resubscription queue (`hive/snode.cpp:206-392`) | `next_` of each node | `check_subs`, `add_account`, `on_connected` | storage servers (`monitor` requests) |
| Subscription store (`hivemind.cpp:1427-1434, 1711-2037`, `hive/subscription.cpp`) | tables `subscriptions`, `sub_namespaces`; `subscribers_` | `add_subscription`, `remove_subscription`, `on_drop_registrations`, `db_cleanup`, `load_saved_subscriptions` | PostgreSQL, swarm membership |
| Statistics (`hivemind.cpp:555-583, 818-974`) | `service_stats` | `on_service_stats`, `get_stats_json`, `log_stats` | notifiers, clients |
| Connection pool (`pg.cpp`, `pg.hpp`) | `idle_conns_`, `mutex_` | `get`, `release` | all threads |
| Notifiers (`notifiers/*.py`) | pending pushes, `NotifyStats` | `validate`, `push`, `ping` | HiveMind, the push providers |
| Worker threads (`hivemind.cpp:52-57, 1398-1409, 1605-1627`) | OxenMQ's queues and threads | jobs, commands, replies, batches | event loop |
| Web front end (`register.py`, `onion_request.py`, `subrequest.py`, `web.py`) | none | HTTP proxies of subscribe and unsubscribe | HiveMind |

Threads: the QUIC event loop owns `sns_`, `swarms_`, `subscribers_`,
`services_` and the filters; other threads reach them through
`loop_.call` and `loop_.call_get`, which runs a function on the loop and
waits for it. OxenMQ worker threads run the handlers of requests and replies,
one thread collects notifications, and the main thread runs startup.

What is hard about it: hand-overs between those threads (the inproc socket,
`deferred_`, the shared countdown of a list request), callbacks that run in
the middle of another handler (closing a connection inside
`on_sns_response`), at-least-once delivery from several swarm members, crash
between the sends of a batch and its commit, responses that fail half way,
and limits (batch size, attempts in progress, socket buffers, threads,
database connections).
`PROJECT.json` lists each hazard at its line, with the properties that cover
it.

What makes each component correct:

* notifications: no duplicate within the filter lifetime, nothing lost or run
  twice between the threads, progress, statistics that do not overstate;
* requests: exactly one complete reply, nothing stranded by startup, no
  "service not available" for a notifier that startup was to wait for;
* connections: the limit on attempts, no lost slot, no connection of a node
  that has left, every known node connected in the end;
* swarms: an account belongs to the nearest swarm, every reachable member of
  that swarm is asked to monitor it, others are not;
* queue: sorted, one live entry per account, every due account submitted;
* store: what was acknowledged is stored, and memory is never behind the
  database, over races, failures and restarts;
* threads: the event loop is released again, and what it owns is touched by
  others only while it waits for them;
* pool: one owner per connection, a bounded number, no broken or stale one kept;
* notifiers: no accepted push is forgotten, statistics add up.

## 2. Modules

| Module | Models | Proofs | Runs |
|---|---|---|---|
| `Notifications` | notification path, `hivemind.cpp:585-816` | `NotificationsProofs` | `MCNotifications` |
| `RequestService` | what clients see of the requests (abstract) | | |
| `Requests` (implements it) | startup and requests, `hivemind.cpp:335-525, 1024-1425` | `RequestsProofs` | `MCRequests` |
| `Connections` | connection attempts, `hive/snode.cpp:31-153` | `ConnectionsProofs` | `MCConnections` |
| `SwarmSpace`, `SwarmPubkey` | `swarmpubkey.cpp:47-78` | `SwarmsProofs` | `SwarmPubkey` |
| `Swarms` (extends `SwarmSpace`) | `on_sns_response` and what reaches `subs_` | `SwarmsProofs` | `MCSwarms` |
| `RenewalService` | what the renewal queue promises (abstract) | | |
| `Resubscription` (implements it) | `next_` of one node, `hive/snode.cpp:161-392` | `ResubscriptionProofs` | `MCResubscription` |
| `Subscriptions` | rows and `subscribers_` of one account, `hivemind.cpp:976-1022, 1427-1434, 1711-2037` | `SubscriptionsProofs` | `MCSubscriptions` |
| `PGPool` | the connection pool, `pg.cpp` | `ThreadsProofs` | `MCPGPool` |
| `Workers` | the event loop and the OxenMQ threads | `ThreadsProofs` | `MCWorkers` |
| `Notifiers` | `notifiers/apns.py`, `huawei.py`, `util.py`; `on_service_stats` | `NotifiersProofs` | `MCNotifiers` |

An `MC...` module extends its specification with the bounds of the runs
(names that begin with `Max`), with counters for them, and with fairness.
Variables keep the names of the members they stand for; variables marked
*history* are not in the code and only record what the properties need.

**Notifications.** `pc`, `flags` and `process` are the notification thread's
position, its `recv` flags and its batch; `loop` is what the event loop is in:
idle, blocked in `send`, or in the batch that the thread waits for in
`call_get`. `queue` is the inproc socket, which holds `Hwm` messages before a
send blocks. A batch is one `BatchBegin` (with the rotation of the filters),
one `BatchNotify` or `BatchSkipJunk` per message, and one `BatchCommit`; it is
split because transactions of other threads commit between its queries.
`CommitRow` stands for those. `CrashAndRestart` keeps the database and loses
the rest. A key of the filter is (service, device, message hash): the code
stores a Blake2b hash of the three, and collisions are not modelled. A
notification has one account, namespace and message hash; one that fails to
parse is `Junk`. That the message for a notifier cannot be built
(`hivemind.cpp:792-796`), which would filter a key without a send, is left out: the
buffer is sized for the sum of its fields.

**Requests.** `main` is the thread that constructs `HiveMind`: it waits for the
notifiers, sets `ready` and runs `deferred_`. A handler (`hpc`) is called,
reads `ready`, is perhaps deferred under the lock, and works through its list
element by element; each element that passes its checks goes to its notifier
and comes back in a callback on another thread (`elem`), which stores its
outcome and then counts down. `StoreResponse` and `CountDown` are separate
steps because the code's store and its atomic decrement are. Signatures,
formats and the database are outcomes that may go either way. The rows that a
request writes are the subject of `Subscriptions`. `RequestService` is the
abstract specification: a client asks and is answered once, with an error for
the whole request or an outcome for each element. `Requests!Service` instantiates
it: asked are the requests whose handler has been called, and the answers are the
replies that were sent. Whether a requester can make use of a reply is another
question: `tagged` are the requests whose message still has its `reply_tag`, which
`DeferredRequest` does not copy from an OxenMQ message (`Received`; OxenMQ is a
submodule outside the repository and modelled from its use). An exception that
leaves the handler before its elements is answered by `ExcWrapper`
(`RejectBody` with `INTERNAL_ERROR`).

**Connections.** One step per event-loop event, except that the handler of a
`get_service_nodes` response goes node by node (`update`, `todo`), since its
calls of `disconnect` run callbacks which call `make_conns` in the middle of
it. A cooldown is a flag that some step clears. The library is assumed to run
the disconnection callback before `close_connection` returns. `make_conns`
goes through `sns_` in hash order, so `Picks` takes any nodes, as many as the
limit leaves room for. `ResponseThrows` is a response that ends in an exception
between two nodes. Left out as unreachable: `on_connected` without a `conn_`
(`snode.cpp:95-98`), and an attempt at a valid address that throws (`snode.cpp:53-60`).

**SwarmSpace, SwarmPubkey.** The ring of swarm ids with 2^64 replaced by
`RingSize`, subtraction modulo it, and `closest`, which takes the two
neighbours of a position as the code's `lower_bound` finds them. `Distance` and
`IsNearest` are the reference.

**Swarms.** Three stores: the table (`rows`), memory (`subscribers_`,
`swarm_ids_`, `sns_`), and the lists of the nodes (`subs_`, `due`,
`submitted`). A subscription commits on a worker thread and joins `merges`;
the event loop merges in any order. A response is one step;
`ResponseThrowsInList` and `ResponseThrowsAtNode` are the responses that end
in an exception, at any node of the list. `load_saved_subscriptions` is
`Init`: some rows are loaded, those whose signature has expired are not.
`stale` are the settings whose signature is too old to be submitted
(`snode.cpp:322`): `check_subs` skips them, and its last submission, not an earlier
one, is what a node has. `last_block_` only saves the comparison of the swarm ids when the block is
the same as before, and then they are the same; it is left out.

**Resubscription.** `next_` is a sequence of (account, time) with lazily deleted
entries; time 0 is `system_epoch`. `check_subs` takes the due entries from
the front until the request holds `SUBS_REQUEST_LIMIT` subscriptions, sends
it, schedules each account `RESUBSCRIBE_MIN` to `RESUBSCRIBE_MAX` ahead and
sorts the end of the queue. `SortFrom` is the partition point from which it
sorts; `Arranged` is a sort of what follows, which is not stable, so that equal
times end in any order. Requests that wait for their response are counted, by
whether the response continues them. `RenewalService` is the abstract
specification: a table of due times, without a queue, from which a check
renews accounts that are due and that nobody has waited longer than.
`Resubscription!Service` instantiates it: an account is due at the time of its live
entry (`DueOf`).

**Subscriptions.** One account with several devices. A worker's transaction
(`tx`) is `Select`, then the write with its commit, then `Merge` on the event
loop. PostgreSQL runs it at READ COMMITTED, so others may commit between the
read and the write; the row lock makes the write and the commit one step. A
write fails when the UNIQUE or REFERENCES constraint of the schema does, and
`UPDATE` of a row that is gone changes nothing and succeeds. `CommitInDoubt` is a
connection lost during COMMIT. `CrashAndRestart` is `load_saved_subscriptions`
with its clean-up. The signature is checked when the request comes in, before
the notifier is asked, so `Select` takes one that was valid at some time since the
process started (`started`). A subscription is its namespaces (rows of their own), its
options and the time of its signature, which covers all three. `overlapped`,
`acked` and `unmerged` are history.

**PGPool.** A thread goes through `get` (pop, check, clear, perhaps make), its
transaction and `release` (push, clear); what it does under `mutex_` at once is a
step, and `make_conn`, which connects under the lock, takes two. A connection that
the server dropped is `lost` until a query fails on it, and only then `dead`,
which `is_open` sees.

**Workers.** Jobs are counted by kind: how many wait in OxenMQ's queues, run, or
are blocked in `loop_.call_get`. The loop is free or blocked in
`on_sns_response`, waiting for its batch. OxenMQ's rule is external: a job starts
when fewer than `general_threads` are busy, batch jobs and replies also while
their own reserve lasts. What the jobs do to the data is the subject of the
other modules. Its specification is `WorkersSpec`, so that one proof module can
extend it and `PGPool`.

**Notifiers.** Each push is followed from its hand-over to its end. `apns` has a
coroutine per push that retries; `huawei` queues pushes and a timer thread sends
them. Huawei's `send_message` raises when there is no response or its status is not
200; what a response with status 200 says it only returns (`hms/src/push_admin/_app.py:32-45`,
`messaging.py:66-70`), and `send_pending` does not look at it. Such a push may be
`refused`, and is counted like one that was `sent`. The counts go from `stats` over `transit`, in any order, into
`service_stats`; notifiers crash, and transactions fail. A report on its way has a
name out of `Reports`, which may be used again once it has arrived. `counted` and
`attempts` are history: `counted` says of each push in which of the numbers it is,
so that `StatsAddUp` can compare each number with the set of pushes it stands for.

`TypeOK` is in the runs where it was likely to break; in the others it documents
the variables. It is proved for every module with a proof module, except for
`SwarmPubkey`'s, which is part of the invariant there.

## 3. Runs

All runs use `tlc -workers 2 -config <cfg> <module>`. Deadlock checking is on in
`swarm_pubkey` and in `pool`, where threads could block each other; the other
models have bounds at which the environment stops.

| Run | Bounds | Shows |
|---|---|---|
| `notifications` | one message of one account, three deliveries, batch of 2, socket of 1, lifetime 2, time to 5, one crash, one commit | a redelivery in the same batch, after one rotation and after two; a full socket; a crash at any step. `FilterForgets`: nothing is suppressed beyond the second rotation. `ProcessedUnlessStalled`: every accepted notification is processed, or lost with the process, or the two threads wait for each other |
| `requests` | a list of up to two elements over OxenMQ and a single object over QUIC, two services, both expected at startup | the pipeline implements `RequestService`; every request is replied to, and the reply reaches a requester that used QUIC or asked after startup (`EventuallyReplied`); replies complete, nothing stranded, no early "not available" |
| `connections` | three nodes, two addresses, one attempt at a time, three responses, one failure | exact accounting, no orphan, everyone connected |
| `swarm_pubkey` | ring of 8: every position, every set of swarms, every previous swarm | `update_swarm` against the reference |
| `swarms` | one account, two nodes, two swarms, two settings, three responses, two transactions, and one of: a lost connection, an entry whose time comes, an old signature | who is asked to monitor what |
| `swarms_foreign` | two accounts, two nodes, two swarms, two responses | violation: accounts stay at their old nodes |
| `resubscription` | two accounts, one with two subscriptions, limit 2, renewal after 2 to 3, time to 4, three insertions, one removal or lost connection | order, uniqueness, completeness and progress of the queue, and that it implements `RenewalService` |
| `subscriptions` | two workers, two devices, two lists of namespaces, two options, three requests, signatures valid for 2, load margin 1, time to 2 | memory is not behind the database, the account is monitored, what was acknowledged is stored unless its transaction overlapped another |
| `pool` | three threads, four connection names, one initial connection, idle time 1, time to 3 | ownership, bound, no broken and no stale connection |
| `workers` | 3 general, 2 batch and 1 reply threads; up to 4 requests, 3 commands, 2 replies, 1 refresh, 2 swarms | swarm jobs only while the loop is blocked; the loop is released unless every thread waits for it |
| `workers_deadlock` | the constructor's 4 and 4 threads, four QUIC requests, one refresh | violation: loop and threads wait for each other |
| `notifiers` | one push over apns, two over huawei, one retry, two names for reports on their way, one crash each | every push settled, every outcome counted once |

Why these bounds are enough to be interesting: a duplicate needs three
deliveries and two rotations, a lost batch needs a batch that is neither full
nor empty; the races over `deferred_` and over the countdown need two
requests and two elements; the connection limit needs a third node that waits
while one is dialled and one is dropped; a missed account needs a response
that fails and one after it, and a third to repair it; the queue's partial
sort needs an entry that is not due but earlier than the new ones; an older
signature needs two requests for the same settings over two devices, and a
third to renew; the fourth connection name is one more than the three threads
can hold, so that the bound of the pool could be exceeded; more general than
batch threads make both reserves of OxenMQ matter; a push must be queued while
another one is sent, and one may be refused where another is lost. The seeded faults are all found within the bounds.
Symmetry is used in `swarms`, `subscriptions` and `pool`, which check no
liveness.

Each property of a passing run has a *seeded fault*: an operator named
`Fault...` that stands for a plausible bug in the mapped code. It is not used
by the specification; replacing the correct definition by it makes TLC find
the property violated. `PROJECT.json` lists the pairs.

## 4. Fairness

* `MCNotifications`: weak fairness of the notification thread and of the event
  loop's work for it (`Processing`). Both are loops that the operating system
  schedules. Traffic, commits, registrations and crashes may stop.
* `MCRequests`: weak fairness of the startup thread, of each handler and of each
  callback, and that `notifier_wait` passes. OxenMQ calls the reply handler of
  every request, if only with a timeout; arrivals and registrations need not
  happen.
* `MCConnections`: weak fairness of the event loop (the rest of a response, the
  10 s timer), of cooldowns running out, and of an attempt in progress
  succeeding. Failures are bounded by `MaxFailures`, after which the attempts
  that remain succeed: the property is about this server and not about the
  network.
* `MCResubscription`: the timer keeps firing (`TimerFair`, weak fairness of
  `Timer` written out with the condition under which it has work). Responses
  and their continuations need not come.
* `Workers`: weak fairness of the threads, the loop and the messages that OxenMQ
  starts; strong fairness of `StartBatchJob`, because OxenMQ serves the batch
  queue before commands whenever a thread becomes free, so that commands cannot
  starve it. Nothing need arrive.
* `Notifiers`: weak fairness of each coroutine and of the timer thread: every
  attempt ends, in whichever way. Reports, pushes and crashes need not happen.

## 5. Proofs

`TLAPS` checks the theorems of eight modules for every value of the constants
that satisfies the `ASSUME` of the module.

* `NotificationsProofs`: type correctness; `FilterRemembers`, the inductive
  invariant behind `NoEarlyDuplicate`: a key that was sent less than a
  lifetime ago is in `filter_`, or in `filter_rotate_` with the next rotation
  too late to drop it. `NoEarlyDuplicate` alone is not inductive, as it says
  nothing of the filters. `NothingLost`, `NoSleepWithWork` and
  `StatsNeverOverReport` are inductive only together (`HandoverInv`): that the
  thread waits while its batch runs is what the statistics rest on.
  `FilterForgets`, the other direction, needs `FilterRemembers` for a key that is
  sent again: only if it is in neither filter is it sent.
* `RequestsProofs`: type correctness; `StartupInv` (what `ready`, the lock and
  the drain allow) gives `NothingStranded` and `UnavailableOnlyAfterWait`.
  `CountingInv` says that `remaining` is the number of elements that have not
  counted down, that an element counts only after its outcome is stored, and
  that the reply exists from the moment the count is zero; it gives `ReplyAtMostOnce` and
  `ReplyComplete` for lists of any length. The lemmas `Counted...` say what
  each action does to it. `ImplementsServiceHolds` is the refinement: a step of
  `Requests` is an `Ask`, a `Reply` or a stutter of `RequestService`. That a reply
  answers a request that has none, with an outcome for each element, is
  `CountingInv` again.
* `ConnectionsProofs`: the inductive invariant is `TypeOK`, `PendingExact` and
  `NoOrphanConnection` together. `TryEffect` says what starting attempts does to the
  difference between attempts and counter, for any choice of nodes; the other
  lemmas apply it to `finished_connect` and `disconnect`. `NoOrphanConnection` rests on
  the cooldown that the callback sets before it dials.
* `ThreadsProofs`, first part (`PGPool`): `OwnedOnce` is inductive with `Holding` (which threads have a
  connection where in their code). `NeverUsedAfterFailure` needs ownership, since
  only the owner of a connection can break it, and `NoneDead` (the connection is
  tested between the pop and the use). `StaleCleared` needs `QueueOrdered`, and
  `PoolBounded` that a thread which found nothing idle counts from then on.
* `SwarmsProofs`, first part: `ClosestIsNearest`, that the code's choice between
  two neighbours is a nearest swarm of all by the reference distance, for every
  ring size; hence `NearestSwarm` and `MovesOnlyIfNeeded`. The inductive
  invariant adds that the account's swarm is `closest` itself, since ties make
  the nearest swarm ambiguous.
* `SwarmsProofs`, second part: type correctness, `MembersCovered` and
  `SettingsInPlace`, each inductive with the types. `CheckSubsEffect` says what a
  pass of `check_subs` over the nodes does (nothing becomes due, and what is no
  longer due was submitted with all its current settings); `RecheckEffect`,
  `MergeAddEffect` and `PassEffect` reduce the actions to it. `SettingsInPlace` speaks
  of every account on a node's list, whether or not it belongs to the swarm: a
  form that looks only at the members is not inductive, as accounts come back.
* `SubscriptionsProofs`: types; `StoredUnlessOverlapped` needs `ReadsFresh` (what a
  transaction has read is still the row, unless it is marked as overlapped);
  `NewestInMemory` is inductive with the types, and needs `LatestExists`: a restart,
  which keeps the newest signature of equal settings, finds one.
  `MonitoredOnceMerged` needs `KnownOnceStored`: as long as there is a row, or a
  transaction that saw one, memory has a subscription, or a new one is to be
  merged, or a row was missed. `WriteEffect`,
  `MergeEffect`, `OverlappingEffect` and `RestartEffect` say what the actions do.
  `NewestInMemory` asks of a merge that is to come that it brings a signature at
  least as new as the row's; that any merge is to come is not inductive.
* `ResubscriptionProofs`: `QueueSorted`, `OneLiveEntry` and `RenewalScheduled` are
  inductive together with the types (`QueueInv`), for queues of any length.
  `CheckSubsEffect` describes a pass of `check_subs`: every entry afterwards stems
  from one before, either untouched or taken and scheduled again (`StemsFrom`),
  and nothing before the partition point is later than what follows it.
  `ArrangementIsBijection` is why sorting loses and doubles nothing. `DrainComplete`
  is an action property that follows from the order of the queue.
  `ImplementsRenewalsHolds` is the refinement. With `OneLiveEntry` the due time of an
  account is well defined (`DueOfEntry`), so an insertion is a `Demand` and a
  removal a `Dismiss`, although both only mark the old entry. `PassRenews` shows
  that a pass of `check_subs` is a `Renew` of the accounts it took: they come from
  the front of a sorted queue, and by `CheckSubsEffect` all others keep their time.
* `ThreadsProofs`, second part (`Workers`): `SwarmJobsOnlyWhileBlocked` is not inductive, since it does not
  connect the counter with the jobs. `BatchExact` does: `swarmsLeft` is the number
  of jobs of the batch that are queued or at work; while the loop is blocked the
  completion exists, once, exactly if that number is zero. `InBatchConcat` and the
  lemmas after it count jobs in queues of any length.
* `NotifiersProofs`: `StatsAddUp` for any number of pushes, reports and crashes. It is
  inductive only together with what the notifiers work on. `QueuesExact` (the two
  lists of huawei hold each waiting push once, and nothing else) is why a push
  that `send_pending` counts was not counted before. `RetriesExact` (while apns works
  on a push, `attempts + retries` is constant) is why `retries < MAX_RETRIES`, which
  the code tests, means what the counter of retries says. The tally lemmas say
  what each action does to the cardinalities: one push more at one place, or all
  of one place at another. The bound of `RetriesExact` is a theorem of its own
  (`RetriesBounded`): at most `MAX_RETRIES + 1` attempts over apns, one over huawei.

The assumptions are the ones of the code's configuration: positive batch size
and socket limit, finite sets of services, devices, nodes, threads,
connections and pushes, a ring of more than one id, an initial pool that fits,
thread counts that are not zero; and that names which stand for "none" or for a
place are not used for anything else.

Only model-checked: liveness, which is out of reach of the prover
(`ProcessedUnlessStalled`, `EventuallyReplied`, `EventuallyConnected`,
`EventuallySubmitted`, `ReleasedUnlessExhausted`, `EventuallySettled`), and the
two properties whose violation is a finding. Every invariant and every action property
of a passing run is a theorem, and so are both refinements. The proofs about
`check_subs` use nothing of the size of a request, so they hold wherever it is cut;
what the fold over the weights computes is an induction over data, which the
provers cannot do.

## 6. Findings

Two runs end in a violation; `PROJECT.json` quotes the comment that each one
contradicts.

1. `swarms_foreign` (`snode.cpp:199`): `remove_stale_swarm_members` compares the
   swarm of the copies in `next_`, which never changes.
2. `workers_deadlock` (`hivemind.cpp:1626`): the event loop blocks on a batch of
   worker jobs, while the threads that could run them wait for the event loop.
   It takes as many QUIC requests in `loop_.call_get` as there are threads, at the
   moment when a response of oxend with a change is handled.

Observations from modelling, with no violation run of their own. The models
behave as described, and the properties of the passing runs are stated so that
they hold with it; where a property makes an exception for one of them, its
comment says so, and so does the hazard in `PROJECT.json`. The first five
disagree with a comment of the code.

* `DeferredRequest` rebuilds an OxenMQ message without its `reply_tag`
  (`hivemind.cpp:474-485`), so the requester of a request that was deferred during
  startup waits for its timeout, although the request is run; `hivemind.hpp:109-110`
  says that such requests are only deferred. Requests over QUIC are moved as a
  whole and are answered. OxenMQ is a submodule that is not part of the
  repository; this rests on how its messages are used. `EventuallyReplied` claims
  the requester's reply for all other requests, and that the deferred ones are run.
* `disconnect` of an established connection gives back a slot that it does not
  hold (`snode.cpp:79`), so that more attempts than the `max_pending_connects` of
  `config.hpp:50-52` can be in progress. `PendingExact` counts these refunds.
* A renewal with other settings, or one that comes after the old signature was
  too old to be submitted, is not the "equivalent subscription" of
  `hivemind.cpp:1973-1974`; the members of the swarm get it with the account's
  next renewal there. `SettingsInPlace` excepts these (`untold`) until then.
* The filters are rotated only when a batch runs, and once at most
  (`hivemind.cpp:636`), so after a quiet time a hash lives longer than the "10-20
  minutes" of `hivemind.hpp:168-171`. `FilterForgets` says what is true: it goes
  with the second rotation.
* An error code in a response with status 200 is ignored (`huawei.py:98`), and the
  push is counted among the "successful notifications" of `util.py:80`.
  `StatsAddUp` counts it there, too: as `refused`.
* `on_message_notification` may block the event loop in `send` while the
  notification thread waits for the loop in `call_get` (`hivemind.cpp:597, 635`).
  It takes as many notifications as the socket buffers.
  `ProcessedUnlessStalled` excepts it.
* The filter is updated before the service is looked up (`hivemind.cpp:741-757`),
  so the copies that arrive after the notifier has registered are dropped.
* A response that fails half way leaves `swarm_ids_` and `last_block_` updated
  (`hivemind.cpp:1516, 1556`), and the next one with the same nodes does not make up
  for it. `MembersCovered` excepts the accounts until the next change.
* Two transactions for one device that overlap may acknowledge a subscription
  that is not stored, or one whose stored namespaces are not the signed ones
  (`hivemind.cpp:1878-1948`, `hivemind.hpp:311-313`). `StoredUnlessOverlapped` says
  that nothing else can.
* After a COMMIT in doubt the retry of the client finds the row and counts as a
  renewal, so no member of the swarm is told at once (`hivemind.cpp:1975`).
* An exception of huawei's `send_message` loses the rest of the batch, and no
  failure is ever counted (`huawei.py:96-104`).
* A crash, or a failed transaction, after the sends of a batch leaves them
  uncounted (`hivemind.cpp:810`). `StatsNeverOverReport` excludes the opposite.
* `is_open` does not see that the server has dropped a connection, although
  `pg.hpp:73-75` names "server timeout"; each such connection costs one
  transaction. `make_conn` connects under the mutex, and everyone waits
  (`pg.cpp:68-75`). A connection stays taken during `loop_.call_get` in
  `add_subscription`.
* A renewal of a row that was not loaded because its signature had expired
  (`hivemind.cpp:1793`) is not a new subscription, and no node is told
  (`hivemind.cpp:1975`). `MembersCovered` excepts these accounts (`missed`).
* An account that moved away, got new settings and moved back is still on its
  old node's list (1), so they are missing there. `SettingsInPlace` excepts this,
  too.
* A request may hold more than `SUBS_REQUEST_LIMIT` subscriptions, because all
  of an account's are added before the check (`snode.hpp:34`, `snode.cpp:353`).
* The timer does not wait for the response to a full request (`snode.hpp:35`).
* A failed `monitor` request is logged and not repeated: its accounts wait for
  their renewal as if it had succeeded (`snode.hpp:38`, `snode.cpp:240-251`).

## 7. Not modelled

* Contents of requests and notifications: signatures, encodings and formats
  are reduced to the outcome of their checks (`hive/signature.cpp`, `bytes.hpp`,
  `utils.hpp`, `utils.cpp`: pure functions over bytes).
* The web front end (`register.py`, `onion_request.py`, `subrequest.py`, `web.py`):
  a proxy that keeps no state and does not retry.
* `get_stats_json` and `log_stats`, which only read and format; the row
  `last.<service>` of the statistics.
* The notifiers' `validate`, which is an input of `Requests`; payload encryption;
  the rates per day; the test notifier `dummy.py`.
* Configuration, Python bindings (`pybind.cpp`), the start-up script; the
  vendored `hms` SDK, beyond what `send_message` may do.
* Code that nothing calls: `Subscription::covers`, `Subscription::is_expired`,
  `PGConn::close`, and `count_` of the pool, which nobody reads.
* Shutdown (`QUIT` of the notification thread, the destructor).
* Memory order: the code uses sequentially consistent atomics and the event
  loop for what is shared, so steps interleave.

## 8. Plan

Modelled in the order notifications, requests, connections, swarms, queue, store,
pool, threads, notifiers; proved as section 5 says. What would come next:

1. A composition of `Subscriptions` and `Resubscription`, from the stored row to
   the request that a storage server gets, with several accounts.
2. The front end's timeout (`register.py:103`) as a client of `RequestService` that
   gives up and asks again.
