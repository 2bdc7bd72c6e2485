# A verification project for kuard

The repository is a set of notes on DevOps with sample programs. One of them is
a program with state, concurrency and failure of its own: **kuard**, the
demonstration server of *Kubernetes: Up & Running*, in
`src/kubernetes/from-books/k8s-up-and-running/code/book-code/kuard` (`kuard/`
below). This project models it in TLA+ (the server, the client of its message
queue, the pages that poll it, the pod around it), checks it with TLC and
proves its safety with TLAPS. A smaller program of the repository that acts on
the state of others, the clean-up of stale EBS snapshots, is modelled as well.

## 1. Inventory

`main` makes an `App`, whose components share one HTTP router; `net/http`
serves each request in a goroutine of its own. The components share nothing
but the process, so what connects them is that any of them can end it.

| Component | Code (in `kuard/` unless given) | State | Operations | What is hard |
| --- | --- | --- | --- | --- |
| MemQ broker | `pkg/memq/server` | map of queues under `Broker.mu`; per queue messages and four counters under `Queue.mu` | create, delete, drain, enqueue, dequeue, stats | two levels of locks; a queue is looked up under one lock and used under the other; statistics of several queues |
| MemQ client | `pkg/memq/client` | none | the same, over HTTP | the answer of a destructive dequeue may be lost; a worker may be cancelled, killed or cut off at any point; no timeout; error answers are not closed |
| KeyGen workload | `pkg/keygen` | configuration, history, cancel function; per workload a copy of the configuration, counters, a timer, a context | PUT, GET, Restart, two kinds of workload | a write outside the lock; cancellation races with completion, and completion ends the process |
| Debug probes | `pkg/debugprobe` | `FailNext` and a history, one pair each for `/healthy` and `/ready` | probe, GET, PUT | shared by the kubelet and any visitor; a PUT is two critical sections |
| Process, pod | `cmd/kuard`, `pkg/app`, `my-code/chap-05-pods/kuard-pod.yaml` | all of the above; the kubelet's counts of failures | start with flags, exit, kill, restart | restarts forget what was PUT; late answers of calls that were given up on |
| Memory API | `pkg/memory` | list of leaked blocks, no lock | alloc, clear, status | unguarded append; a bad size is answered 400 and allocated all the same |
| Templates, static data | `pkg/htmlutils`, `pkg/sitedata` | cache of parsed templates, debug flag | render, set config | |
| DNS query | `pkg/dnsapi` | none | one query over several search domains | which error ends the search |
| Web client | `client/src/*.jsx` | last answer of each poll, KeyGen's form, disconnected sign and its timer | poll each second, PUT, type, navigate | answers overtake each other, and come late from another page; polls meet a form being typed in |
| Environment API, helpers | `pkg/env`, `pkg/apiutils`, `pkg/version` | none | | |
| Stale EBS snapshots | `src/cloud/aws/aws-cloud-savings/ebs-stale-snapshots.py` | none; the state is in EC2 | one run over all snapshots | the announced rule and the coded one; checks before deletions; which errors end the run |
| Other | lambda, ECS and Express samples, Terraform, Helm values, documents | none | | |

What makes each part correct:

* **Broker**: no message is lost, delivered twice or out of order; `Depth` is
  the number of messages; an acknowledged message can be taken unless someone
  deleted the queue; every request is answered.
* **KeyGen**: at most one workload runs uncancelled, and it is the one that was
  configured last; the history has no gaps; limits are kept; only a complete
  and configured workload ends the process; cancelled workloads stop.
* **Probes, pod**: a probe fails as often as it was asked to, whoever calls it;
  the kubelet restarts the container for nothing else; the pod heals.
* **Work queue** (client, workers, broker): an item is worked on by one worker
  at most and done at most once; it is lost only with its queue or with a
  worker that was cut off from it; a worker that ends its process because the
  queue is empty leaves nothing behind; retries go on.
* **Web client**: a page comes to show what it polls of its own path and goes
  back in time only by an answer that was asked for before; polls leave the form
  alone; the sign shows every error for two seconds.
* **Snapshots**: nothing is deleted whose volume was with a running instance
  throughout; orphans go in the end. The announced rule, that the snapshots of
  stopped instances' volumes go too, is not kept (section 5).

The hazards of the code, each at its line, are in `PROJECT.json`.

## 2. Modules

| Module | Models | Correspondence |
| --- | --- | --- |
| `QueueService` | what the broker promises: each call in one step, on a queue that its name stood for at some moment of the call | `table` is the name space, `store` the queues, `seen` what the name of a call has stood for since it was made |
| `Broker` | `broker.go` under `api.go` | `queues`, `heap`, `bmu`, `qmu` are `Broker.Queues`, the `Queue` objects, `Broker.mu` and each `Queue.mu`; `pc` and `call` are a goroutine and its locals. One action per stretch between two lock operations, and one cut inside each critical section |
| `Broker_proofs`, `BrokerService_proofs`, `KeyGen_proofs`, `Probe_proofs`, `Pod_proofs`, `WorkQueue_proofs`, `Dashboard_proofs`, `Snapshots_proofs` | theorems about the modules that they extend (section 4) | `BrokerService_proofs` extends `Broker_proofs` and shows that `Broker` implements `QueueService` |
| `KeyGen` | `pkg/keygen` | `config` … `cancelFunc` are the fields of `KeyGen`; `pc`, `arg` belong to goroutines in `LoadConfig`/`Restart`/`APIGet`; `at`, `c`, `generated`, `timeout`, `cancelled` to workloads, named by the context that Restart makes |
| `Probe` | `pkg/debugprobe` | fields of each `Probe`, goroutines with their request |
| `Pod` | `main`, `App.LoadConfig`, `kuard-pod.yaml` | extends `Probe` with the kubelet (external), the end of the process and its new start |
| `WorkList` | what a work queue promises to whoever puts items into it | each item's stage, or the worker it was given to; how often it was done |
| `WorkQueue` | `pkg/memq/client`, the memQWorker of `pkg/keygen` | composes an instance of `QueueService`, whose clients are connections here, with workers (`at`, `held`, `cancelled`) in processes (`files`); refines `WorkList` |
| `Dashboard` | the polling pages in `client/src`, `disconnected.jsx` | `shown` is the polled part of the component's state (of KeyGen, its history), `config` and `typed` are KeyGen's form, `inst` is the component's identity, `flights` the fetches under way, `timer` and `left` the intervals of the sign |
| `Snapshots` | `ebs-stale-snapshots.py` | `todo`, `cur`, `at` are a run's list, loop variable and place; the rest is EC2 |
| `MC*` | instances for TLC | definitions of the constants, symmetry |

Operators whose names begin with `Bad` are deliberate mistakes (a dropped
reset, a missing lock, an off-by-one). `PROJECT.json` says which definition each
one replaces and which property then fails; they play no part in the models.

### Choices of the models

* `sync.RWMutex.Lock` is two moments: it shuts new readers out (`LockB`,
  `LockQ`) and the critical section begins when the old ones are gone
  (`NoReaders`). `RLock` is one.
* A `Queue` is known by a reference, for a name can be deleted and created
  again while a goroutine holds the older object. Every create call may make
  the object with its own number, every enqueue call the message with its own.
  `uuid` draws 16 random bytes; that two messages never get the same ID is
  assumed, that the draw fails is modelled (`LookupFails`).
* A handler's own refusals (empty name, unreadable body) are `Refuse`, for
  every operation, although the router matches an empty name in some routes only.
* `LoadConfig` assigns `kg.config` without the lock, a data race. The model
  writes it in two halves, in either order, interleaved with anything; strings
  are not torn inside. So `Restart` may see, and start, a mixture of two PUTs.
* A configuration is any that a PUT can carry: `NumToGen` is an integer, and a
  negative number of keys is no limit, like 0. TLC has -1, 0 and 1.
* `kg.history` IDs and probe IDs start over at `HistoryIDs` and `IDs`,
  which exceed `maxHistory`, so that consecutive entries can be told. In the
  code they are 64-bit counters that do not wrap in practice.
* `generated` counts only when there is a limit (otherwise nothing reads it but
  the text of a log line).
* `os.Exit` stops every goroutine: no action is enabled once `exited` is set.
  In `Pod` the process then starts again.
* The kubelet is modelled from the manifest: one call of each probe at a time,
  success resets the count of failures, `failureThreshold` failures of
  `livenessProbe` restart the container. A call it gives up on (`Timeout`)
  counts as a failure, and the goroutine goes on serving it. The time between
  two processes is not a state of its own.
* In `WorkQueue` a request lives on at the server when its sender has given up
  or died, so a connection is what makes a call. `http.DefaultClient` has no
  timeout; `net/http` does not send a POST again that may have arrived. The
  server's handler takes effect in one step of `QueueService`: `Broker`
  implements that. A user whose answer is lost knows less than one who reads
  it, so users always read theirs. What `generateKey` takes is left out:
  a worker holds an item, and `ItemDone` ends that.
* An HTTP error costs its process a socket (section 5). An answer 200 is read
  to its end by the JSON decoder, for its length is known, and 204 has no body,
  so these connections are used again.
* A worker that draws from the broker of its own process (`OneLocal`) takes all
  queues with it when that process ends. The promise of such a worker is
  `ExitMeansTaken` all the same.
* In `WorkList`'s terms an item is with a worker from the moment the server has
  removed it for a worker who still waits; when nobody waits for it any more it
  is gone (`Where`). `Lose` may take several at once: the end of a process does.
* In `Dashboard` a state of the server is a number that grows; what a page shows
  is the number it was answered with. KeyGen's polls take only the history out
  of the answer (`keygen.jsx:71-76`); its configuration is the one of the first
  load or of the answer to its own last PUT, and does not follow the server: a
  PUT of another client never shows in the form, and after a failed first load
  it keeps its defaults. React keeps the instance of a component
  if the router renders the same handler in the same place, and both probes'
  pages have the handler `Probe` (`app.jsx:76-77`); whether the router gives
  them a key is outside of the repository, so both happen (`Reuse`, `Remount`).
  Time passes in seconds only for the sign; polls come at any time.
* `Snapshots` takes the listed snapshots in any order. EC2 may refuse any call;
  InUse and NotFound come from its state. A volume is attached to a running or
  to a stopped instance, and instances stop and start: the code does not tell
  the two apart, the rule it announces does.

## 3. Runs

| Run | Instance | What it shows |
| --- | --- | --- |
| `broker_refines_service` | 2 clients, 1 name, 2 creates, 3 enqueues, all operations | type invariant; **AckedIsReachable**, **Balanced**, **ScanIsSnapshot**, **NoRedelivery**; **Implements**: the broker refines `QueueService` |
| `broker_liveness` | 3 clients, 1 create, 1 enqueue, all operations but dequeue, fair | **EveryCallAnswered**, **RowsBalanced**; deadlock is checked in both |
| `keygen_safety` | 2 callers, 5 configurations, 2 loads | type invariant, **OneLive**, **Settled**, **HistoryConsecutive**, **WorkBounded**, **ExitOnlyWhenComplete** |
| `keygen_liveness` | 2 callers, plain workloads, fair | **CancelledStops**, **LimitedEnds** |
| `keygen_cancelled_exit` | 1 caller | fails: **CancelledNeverExits** (section 5) |
| `pod` | 2 goroutines, both probes, flags 1, threshold 2, 1 PUT (of 1 or for ever), 1 timeout, 1 crash, fair | type invariant, **FailsAsConfigured**, **RestartEarned**, **Heals**, **ReadyAgain** |
| `work_queue` | 2 workers of one process, 3 connections, 2 creates, 2 items, 1 fault, 1 PUT | **Implements**: refines `WorkList`; **LossesExplained**, **ExitMeansTaken** |
| `work_queue_liveness` | a remote worker and one in the broker's process, users that also delete and drain, 1 item, 1 fault, fair | **EventuallySettled** |
| `work_queue_leak` | 1 worker, 2 sockets, no fault, fair | fails: **KeepsAsking** (section 5) |
| `dashboard` | 3 pages (two with one handler), 2 fetches at a time, 1 change of each state, 1 navigation, 2 errors, fair | **EventuallyShows**, **OldOnlyFromBefore**, **TypedIsKept**, **SignTells** |
| `snapshots` | 2 overlapping runs, 2 snapshots of one volume and one of none, 2 changes, 1 fault, fair | **DeletesStaleOnly**, **OrphansGo** |
| `snapshots_rule` | 1 run, the same snapshots, no change and no fault, fair | fails: **StaleGo** (section 5) |

Bounds, and why they are enough. In the broker, the races are between two
operations on one object, or one and a Stats; a third client lets a reader, a
waiting writer and a late comer meet. Two creates make a name stand for two
objects in turn, which is what tells an object from its name; three messages
make an order of which one end is taken. Every further client, name or message
repeats the same pairs, and the theorems of section 4 remove the bounds for
what they state. In KeyGen two loads are two overlapping Restarts and an old
workload beside a new one; a third would cancel the second as the second
cancelled the first. A history of 2 is trimmed at the third line. For the pod,
the flag asks for one failure less than the threshold, so that the flag alone
does not restart the container and the flag with a PUT or a timeout does; the
crash brings the flag back in between. The probes' histories are left out of
the run (`maxHistory` is 0): that they are consecutive is the theorem
`PodHistoryAgrees`, and the same way of trimming runs in `keygen_safety`.
For the work queue two items tell one that is done from one that is mixed up
with it, and two workers and one fault are a worker that is cut off and one
that goes on; a third connection is the request that outlives its sender. Its
liveness has one item, and both kinds of worker instead. Two sockets per
process are as good as a thousand: what counts is that errors use them up one
by one. In the dashboard two fetches are enough to overtake each other, one
navigation to let an answer come late from another page, two errors to restart
the sign's timer. Two snapshots of one volume and one without a volume are the
three branches of the code, with one to be starved by another.

`CHECK_DEADLOCK FALSE` stands in the KeyGen configurations: the process may have
exited, or all bounded loads be done with no workload enabled.

Fairness. Weak fairness of what a goroutine does by itself: the Go scheduler
runs every runnable goroutine. Strong fairness of taking a lock: `sync.Mutex`
hands over to a waiter that starves (since Go 1.9), and `RWMutex` lets the
readers that wait at an `Unlock` in before the next writer. Timers fire.
Nothing is assumed of clients or of PUTs, nor of the MemQ server that a
memQWorker draws from: its client has no timeout, so a call may hang, and
`CancelledStops` is stated of the plain workload only. The kubelet never stops
probing, and is eventually given a goroutine (strong fairness of `Call`: in the
model the goroutines are few, in `net/http` there is always one more). Its
timeouts, the PUTs and the process's own exits are finite in number: `Heals`
and `ReadyAgain` speak of the time after the last of them, and of flags that ask
for fewer failures than the threshold. In `WorkQueue` faults are finite in number; otherwise the
server answers (`EveryCallAnswered` is what the broker has for that), answers
arrive, workers run, a process that ended is started again, and a worker gets a
connection time and again (strong fairness of `Dequeue`, for in the model the
connections are few). In `Dashboard` the intervals fire and every fetch ends;
nothing makes anybody PUT, type or navigate. In `Snapshots` the schedule starts
the function again and again and runs go on; what others do is finite in number
and owes nothing.

## 4. Proofs

What each module of theorems states for every value of the constants:

| Module | Theorems |
| --- | --- |
| `Broker_proofs` | `TypeCorrect`; `CountsAgree`: `[]Balanced`; `StatsAgree`: `[]RowsBalanced`; `DeliveredOnce`: `NoRedelivery`, an action property |
| `BrokerService_proofs` | `ScansAgree`: `[]ScanIsSnapshot`; `AckedReached`: `[]AckedIsReachable`; `Refines`: `Implements`, the refinement of `QueueService` |
| `KeyGen_proofs` | `TypeCorrect`; `OneIsLive`: `[]OneLive`; `LoadsSettle`: `[]Settled`; `HistoryAgrees`: `[]HistoryConsecutive`; `WorkIsBounded`: `[]WorkBounded`; `ExitsEarned`: `[]ExitOnlyWhenComplete` |
| `Probe_proofs` | `TypeCorrect`, `FailuresAgree`, `HistoryAgrees`: `TypeOK`, `FailsAsConfigured`, `HistoryConsecutive` of the probes alone |
| `Pod_proofs` | `PodTypeCorrect`, `PodFailuresAgree`, `PodHistoryAgrees`: the same over all restarts; `RestartsEarned`: `[]RestartEarned` |
| `WorkQueue_proofs` | `TypeCorrect`; `LossesAnswered`: `[]LossesExplained`; `ExitsTaken`: `[]ExitMeansTaken`; `Refines`: `Implements`, the refinement of `WorkList` |
| `Dashboard_proofs` | `OldWereAsked`: `OldOnlyFromBefore`, an action property; `TypedStays`: `[]TypedIsKept`; `SignIsOn`: `[]SignTells` |
| `Snapshots_proofs` | `DeletesOnlyStale`: `DeletesStaleOnly`, an action property |

So every invariant, every action property and both refinements that the passing
runs check are theorems as well. They rest on the assumptions about constants
that each module states by name (`BrokerAssumption`, `KeyGenAssumption`, ...):
the sets are of the right kind and do not overlap, the bounds are natural
numbers, the numbers that stand for IDs outnumber the history. TLC evaluates
them in every run. The bounds on counters (`MaxQueues`, `MaxLoads`, ...) are
any numbers. Only `WorkQueueAssumption` asks for more, that the workers are
finitely many (`broken` counts them), and that no worker has the name of a stage
of an item.

Hardly any of these properties is inductive: they speak of moments at which
nobody is halfway. Each module begins with the invariant that says what holds in
between, in named parts; one lemma per part shows that every step preserves it.
That of `WorkQueue_proofs`, the longest, was checked by TLC first: on the
instance of `work_queue`, and on one with a worker in the broker's own process
and users that delete and drain.

**Broker.** `IInv` of `Broker_proofs` adds to the types:

* `CallInv`: where each goroutine is says what its locals hold (who is inside a
  queue has a queue, who counts a message has one);
* `LockInv`: a lock's writer is the goroutine whose `pc` is inside, its readers
  those that hold it for reading, and whoever is past the first step of a
  critical section is alone;
* `CountInv`: of each queue, it is either settled (`Depth` is the number of
  messages, and what came in went out or is there) or exactly half done by the
  one goroutine inside, in a way that depends on its operation.

The facts about records that the steps share are lemmas of their own
(`AppendedIs`, `DroppedIs`, ...). `RowsBalanced` follows because a row is read
under the queue's read lock, which excludes the writer. `NoRedelivery` speaks
of one step and needs to know where every message is: by `MsgInv` it is with the
`PutMessage` that made it, at one place of one queue, or delivered, and never at
two of these. `AppendContent` and `TailContent` say what an append and the
removal of the head do to the contents of a queue; a delete, a create or a drain
moves no message to a second place. That a `GetMessage` drops the very message
it has looked at is `HeadIs`, from `CountInv`: nobody else was inside in between.

`BrokerService_proofs` adds `ScanInv` (a goroutine inside `Stats` has rows of
bound names only, at most one of each, and reads one of a name that has none
yet; a reader of `Broker.mu` keeps every create and delete out, `BoundStays`),
`AskInv` (a call has the locals of its request and no answer until it is decided)
and `SeenInv` (the queue that a call works on is one its name has stood for since
the call came in). The refinement mapping is the one of `Broker`
(`AbsPhase`, `AbsStore`, `AbsReq`, `AbsAns`): a call counts as answered from the
moment its first half inside a queue is done, and a queue's `enqueued` counts
the message at once. A step of the broker then is one of two kinds, and a lemma
says so of each: taking locks, looking up and the second halves change nothing
that shows (`AcquireHidden`, `LookupHidden`, `CountHidden`), every other step is
one call's effect (`BindShows`, `PutShows`, `GetShows`, `DrainShows`, ...).

**KeyGen.** `LockInv`: `kg.mu` is with whoever is inside. `LoadInv`: each context
was paid for by a `LoadConfig` (the ones that have not decided yet, counted by
`Cardinality`, and the contexts made are no more than the calls), so that a
Restart always finds a fresh one. `CancelInv`: every context but `cancelFunc`'s
is done, and nobody has started the workload of one that is still to be started;
`OneLive` follows. `SettleInv`: once no LoadConfig is undecided, `kg.config` does
not change any more, and what a Restart has yet to write is what makes its
workload agree with it. `WorkInv` follows a workload through its log lines:
`Goal` is where it goes once a line is written, and what holds there holds
before. `HistoryInv` says what the history looks like while its last line is
appended and not counted.

**Probes and pod.** `FailsAsConfigured` speaks of free probes only; `IInv`
says what one looks like between the decision of `Handle` and its record
(`CountInv`: one failure is owed), that `mu` names the goroutine inside
(`LockInv`) and what its locals hold (`CallInv`). That trimming keeps the last
entries in order is the lemma `LastOfIs`. In the pod, a step that is not the
start of a process is a step of `Probe` (`StepOfProbe`), and a new process is in
a state that satisfies `IInv` (`RestartIInv`), so the probes' invariant carries
over. `RestartEarned` does not say where the failures are that were asked for
and not counted yet. `AccountInv` does: what the kubelet counted, plus the
answer 500 on its way to it, plus `failNext`, is at most what was asked for plus
the timeouts. It needs `KubeletInv`: the goroutine that the kubelet waits for
serves that probe, and has answered nothing before its handler decided.

**Work queue.** The steps of the server are those of `QueueService`; lemmas say
what each of them answers and what becomes of each queue (`CreateIs` to
`DequeueIs`, gathered in `ServeIs`). The invariant has two halves. Of the server:

* `CallInv`: which answers each operation can have been given; the item in one
  was put in, or was taken out, before;
* `RefInv`: a queue that is not bound yet is empty, is nobody else's and has not
  been seen by anybody, so a create never brings items back;
* `MintInv`: an item that is still on its way in is new, and in one call only.

Of the clients:

* `ActorInv`: no two actors wait on one connection, a connection that a worker
  waits on carries a Dequeue, and where a worker is in its loop says whether it
  waits or holds an item;
* `PromiseInv`: while an item that was promised to a worker still waits, the
  name has not changed its meaning since the worker asked, and the answer is not
  that the queue is empty. A delete, a drain or the end of the server takes all
  promised items away, so the promise then holds for want of any; this is why
  `ExitMeansTaken` survives them;
* `PlaceInv`: an item is in one place of one queue, or taken and with one worker
  at most, who has not done it yet;
* `LossInv`: the items that are lost, and the Dequeue calls that are left alone
  at the server, are together no more than `broken`. The calls have to be
  counted: the item is lost later than its worker was cut off, when the server
  takes it for a caller who has gone.

For the last two and for the refinement, `ItemSteps` sorts the steps by what they
do to items: some workers `C` are cut off from an item or a call each
(`CutsOff(C)`, with `C` empty for most steps), a worker finishes its item, the
server puts one in, or takes one out. `CutSize` counts: what `C` loses are at
most as many items and calls as `C` has workers. To `WorkList` the four are
`Lose` (of all the items that went at once), `Finish`, `Accept`, and `Take` or,
if nobody waits for the answer, `Lose`; `Staged` says what stage each item is at.

**Dashboard.** `FlightInv`: no fetch has seen more than the server has, and none
is answered less than it was sent after; an answer that is older than what the
page or its form showed was therefore asked for before. This allows the poll
that a PUT overtook, and forbids the answer from a cache. `FormInv`: while the form is to be kept, no
fetch of this instance is under way that would set it. `SignInv`: only the
interval of `this.timer` runs, and what is left of it and the time since the
last error make three; so no older interval can hide the sign.

**Snapshots.** What a run has learnt from `describe_volumes` may be out of date
when it deletes; the invariant (`Asked`) says what remains true: the volume was
without a running instance at some moment since the run took the snapshot up,
and a run that is still about to ask will find it attached if it never was.

Only model-checked: what is temporal (`EveryCallAnswered`, `CancelledStops`,
`LimitedEnds`, `Heals`, `ReadyAgain`, `EventuallySettled`, `EventuallyShows`,
`OrphansGo`), for fairness and `ENABLED` are out of the prover's reach.

## 5. Findings

* **A cancelled workload can end the process** (`keygen_cancelled_exit`).
  `Restart` cancels the running workload (`pkg/keygen/keygen.go:59`) and
  `workload.done` means to end the process only `if !canceled`
  (`pkg/keygen/workload.go:71`), but the context is looked at only in the
  `select` of `isDone`. A workload that has just reached its limit has to log a
  line under `kg.mu` before it exits; if `Restart` has the lock, it cancels
  that workload and starts the next one, and then the old workload ends the
  process. It is also enough that the context and the timer are ready at once,
  since `select` chooses at random, or that a memQWorker is cancelled during
  its `Dequeue`.
* **A worker that only meets errors stops asking** (`work_queue_leak`).
  `errorFromResponse` (`pkg/memq/client/client.go:34`) makes an error of every
  status from 300 on, and its callers return it without closing `resp.Body`
  (118-121). An unread, unclosed body keeps its connection, so each error costs
  the process a socket. A memQWorker whose queue has not been created yet gets
  a 400 every second; once its process has as many open sockets as it may have,
  no request leaves it, and it sleeps and fails for ever even if the queue is
  there by then. `pkg/keygen/config.go:37` promises: "If there is an error it
  will keep retrying with a small pause." In a pod with a livenessProbe the
  same shortage of sockets fails the probe and the restart heals it; a Job with
  the same worker has no such probe. `EventuallySettled` holds but for this.

* **The rule of the snapshot clean-up is not the announced one.** Line 19 of
  `ebs-stale-snapshots.py` announces to delete a snapshot if "the volume is not
  attached to a running instance"; the running instances are collected (13-17)
  and never used, and line 34 asks only whether the volume is attached. The
  snapshot of a volume that is attached to a stopped instance stays, run after
  run (`snapshots_rule`: `StaleGo` is the announced rule, and fails without any
  error or change). The code deletes less than announced, never more
  (`DeletesStaleOnly`), but for one case that both allow: a volume that is
  attached between lines 34 and 35 does not save its snapshot.
* **One snapshot can stop the clean-up for good.** A snapshot that an image is
  made of cannot be deleted. If its volume is gone too, or it names none, the
  call that would delete it (42, 26) raises out of the handler, and every later
  run ends at the same place; `OrphansGo` needs the exception `Blocks`.

Seen while reading, not modelled: `Probe.basePath` is assigned only if it is
already set (`pkg/debugprobe/probe.go:58`), so `probePath` is always empty;
`APIAlloc` goes on after a bad size (`pkg/memory/api.go:64`); the API text of
the web client says `/queue/:queue` for routes that are `/queues/:queue`
(`client/src/memq.jsx:17-20`).

## 6. What is not modelled, and the plan

Done, in this order: the broker with its abstract specification and first
proofs; KeyGen; the probes and the pod; the work queue of broker, client and
workers; the web client; the snapshot clean-up with its proof; the proofs of all
invariants, action properties and refinements.

Not modelled:

* `pkg/memory`: `leaks` is appended to and cleared without a lock. What the next
  alloc or clear finds after such a race is a matter of the Go runtime (three
  words of a slice header, torn in any way), and nothing of the program reads
  the blocks; a model would be one of the runtime.
* `pkg/dnsapi`: a loop over the search domains without state. That the first
  error ends it although a later name could have been answered is its rule,
  and the rest is the resolver's.
* `pkg/htmlutils`, `pkg/sitedata`: text, from data that is part of the binary;
  the configuration is set before the server runs. Page rendering, metrics and
  logging middleware, TLS, the file browser and the environment API have no
  state of their own.
* In `client/src`: the DNS and environment pages (one fetch), the memory page
  (a poll like MemQ's), rendering.
* `Stats` of the MemQ client: it reads only.
* Terraform, Helm and Kubernetes objects, whose behaviour is that of other
  programs; the Express, ECS and lambda samples, which are straight-line code.

Next: lemmas that are stated of one module and used by several (what a name of
the queue stands for, in `BrokerService_proofs` and `WorkQueue_proofs`; the
trimmed list, in `Probe_proofs` and `KeyGen_proofs`) in one place; and safety
parts of the temporal properties, as what a cancelled workload can still do.
