# DASTForge in TLA+

DASTForge is a scan platform. A Go backend stores policies and tasks in MySQL,
deploys one set of scanner pods per policy to Kubernetes, and hands them work
over Redis streams; a Vue front end drives it. The scanner images are not part
of the repository. This directory holds the formal model of the backend,
of the scanner pods as the backend's Redis operations serve them, and of the
task page: TLA+ modules, the configurations TLC checks, and theorems that TLAPS checks.

## 1. Inventory

Paths are relative to `src/backend/internal/` unless they start with `src/`.

| Component | State it keeps | Operations | Hard behaviour |
|---|---|---|---|
| Task API `api/handler/task.go` | `tasks`, `task_parts_progress`, four result tables, `task_events` | Create, Pause, Resume, Terminate, Delete, Restart, list and detail queries | handlers and background goroutines read, call Redis and write without a lock or a version; errors of the last write are dropped |
| Task dispatch `service/scheduler/scheduler.go` (`SubmitTask`) | the goroutine's own copy of the task | probe, chunk, save, record, send and mark each part | 10 minute deadline, stale copy written with `Save`, termination polled between parts |
| Policy lifecycle `api/handler/policy.go`, `scheduler.go` (`DeployPolicy` ...) | `policies`, `policy_modules`, streams, consumer groups, ConfigMaps, Deployments | Create, Update, Delete, Enable/Deploy, Disable, ScaleModule | check-then-act against tasks, deploy in many fallible steps, ids used again |
| Policy rules `policy/policy.go` | none | Validate, BuildWorkflow, BuildModuleConfig, EnabledModules | defaults and dependencies between modules |
| Alive check `alive/alive.go` | result slice, semaphore | ResolveAll, ICMPAlive, TCPAlive, CheckAll | up to 32 goroutines of each task share the raw ICMP traffic of the machine; deadline |
| Redis streams `redisstream/redisstream.go` | business streams with groups and pending entries, control stream | EnsureGroup, EnsureStream, XAdd*, XRead*, XAck, XPending, XClaim, Delete* | broadcast reads from `$`, claims of pending entries |
| Message lock `lock/lock.go` | one key per message with a TTL | Acquire, Release, Renew | expiry between two renewals |
| Kubernetes client `k8s/client.go` | cluster objects | create-or-update, scale, delete, list | get-then-update conflicts |
| Task page `src/frontend/src/views/TaskDetail.vue`, `api/http.js` | the task and its lists, the calls under way | refresh on a timer, on opening and on moving; act | answers out of order, answers after the page is gone |
| Session `views/Login.vue`, `router/index.js`, `AppShell.vue`, `src/backend/internal/auth`, `middleware` | the token in `localStorage` | sign in, wrong password, sign out, guard, 401 | a late 401, or that of a wrong password, meets a good token |
| Other pages `views/Dashboard.vue`, `TaskList.vue` ... | none beyond one view | load, on a timer or once; forms | only two of them have a timer |
| Configuration, database set-up, router, resource queries | none beyond one request | one check or query per request | none |

Interaction: a request runs in a goroutine of gin. `Create` and `Restart` start
one more goroutine each. All of them share MySQL rows and Redis keys and nothing
else; MySQL gives each statement or transaction, and Redis each command,
atomicity, and there is no other synchronisation. Workers (external) take parts
from `dast:policy:{id}:portscan`, pass them along the workflow streams, update
`task_parts_progress` and the results, and read `dast:policy:{id}:control`.

What makes each component correct:

* tasks: pods hear of a pause or termination before the row says so; every part
  on the stream is in the table; a part shown as running was sent; a completed
  task was scanned; queued and restarting are left; a terminated or deleted task
  stays so;
* policy lifecycle: an enabled policy has the groups, streams and deployments of
  its modules; a disabled or deleted one has none and no task runs on it;
* rules: Validate yields a policy on which the other functions are meaningful
  (renewal before expiry, batch of 1 to 10, dependencies);
* alive check: one result per host, in order; a host that answers is found, one that
  does not is alive only by a reply that was not its own; it returns;
* streams and lock: a message is processed by one worker at a time and not lost;
* task page: what stays on the page is what the server has of the task it is
  for; a page with a timer and no good token gives way to the login page; late
  answers do not sign a user out.

## 2. Plan

1. `TaskDispatch` (done): tasks, parts, portscan and control stream, handlers,
   goroutines, workers. `PartLedger` (done): the abstract promise it implements.
   `TaskDispatchProofs` (types), `TaskSafetyProofs` (what is announced, sent and
   recorded, and the refinement) and `TaskOutcomeProofs` (what becomes of a task)
   prove every safety property (done).
2. `PolicyLifecycle` (done): policy rows, streams, groups and cluster objects;
   handlers with a fallible step per call; the gate between policies and tasks
   (Create, Restart, `hasActiveTask`), ids used again, streams deleted.
   `PolicyLifecycleProofs` proves every property (done).
3. `AliveCheck` (done): `CheckAll` with its semaphore, deadline and shared
   replies; `AliveCheckProofs` for any number of hosts (done).
4. `PolicyRules` (done): Validate and the workflow as operators, and what the
   requests make of them; `PolicyRulesProofs` for any policy (done).
5. `StreamLock` (done): group, pending entries, claims, and locks with their
   life; `EntryLease` (done): the abstract promise, one pod per entry and time.
   `ControlStream` (done): broadcast reads from `$`. `ScannerPods` (done)
   composes the two under the pods of a module. `ScannerPodsProofs` proves both,
   the pods alone and in the composed system (done).
6. `TaskPage` (done): the task page, the session and the answers of the server;
   `TaskPageProofs` (done).
7. Every invariant the runs check is proved. Still worth a theorem: what remains
   of `ActiveTaskHasPolicy` and `DeletedIsClean` with several requests and
   namespaces, where the properties themselves are false (section 5).

## 3. The modules

### TaskDispatch

State and code:

| Variable | In the program |
|---|---|
| `issued`, `status` | `tasks`: last auto-increment id, `status` column (`"none"`: no row) |
| `partStatus`, `modStatus` | `task_parts_progress.status` and the four `*_status` columns |
| `results` | the parts that have rows in the four result tables |
| `sent`, `taken` | the portscan stream of the task's policy: entries added for a part, entries workers are finished with |
| `control` | the control stream of the policy, restricted to the task |
| `sub[t]` | the `SubmitTask` goroutine of a task: next call, batches of hosts that really answer (`up`), batches it planned (`plan`), loop index (`next`), deadline passed (`expired`) |
| `req[r]` | an API request in progress, and after Restart its goroutine |
| `used`, `abandoned` | the bounds, and a history variable: tasks whose goroutine or handler died or got an error it gives up on |

Actions: every SQL statement or transaction and every Redis command is a step.

| Code | Actions |
|---|---|
| `Create` (task.go:34) and its goroutine | `Create`, `Expire`, `Probe`, `SubmitRecheck`, `SubmitSave`, `SubmitRows`, `SubmitCheck`, `SubmitXAdd`, `SubmitMark`, `SubmitFinish`, `SubmitFail` |
| `control` (task.go:349) | `ControlRead`, `PublishControl`, `ControlWrite` |
| `Delete` (task.go:157) | `DeleteRead`, `DeleteRows` |
| `Restart` (task.go:179) and its goroutine | `RestartRead`, `RestartCopy`, `RestartWrite`, `ResetParts`, `RepublishList`, `RepublishXAdd`, `RepublishMark`, `RestartFinish` |
| process restart | `Crash` |
| scanner workers (external) | `WorkerScan`, `WorkerFail`, `WorkerDrop`, `WorkerComplete` |

A call that fails is taken to have had its effect or not. The deadline can
expire at any time in `SubmitTask`; from then on every call that takes the
context errs, and `CheckAll` reports the hosts it has not probed as dead.
`gorm.Save` updates all columns and inserts the row when there is none;
`Updates` on a missing row does nothing. Workers are modelled from what the
code expects of them: a part is completed in one step, or given up, which leaves
its row `failed` (models.go:22, TaskDetail.vue:216; the backend never writes that)
and counts as one of the failing calls; entries of a task whose termination is on
the control stream may be dropped, and the task is completed when all its parts are.

Abstractions: a host list is the number of its batches; timestamps, error texts,
events (`task_events` are only listed by the Events endpoint) and read-only
endpoints are left out; the
policy is fixed and enabled (its lifecycle is `PolicyLifecycle`), so the
`404` and `409` answers about the policy do not occur; a request that is
rejected by its first read is no step. A pod that pauses keeps its entries and
may go on after a resume, so pausing does not change `taken`. go-redis sends a
command again when its reply is lost, so an XADD that succeeds may have left two
entries or two messages (`Resends`, `AnnounceTwice`).

`TaskProperties` states the properties. `PartLedger` is the abstract
specification for the workers: a part is entered, sent, marked running,
completed, given up or discarded, reset, removed; `ImplementsLedger` maps `status # "none"`,
`partStatus`, `sent`, `taken` and `results` to it.

### PolicyLifecycle

| Variable | In the program |
|---|---|
| `row` | the `policies` row of one id: state (`draft`, `active`, `inactive`), configuration, creation time |
| `stream`, `control`, `unread` | the business streams with or without group, the control stream, the tasks with entries nobody has read |
| `maps`, `pods` | ConfigMaps and Deployments by namespace and module; a Deployment may be on its way out (`dying`) |
| `tasks` | what the gates see of tasks: active or ended, creation time |
| `req[r]` | an API request: the copy of the row it works on and the calls it has left |
| `settled`, `used` | history of the last completed deploy or disable (not of a deploy that began with a Deployment still going); the clock and the bounds |

A request of a policy reads the row (`CreateRead`, `UpdateRead`, `EnableRead`,
`ScaleRead`; delete and disable first count the active tasks in `GateRead`, then
read in `GateFind`), makes its calls one by one (`MakeCall` over `DeployCalls`,
`DisableCalls`, `DeleteCalls`, of which it always takes the first by `Before`, the
order of the loops in scheduler.go:36, 103, 140, 152) and writes the row
(`SaveRow`). A failing call has happened or not; the handler
returns, except in disable, which goes on. `NewTaskRead`, `RestartRead` and
`SaveTask` are the reads and inserts of the task handlers, `TaskSend`,
`TaskControl` and `TaskEnd` what a task does to the streams. `WorkerRead` and
`Collect` (the cluster removes a deleted Deployment) are external.

Abstractions: one policy id (keys and object names contain the id; the id of the
last policy is `MAX(id)+1` again after its deletion); two modules in the runs;
`policy_modules` is a copy nothing is decided by, so it is left out; the namespace
object, message locks (see `StreamLock`) and labels are not told apart by a property; a conflict
between the read and the write of a cluster call is a failing call; the mode
without a cluster (`K8s == nil`) is left out; the two reads of Restart are one.
`PolicyProperties` states the properties.

### PolicyRules

| Operator or action | In the program |
|---|---|
| `Completed` (with `Default`, `Batch`, `Renew`, `Blank`) | what `Validate` (policy.go:136) writes into the policy |
| `Accepted` (with `ValidModule`, `Needs`, `ValidPorts`) | whether `Validate` returns an error |
| `EnabledModules`, `Downstreams`, `PodConfig` | `EnabledModules`, `BuildWorkflow`, `BuildModuleConfig` |
| `stored`, `Save` | the row's configuration; Create and Update of a policy |
| `deployed`, `Deploy` | the ConfigMaps of the modules; `DeployPolicy`, which parses the row, validates again and drops modules that are disabled |

A text is what the rules ask of it (blank or not), a port entry the sequence of
its segments and a segment the numbers between its dashes, with `NaN` for what
does not parse: splitting, trimming and `Atoi` are left out, what they yield is
not. An update or deploy that fails half-way is `PolicyLifecycle`'s. The names
of keys and objects, the JSON text with its hash, template ids and dictionaries
are left out, and `DefaultPolicy`, which only fills a form.

### AliveCheck

| Variable | In the program (alive.go) |
|---|---|
| `pc`, `next` | where `CheckAll` (line 142) is, and its loop index |
| `wg`, `sem` | the WaitGroup's count and the tokens in the channel |
| `worker[h]`, `at[h]` | the goroutine of a host, and the address of the host it is at |
| `socket[h]` | its raw socket: closed, open, or what it has read first |
| `echo` | addresses whose replies to this check are under way |
| `result[h]` | the entry of the result slice; `late` is the "dead" of a goroutine that starts after the deadline |
| `expired` | the context of the task (task.go:91) is over |
| `overheard` | history: hosts whose socket has read a reply to a ping that was not this check's |

`AddOne`, `Acquire`, `Return` are the loop and `wg.Wait`; `Begin` is the
`select` and the resolution of the name; `Ping`, `Read`, `Dial` are
`ICMPAlive` up to the write, its read, and `TCPAlive` with the loop of
`IsAlive`; `Release` and `Done` are the deferred calls. `EchoReply` (to a ping of
this check), `ForeignReply` (to a ping of another task's `CheckAll`, task.go:91,
or of another process, or to none) and `OtherPacket` (no echo reply) hand a packet
to every socket that waits, as raw sockets get it; `ICMPAlive` looks at the first
packet and compares neither sender nor id.

Abstractions: the usual TCP ports of an address are one dial; a ping that
cannot be sent goes on to the dial; a read may time out at any time. Which
addresses answer does not change during the check.

### StreamLock and EntryLease

| Variable | In the program |
|---|---|
| `added`, `read`, `group`, `deleted` | a business stream: its entries, the last one its group has delivered, whether group and stream exist |
| `pending[e]` | what XPENDING says of an entry: consumer, ticks since delivery |
| `lock[e]` | the key `lock:stream:{stream}:message:{id}`: value and remaining life |
| `up`, `hand[w]`, `on[w]`, `acked`, `since[w]` | a pod: running, entries received, entry being scanned, acknowledged, ticks since its lock was set |
| `scanned`, `faults`, `late`, `crashes` | history and bounds |

Every operation of `redisstream.Manager` and `lock.Locker` on a business stream
is an action of its name: `EnsureGroup`, `XAddBusiness`, `XReadBusinessGroup`,
`XClaim` (of what XPENDING lists), `XAck`, `Acquire`, `Renew`, `Release`;
`DeleteStream` and `DeleteLock` are the Redis part of `DeletePolicyResources`
(the streams in one DEL, then the locks by SCAN). The pods are not in the
repository: that they lock an entry before they scan it, renew while they scan,
acknowledge and then release follows from what these operations are for
(lock.go:10). A lost reply leaves the command done. `Tick` is time; a pod is late
with a renewal at a bounded number of ticks, so that what depends on renewal in
time can be told from what does not.

`EntryLease` is the same in the pods' terms: an entry is let to one pod for a
time, extended, given up, and to no other meanwhile. The mapping gives a pod that
scans an entry the time its lock has left by its own count, `Ttl - since`; that
this is never more than what Redis has is the point of the refinement. Deleting
the stream voids the promise.

### ControlStream and ScannerPods

`length` is the control stream (ids 1, 2, ...), `last[l]` the id a pod keeps,
`call[l]` the id its blocked call reads from (`$` is resolved when the call
starts), `got[l]` what it got. `EnsureExists` and `EnsureAdd` are the two
commands of `EnsureStream`; `ReadReply`, `ReadTimeout` and `ReadError` are the
three ways `XReadControl` ends. A pod that stops starts again from `$`.

`ScannerPods` extends `StreamLock` and instantiates `ControlStream`: a deploy
makes the group and then the control stream, a delete ends both, a pod that stops
loses its hand, its scan and its place in the control stream in one step.

### TaskPage

| Variable | In the program |
|---|---|
| `rev`, `gone`, `expired` | the server: revision of each task, deleted tasks, tokens it rejects |
| `token`, `route`, `signIn` | `localStorage.dast_token`, the current route, a sign-in: asked for, or stored and on its way to the dashboard |
| `task`, `parts` | the refs of TaskDetail.vue, each with the task and revision it shows; `parts` stands for the six lists |
| `calls`, `live` | calls under way with id, token and answer; those whose component is still mounted |
| `since` | history: the first token of a sign-in with no call under way, 0 if there is none after the last sign-out or wrong password |

`Timer` (on the pages that have one, `Timed`), `Button` and `Visit` start a
refresh. `SignIn` asks for a token; `Admit` stores it and `Enter` moves to the
dashboard (Login.vue:50-53), `Refuse` is the wrong password (handler/auth.go:34-41),
`Unanswered` any other error. The guard (router/index.js:25) lets everybody to the
login page, so a user may sign in, and mistype, with a token stored; `SignOut` is
`onLogout`. `Serve` is the middleware and the handler, `Unauthorized` the response
interceptor on a 401 (http.js:21-25), which is what a wrong password gets too and
what `ArriveDenied` hands over; `ArriveTask` and `ArriveLast` are the two rounds
of `refresh`. Tokens are numbered in the order of sign-in; the browser never
cancels a call. A navigation supersedes the one to the dashboard (`Superseded`).

`Home` stands for the dashboard and the page of resources, which refresh every 10
seconds; `List` for the pages without a timer: TaskList.vue and PolicyList.vue
(`onMounted(refresh)`), TaskNew.vue and PolicyEdit.vue. What they ask for is one
call, the six lists of a task are one call, and so is what a button asks for. The
shell's poll of `/health` needs no token (router.go:34) and is left out. There is
one tab and one sign-in at a time (the button waits for its answer).

## 4. Runs

| Run | Bounds | Shows |
|---|---|---|
| `faults` | 1 task, 2 parts, all operations, 2 requests in 2 slots, 1 failing or repeated call or failed scan, 1 crash, the deadline; policy with portscan and nmap | `TypeOK`, `CompletedHasResults`, `SentOnce`, `RunningWasSent`, `StatusAnnounced`, `TransientIsOwned`, `ImplementsLedger` |
| `copy` | 2 task rows: a terminated task is copied; 1 crash | `SentIsRecorded` |
| `sequential` | one slot, all operations, 1 failing call, 1 crash | `RunningIsDispatched`, `ControlAgrees` |
| `live` | fairness, failing call, crash | `QueuedIsLeft`, `RestartingIsLeft` |
| `final` | small | disagreement of section 5 |
| `policy` | 7 requests about the policy and 2 tasks one after another, 1 failing call, 1 crash, ids used again, Deployments linger | `TypeOK`, `DeployedAsConfigured`, `DeletedIsClean`, `DisabledIsIdle`, `ActiveTaskHasPolicy`, `TaskKeepsPolicy`, `EntriesSurvive` |
| `policy_moved`, `policy_gone` | small | disagreements of section 5 |
| `rules` | about 170 requests: every choice of modules that are on, off or missing; limits that are missing, negative, equal or in the wrong order; each wrong field | `TypeOK`, `SavedIsStable`, `RuntimeUsable`, `PodsAreConnected` |
| `alive` | 4 hosts (down; a domain whose second address is up; only pings; unknown name), 2 at a time, foreign replies at any time | `TypeOK`, `ReturnsComplete`, `SocketsBounded`, `ConnectsIsFound`, `AliveIsExplained`, `CheckReturns` |
| `pods` | 2 pods, 1 entry, 2 control messages, locks live 2 ticks, renewal after 1, claims after 1; 1 lost reply, 1 late tick, 1 pod that stops, 1 failing control read | `PodTypeOK`, `OneWorker`, `AloneInTime`, `NoGap`, `ImplementsLease`, `EntryProcessed`, `HearsOn` |
| `page` | 2 tasks and pages with and without a timer, 2 calls under way, 3 moves, 2 sign-ins that succeed and any number that do not, 1 change (a new revision, a deletion or an expired token), 1 failing call | `TypeOK`, `StaysSignedIn`, `Settles`, `Ejected` |

Why the bounds suffice: the races are between the goroutine of one task and at
most two requests (a third request meets a state that two can reach); two parts
let something happen between the parts and at the end of the loop; one failing
call is enough for each error path, and a second one only repeats it; one crash
ends everything that is running. Two task rows are needed only for the copy.
The exact values are in the `.cfg` files. `CHECK_DEADLOCK` is off where the
system really stops: when the bounds are spent and the workers are done, or
`CheckAll` has returned, there is nothing left to do. Slots are interchangeable,
so the runs without temporal properties use symmetry on them.

For policies, 7 requests are enough to deploy, change the modules, break off,
change back and deploy again, and to delete a policy, make it again and come back
to an old task; one failing call and one crash are enough because each only
leaves a prefix of a call list done, which the next deploy or delete must cope
with. The passing run has one request at a time and one namespace;
`DisabledIsIdle` and the properties about tasks hold as long as no call has
failed, and `DeployedAsConfigured` speaks of deploys that meet no Deployment still
going: they are false otherwise, and section 5 says how. All configurations of
the run enable portscan, as `EntriesSurvive` needs.

In `pods` two pods and one entry make every conflict over an entry, claims come
before a lock ends, and one late tick is enough for a lock to run out under a pod.
One listener is enough, for listeners share nothing but the stream they read; two
messages let one arrive during a call and one between two calls. The theorems of
section 6 lift all these bounds for the safety properties. In `page` two calls
under way can overtake each other, and two sign-ins let an old call meet a new
token, also without a sign-out in between, by a visit to the login page; three
moves are enough to leave a task, come to another and come back.

In `alive` two probes at a time are enough for one to hear the other's reply and
for the loop to wait for a token; four hosts make it wait more than once. The
theorems of section 6 lift this bound, and the one on `rules`.

`RunningIsDispatched` and `ControlAgrees` are stated for one request at a time,
and `ControlAgrees` as long as no call has failed and the process has not ended
between the message and the write: with two requests, the
publish and the write of one enclose those of another, and both fail. That is
how the code is, and no document claims more. For interleaved requests
`StatusAnnounced` and `RunningWasSent` remain, which an earlier message or entry
satisfies: that the task's status is that of the slower writer, and that a part
completed between its XADD and its mark (scheduler.go:303) goes back to running,
is allowed by the code and contradicts none of the properties.

Fairness. `FairSpec` of `TaskDispatch`: weak fairness of each `SubmitStep(t)`
and `RequestStep(r)`; the Go scheduler runs every ready goroutine, and each SQL
or Redis call returns or errs. Users, workers and the deadline get no fairness.
The liveness properties exempt `abandoned` tasks: after a crash or a failed last
update the code really leaves a task queued or restarting for ever. `FairSpec`
of `AliveCheck`: weak fairness of `CheckAll` and of each goroutine, whose reads
and dials have timeouts (`icmpTimeout`, `tcpTimeout`). The network and the
deadline get none. `FairPodSpec` of `ScannerPods`: time passes, and a running
pod goes on with its loop, its renewals and its control reads; a pod that stopped
need not come back (`EntryProcessed` then relies on the other one), and users owe
nothing. `Spec` of `TaskPage`: the timer runs on the pages that have one, the
server answers calls, the browser hands answers over and ends a navigation; users,
on lists and forms too, answers to a sign-in, changes and failures owe nothing.
`Ejected` therefore speaks of pages with a timer only.

## 5. Where code and documents disagree

Shown by a run:

* `final`: task.go:178 says a terminated task continues only under a new id, but
  `SubmitTask` reads the status, then `Save` (scheduler.go:257) writes `running`
  over a termination that came in between.
* `policy_moved`: after an update of the namespace, delete leaves the objects of
  the old one (policy.go:158); PolicyList.vue:102 says they are removed.
* `policy_gone`: a task is active on a deleted policy although delete promises
  409 (policy.go:174): the count and the effect are apart, as are the task's
  check and insert.

Met while modelling, present in the model's behaviour, without a run of their
own:

* a task that failed before its rows were written is completed by a restart that
  has nothing to send (task.go:266), so `CompletedHasResults` is false once
  restarts are allowed; `Save` brings back a task deleted meanwhile
  (scheduler.go:246, 257);
* for a policy without portscan the dispatch still writes `portscan_status`,
  which models.go:97 says is NULL then;
* a deploy after an update that leaves portscan out deletes the portscan stream
  with what running tasks have sent (scheduler.go:114; delete and disable look for
  active tasks, update and deploy do not), so `EntriesSurvive` is stated and proved
  for configurations that enable portscan;
* Enable writes its old copy of the row over an Update that came in while it
  deployed (policy.go:229); disable reports success when a scale call failed
  (scheduler.go:146), although PolicyList.vue:98 says all Deployments are scaled
  to 0; a failed count of the active tasks reads as zero (policy.go:348); Restart
  does not look at `enabled` (task.go:193);
* a pod that has heard no control message yet and whose read comes back empty
  reads from `$` again, so a message published between its two calls is lost
  (redisstream.go:196); `NoGap` and `HearsOn` start at the first message;
* an entry claimed while its lock is just being released is scanned a second time
  after it was acknowledged (delivery is at least once); a lost reply to SET NX
  leaves the pod locked out by itself until the lock ends; once the streams are
  deleted their locks are deleted under the pods that still scan;
* a late 401 takes the token of a user who has just signed in again, and a wrong
  password at `/login` that of a user who is signed in (http.js:22, handler/auth.go:34-41);
  a list or a form stays open on an expired token until the user acts
  (TaskList.vue:141, PolicyList.vue:106); a task that is deleted stays on the page as it was (TaskDetail.vue:237);
* a deploy updates a Deployment that is still being deleted and reports success;
  the Deployment then goes (client.go:223);
* the comment at policy.go:135 demands replicas of enabled modules, and
  policy.go:227 accepts 0; a portscan whose port entries are all blank passes
  `validatePorts` (policy.go:249);
* scheduler.go:196 keeps "only hosts that are alive", and a host that answers
  nothing passes when its socket reads the reply to another probe, of this check,
  of another task's or of another process (alive.go:65, 88-98). `AliveIsExplained`
  is what remains true: a host whose socket has read no foreign reply is alive only
  if it answers or another pinged host of the check does.

## 6. Theorems

Proved by TLAPS for every value of the constants. For `TaskDispatch`, from
`BoundsAssumption`, `PolicyAssumption`, `OpsAssumption` and `SlotsAssumption`
(finitely many requests at once):

* `TypeCorrect` (`Spec => []TypeOK`). Types alone are not inductive: that the
  loop index is a part needs `LoopBound` (between check and mark the index is
  within the plan), and that a published action is a control action needs
  `ControlShape`. `TypeInv` is the conjunction.
* `AnnouncedFirst` (`Spec => []StatusAnnounced`). Strengthening:
  `WriterAnnounced`, a request about to write has published. The argument: the
  control stream only grows (`AnnouncedStays`), only `ControlWrite` makes a task
  paused or terminated (`HaltedByControl`), and a request gets to the write only
  from the publish (`WriterStays`).
* `RunsAfterSent` (`Spec => []RunningWasSent`). Strengthening: `MarkerSent`, who
  is about to mark a part has sent it. The argument: entries are never taken
  back (`SentStays`), and a part starts to run only by a mark or a worker
  (`RanChanges`).
* `SentAfterRecorded` (`Spec => []SentIsRecorded`). Strengthening: `FreshTask`
  (until SubmitTask writes the rows, nothing is recorded, sent or listed for the
  task) and `SenderRecorded` (who is about to send a part finds its row, or the
  task is deleted). The argument: rows go only with the task (`RowChanges`), and a
  row of `tasks` comes back only by Save, which is before the first entry
  (`GoneStays`, `SubmitGoesOn`); without `FreshTask`, Save after a delete could
  revive a task whose entries are on the stream and whose rows are gone.
* `LedgerRefined` (`Spec => ImplementsLedger`). Every action is an action of
  `PartLedger` or a stutter, under the invariants of the last two theorems: Save
  and INSERT open a task with nothing sent (`LedgerOpens`), an XADD needs the row
  (`LedgerSends`), a mark needs the entry (`LedgerMarks`).
* `TransientOwned` (`[]TransientIsOwned`). Strengthening: `QueuedEarly`, a row that
  is still queued has its SubmitTask before its first write or at its last one.
  The argument: a row becomes queued or restarting only by a request that starts
  who owes the next status (`StatusChanges`), and who owes it goes away only with the
  write, an error or the process (`SubmitMoves`, `RequestMoves`).
* `CompletedIsScanned` (`[]CompletedHasResults`). Strengthening: `PlanIsUp` (a probe
  that the deadline cut short is never planned from), `RowsTogether` (rows come and go
  for all parts at once), `CompletedStored` (a completed part has its results) and
  `RestartCounted`. A task becomes completed by SubmitTask only when no host is up,
  and by the worker of its last part only when all rows are completed.
* `RunningDispatched` (`[]RunningIsDispatched`) and `ControlInAgreement`
  (`[]ControlAgrees`), both under `OneAtATime`: any two slots are the same.
  Strengthening for the first: `SentBefore` (the loop has sent what is before its
  index), `DoneDispatched` (a SubmitTask that returned has sent all, or found the
  task terminated or gone) and `TerminatedAlone` (a terminated task meets only delete
  and the copy, so it cannot run again with parts unsent); for the second
  `WriterSaidLast` (who is about to write a status has published it last).
* `SentOncePerRestart` (`[]SentOnce`), for any number of requests. Strengthening:
  `SentAndOwed`, what has been sent of a part plus what SubmitTask and each restart
  under way may still send of it is within one, the restarts and the lost replies.
  Every action moves at most one from owed to sent; the cardinality of the restarts
  that owe the part (`Owing`) is what needs `SlotsAssumption`.

For `PolicyLifecycle`, from `ModuleAssumption`, `ConfigAssumption`,
`SentinelAssumption` (the three marks of `settled` and of empty objects are no
configurations), `BoundsAssumption` and `OpsAssumption`, so for any modules,
configurations, tasks and bounds:

* `PolicyTyped` (`[]TypeOK`). Types alone are not inductive: a call goes to a known
  namespace only because the copy of the row a request works on has a valid
  configuration and its calls are among those planned for it (`RowShape`,
  `RequestShape`).
* The others have `OneAtATime` as hypothesis: with two slots TLC finds each of them
  violated, as nothing keeps two requests for one policy apart (`policy_gone` is the
  run that shows it for the first).
  - `RunsOnPolicy` (`[]ActiveTaskHasPolicy`): `GateHolds`, what the count of the
    active tasks has seen still holds when the resources go, and `RowHeld`, the row a
    request has read is still there when it writes.
  - `KeepsItsPolicy` (`[]TaskKeepsPolicy`): no row is younger than the clock
    (`ClockAhead`), and what Restart has compared stays so until it writes
    (`RestartsOwn`); a new row comes only when no task is active, by the theorem
    before.
  - `EntriesKept` (`EntriesSurvive`), also under `AllScan`: a step that takes entries
    away is a worker's, a deploy's for a module that is disabled, or a delete's, which
    has `GateHolds`.
  - `DeployLeaves` (`[]DeployedAsConfigured`): `CallsDone`, every call a request has
    made still has its effect. The argument is that no call of a request undoes
    another (`DeployKeeps`, `DeleteKeeps`, `DisableKeeps`, from what a call changes
    and leaves alone, `PerformEffect`): it does not depend on the order of the calls.
    `NoneLeaving` is what keeps a Deployment the deploy updates; `Unsettled` that a
    request which touches resources ends what was said of the last one.
  - `DisableLeaves` (`[]DisabledIsIdle`) and `DeleteLeaves` (`[]DeletedIsClean`), from
    the same, also under `SameNamespace` (`policy_moved` shows that it is needed).

For `PolicyRules`, from `NaNAssumption` and `InputAssumption` (requests carry
policies), so for every policy:

* `RulesTyped` (`TypeOK`), `RulesStable` (`SavedIsStable`), `RulesUsable`
  (`RuntimeUsable`), `RulesConnected` (`PodsAreConnected`). The argument: what is
  stored is always `Completed(p)` of an accepted `p`; validating that once more
  changes nothing (`ValidatedOnce`), its interval fits (`RenewFits`, the only
  arithmetic: half of a life of at least 2 is positive and smaller), and an
  accepted choice of modules is closed under `Needs`, so the edges of the
  workflow are between enabled modules (`WorkflowConnects`).

For `AliveCheck`, from `NAssumption` and `AddrAssumption`, so for any number of
hosts, any concurrency, and any ICMP traffic of other tasks and processes:

* `Types` (`TypeOK`, with the bounds of the WaitGroup and the semaphore),
  `CompleteResult` (`ReturnsComplete`), `FewSockets` (`SocketsBounded`),
  `ReachableIsFound` (`ConnectsIsFound`), `AliveHasReason` (`AliveIsExplained`).
  The invariant `Inv` says that tokens and counts are numbers of goroutines
  (`Counts`: cardinalities of sets a goroutine joins and leaves), that a
  goroutine has reported exactly when it is on its way out (`Reported`), that a
  probe has been refused at every address before its own (`Places`), that only a
  reading goroutine has a socket (`Sockets`), and that a reply, unless the socket
  has overheard a foreign one, has a pinged host of this check behind it (`Echoes`). When `wg` is 0 the set of unfinished goroutines is empty,
  which gives the complete result.

For `StreamLock`, from `WorkerAssumption`, `TimeAssumption` and
`BoundsAssumption`, so for any number of pods and entries, any idle time and any
lock life longer than the renewal interval:

* `LockTyped` (`TypeOK`), `OneHolder` (`OneWorker`), `InTimeAlone`
  (`AloneInTime`), `LeaseRefined` (`Spec => ImplementsLease`). The invariant says
  that as long as the stream is there, a pod that scans an entry and has renewed
  within the life of a lock holds the entry's lock, with at least as much life as
  by its own count. Two such pods would hold one lock. Claims, lost replies and
  restarts cannot break it, because only `Acquire` takes a lock and only the
  holder gives it back; the assumption that renewal comes before the end of a lock
  gives `AloneInTime`.

For `ScannerPods`, from these and `ListenerAssumption`:

* `PodsWork` (`PodSpec => Spec`: the composed system is a `StreamLock`), from
  which `PodsOneHolder`, `PodsInTimeAlone` and `PodsLeases` follow; `PodsGapless`
  (`NoGap`) and `PodsTyped` (`PodTypeOK`), with the invariant that what a pod got
  ends at the id it keeps and that its call never starts elsewhere once it has one.

For `TaskPage`, from `RouteAssumption`, `AnswerAssumption` and `BoundsAssumption`
(the three other pages are no tasks, the answers without data are no revisions, the
bounds are numbers):

* `PageTyped` (`[]TypeOK`), with `CallsForTasks` (the calls of a refresh are for a
  task) and `Counted` (revisions and tokens are within what was counted).
* `SignedInStays` (`[]StaysSignedIn`), for any number of calls, moves and sign-ins
  over a stored token. Strengthening: `SignedIn`, which says of every call under way
  that it carries a token got since the user signed in with no call under way
  (`Bearing`), so that as long as none of these expires no answer is a 401, however
  late it is and whichever of them is stored meanwhile. `CallChanges` says how calls
  may change in a step, `TokenChanges` that only a sign-in, a sign-out, a wrong
  password and a 401 change the token. With a call under way the sign-in does not
  start such a time: the answer to an older token may end it (section 5).

Only model-checked: the liveness properties `QueuedIsLeft`, `RestartingIsLeft`,
`CheckReturns`, `EntryProcessed`, `HearsOn`, `Settles` and `Ejected` (fairness and
ENABLED are beyond the prover), and the three properties the code violates. All other
properties of the runs are theorems. The inductive invariants of `TaskDispatch`,
`PolicyLifecycle` and `TaskPage` are in `TaskProperties`, `PolicyProperties` and
`TaskPage`, where TLC can check them on the instances of section 4, as was done
before they were proved; those of the other modules are in their proof modules.

## 7. Not modelled

The components of section 1 that `PROJECT.json` lists as `not_modelled`, each
with its reason there. Hazards without a property yet are listed with the
reason.
