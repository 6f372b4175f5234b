# Verification of the programmable caching system

This directory models the storage service and the scheduler of the repository in
TLA+, checks them with TLC on small instances, and proves with TLAPS, for every
instance, the safety properties of the master, of the composed service and of
the scheduler, and that the service implements an atomic file store and the
master's own specification.
`PROJECT.json` is the machine-readable index: runs, mutants, the map from
definitions to source lines, hazards and theorems.

Paths below are relative to the repository's root.

## The system

Storage **managers** put a key-value medium (RocksDB, Redis) behind RPCs.  One
storage **master** knows who is there and which manager holds which file.
Storage **clients** serve the applications' Get and Put by carrying out
**rules**: sequences of actions (copy, remove, put, get) at named managers.
Rules come from a **scheduler**, through the master, which fills in the
managers' addresses.  The scheduler decides which **execution engine** runs
which task and installs the rules for the task's input and output.

| component | state | operations | interacts with |
|---|---|---|---|
| `StorageMaster` (`src/storage_service/storage_master`) | `PeerTracker`: name and connection to peer, under `tracker_mutex`; `StorageFileView`: manager to files, under `view_mutex` | Introduce, Heartbeat, StorageChange, InstallRule, RemoveRule, GetView | called by managers, clients, scheduler; calls clients |
| `StorageManager` (`storage_manager`) | the medium; its name | Start, Stop, Get, Put, Remove, CopyFrom | introduces itself to the master; CopyFrom calls another manager |
| media (`storage_interfaces`) | key to value, on disk or in Redis | Get, Put, Remove, GetAllKeys | behind a manager |
| `StorageClient` (`storage_client`) | `RuleDb`, under `db_mutex_` | Start, Stop, Get, Put, Remove (empty), InstallRule, RemoveRule | called by applications and the master; calls managers and the master |
| RPC interfaces (`rpc_interfaces`) | a channel | one function per RPC; calls to managers wait for the server, the others fail when it is not there | |
| `ServerlessSystemView` (`src/scheduler/scheduler`) | engines and their state, host to engine, manager to keys, persistent key to manager, under `system_mutex` but for one query | AddExecutionEngine, ParseGetViewReply, TasksScheduled, queries | written by the scheduler's handlers and control thread |
| `Scheduler` (`src/scheduler/scheduler`) | `running_`, under `scheduler_mutex_`; the two views | Start, Stop, SubmitJob, Done, Introduce, the control thread with Schedule and Execute | calls master and engines |
| `JobView` | none yet | empty functions | |
| `ExecutionEngine` | none yet | Execute (empty) | |

### What is hard about it

gRPC runs every handler on a thread of its own, and no handler holds a lock
across two operations.  A client's call is a distributed transaction without
one: several RPCs to managers, then one report to the master.  So the hard
behaviours are the interleavings of handlers inside the master, of calls of one
or several clients, of rules being installed under running calls; crashes of
managers between the RPCs of a call, and of the master between a rule and the
report made under it; RPC failures, whose status is ignored almost everywhere;
and exceptions and asserts, which end a process or a call half-way.  The list of
hazards, each with its line and the properties that watch it, is in
`PROJECT.json`.

What makes each part correct:

* master: a name in the view can be looked up; the address next to a name is
  one the peer of that name gave; the tracker's map has one user at a time;
* manager: a copy holds the file's content, a file somewhere is never lost;
* client: carries out the rule it found, at the managers it names, reports what
  it did, does not fail an assert, and every call returns;
* the service: the view agrees with the media, and for rules that only put and
  get, a Put or Get is atomic;
* system view: an engine that can be scheduled has its client and its ephemeral
  manager on its own host, in whatever order introductions and views came, and
  no view takes that away again;
* scheduler: decisions name the engine they were made for; the control thread
  ends before Stop returns, Stop returns, and the process does not end.

## Modules

| module | models | extends |
|---|---|---|
| `Protocol` | the messages, and how names and addresses come from an introduction | |
| `StorageMaster` | the master | `Protocol` |
| `StorageManager` | managers and media | `Protocol` |
| `StorageClient` | `RuleDb` and the client's handlers | `StorageMaster`, `StorageManager` |
| `StorageService` | the composition: starts, crashes, operators, calls | `StorageClient` |
| `FileStore` | what the service promises: an atomic Put and Get | |
| `ServerlessSystemView` | the scheduler's view of engines and storage | `Protocol` |
| `Scheduler` | Start, Stop, Introduce and the control thread | `ServerlessSystemView` |
| `ProtocolProofs` | lemmas about maps and names | `Protocol`, `TLAPS` |
| `StorageMasterProofs` | theorems about `MasterSpec` | `StorageMaster`, `ProtocolProofs` |
| `StorageServiceProofs` | theorems about `ServiceSpec` | `StorageService`, `StorageMasterProofs` |
| `FileStoreProofs` | `ServiceSpec` implements `FileStore` | `StorageServiceProofs` |
| `ServiceThreadProofs` | `ServiceSpec` implements `MasterSpec` | `StorageServiceProofs` |
| `ServiceViewProofs` | clients keep running; view and media agree | `ServiceThreadProofs` |
| `ServiceMoveProofs` | files that are moved are read and survive; the views under rules that move them | `ServiceViewProofs` |
| `SchedulerProofs` | theorems about `SchedulerSpec` | `Scheduler`, `ProtocolProofs` |
| `MCStorageMaster`, `MCStorageService`, `MCScheduler` | instances and scenarios for TLC | |

**Data.** A peer is the introduction it made: the code's name is `GenerateName`
of it, its address `Uri` of it; both leave parts of the introduction out, which
is how two peers get one name.  Keys and values are members of small sets; `""`
is the value a reply starts with.  A rule is the sequence of its actions with
the managers' names; the addresses the master fills in are a map from the
rule's *slots* (the j-th manager of action i) to addresses, so that a half
filled rule is a state.

**The master.** A handler is a thread in `handler`; its record holds the local
variables.  One action is one critical section (`AddPeer` is split at the
acquisition of the mutex, because the unlocked lookups of `GetPeerFromName` can
hit in the middle), one unlocked lookup (`FindClient`, and `FillInRule` once per
slot), or one RPC (`Forward`).  A lookup during `AddPeer` may see the old peer,
the new one or none, or crash: the code has a data race there, and the model
takes every outcome.  `.at()` on a missing name throws; whether gRPC turns that
into the status UNKNOWN or the process ends depends on its build, so `Throw`
does either.  `Terminate` is the death of the process at any step, by an
exception or because it is killed; the graceful `Stop` is not modelled.

**Managers.** `store` is the medium and survives the process.  It is RocksDB,
which is safe for concurrent use, so Put, Get and Remove are one step each;
`CopyFrom` is two, the nested Get at the source and the local Put, and anything
can happen between them.  What a manager has still to do for a thread is `work`:
the second half of a CopyFrom, or all of an RPC whose client has died
(`FetchWork`, `WriteWork`, `RemoveWork`).  Managers answer OK whatever the medium
said, so there is no status in the model; `Faulty` managers may drop a write.

**Clients.** `call` is the progress of the handler that serves a call: the
lookup of the rule (two critical sections), an index into its actions, the
change to be reported, the report, and the last action of a Get.  An assert that
fails is `Abort`: the process ends and its calls fail.  Each call may have sent the
RPC of its current action by then (`Sent`), and the manager executes that later, at
any time, unless it dies first (`FinishWrite`, `BelatedWork`).  While the client lives
it waits for the answer, and a Put or Remove is one step, the one in which the medium
changes.  The fall-through of Put's remove case is the state "fallthrough".

**The service.** Every process starts (introduction, then serving).  The
managers and clients in `Crashing` are killed at any step, inside their Start too,
at most `MaxCrashes` times in all.  When a manager dies the calls it serves fail
(`CrashManager`), and clients go on as the code does: the status is not looked at.
When a client dies its rules are gone, its calls fail, what they have done is not
reported, and what they have sent goes on (`CrashClient`).  A process that dies inside
its Start leaves a handler to the master (`LeaveIntroduction`): the master goes on with
it under a thread of its own, one of `Abandoned`, while the process may start
and introduce itself again.  `Operate` is the scheduler's side: it asks the master to
install or remove a rule when all servers run; so is `Look`, which asks for the view,
once for each of `Viewers`.  Applications call only for keys with a rule, as the
handlers' comments demand.

**The system view.** An engine is its uri, and `NoName` is the empty string.  Each
public function of `ServerlessSystemView` that is modelled takes `system_mutex` and is
one step.  `GetEphemeralStorageView` does not take it, so it may see the maps half
written; nothing calls it, and it is left out (see `hazards`).
`operator[]` makes what it does not find, and the model does so too: a host that a
view shows before its engine has introduced itself is mapped to the nameless
engine, and the first lost decision makes a state for it.  Where a reply has
several peers for one engine, or several managers for one key, the code keeps the
last of the reply, and the master's maps have no order; the model keeps any.

**The scheduler.** `control` is the place of the control thread in its loop, with
its local variables, `lifecycle` that of the owner, who calls Start and Stop in
turn.  Each place is a lock or a call, and Introduce may run between any two.
`.at()` on a missing name throws, and so does the model (`Throw`): nobody catches
it, and the process ends.  Two things the code calls are not there yet and are
inputs of the model: the answers of `JobView` (`Pending`, `Tasks`) and the caller
of `ParseGetViewReply` (`Refreshes`).  The repository as it is has `Pending = {0}`
and `Refreshes = {}`, which is the instance of `SchedulerView`; the other two
instances run the loop's remaining code.

**Refinements.** `ServiceSpec` implements `FileStore` (`ActsAsFileStore`: the
content of a file is what the manager `Home` holds, a Put has happened once its
action at `Home` is done, and a Put whose client died after it was sent to `Home` is
*unresolved* until `Home` does it); `HomeAssumption` says for which rules.  A configuration
that does not claim this has no `Home`.  `ServiceSpec` also implements
`MasterSpec`: the environment that closes the master's module sends everything the
modelled clients, managers, operators and viewers send.  A report is then any of the
`Selections` of a rule: its first k actions, in their order, without those that
have no type, which a client skips.  `Addressees` are the names the environment
sends rules to.

## Runs

All passing runs finish in under four minutes with two workers.

| run | expect | question | bounds |
|---|---|---|---|
| `MasterRestart` | pass | does the master's state stay consistent, whatever its handlers' interleaving? | 2 threads, 3 managers (two of one name), 1 client, 1 restart, 1 forwarded rule |
| `MasterRace` | violation | is `PeerTracker` thread safe? | 2 threads |
| `ServiceMove` | pass | does the view agree with the media, under rules that put, move, and are rejected? | 5 rules installed in any order, 2 calls, one at a time |
| `ServiceMoveRaces` | pass | do concurrent Puts and a moving Get lose the file or fail, and is a view that is asked for meanwhile answered? | 2 Puts and a Get at a time, 1 request for the view |
| `ServiceCrash` | pass | what survives a manager's crash, inside its Start too, and a medium that refuses writes; and is the master the one on its own? | 1 crash, 2 calls at a time of 3 |
| `ServiceRestart` | pass | is the service an atomic file store for put/get rules, and does each call route as its rule says, through a restart of the master and the death of a client with calls on their way? | 1 client that puts and 1 that gets, 1 restart, 1 crash, 2 requests, 2 calls at a time of 3 |
| `ServiceLive` | pass | does every call return, though a rule is removed, a Put is rejected half-way and the manager that copies or the client is killed? | 1 crash, 3 requests, 2 calls |
| `SchedulerLoop` | pass | are the engines that are scheduled complete, and does the thread survive and end? | 3 engines (two of one host), 3 views, 0 or 2 tasks at a time, 2 in all |
| `ServiceCopyView` | violation | does the view show a file that was copied where it still is? | 1 call |
| `ServiceClearingPut` | violation | does a Put carry out a remove action? | 1 call |
| `SchedulerView` | violation | does an engine become schedulable once its client and manager are in the master's view? | the repository as it is, 1 engine |
| `SchedulerDecisions` | violation | do decisions name their engine? | 1 engine, 2 tasks |

Why these bounds: the handlers of the master interact pairwise, through one map
entry and one mutex, and its invariants are proved for every bound.  The races
of the service need two calls on one key at two managers, and every run has
them; one restart or crash reaches each of the states in which a process is
missing or has forgotten, a second one only repeats it.  `MaxForwards` bounds
the history of rules and `MaxAtOnce` the calls in progress.  `MaxScheduled` bounds
the decisions that are counted; two are more than the small engines can take and
as many as the larger one can.  An engine on a second port of its host is what
makes an introduction overwrite a host's entry, a view before the introductions is
what makes the nameless engine.  `MasterRestart`
uses symmetry in the threads, which no property tells apart; liveness runs use
none.  The service's runs do not check for deadlock: their calls are finite and
the system stops when they are done; so does the scheduler when its process has
ended.

### What the runs show of the properties

* `OrphansComeFromOldRules`, `GetViewAnswers`: the file view and the peer map
  are locked separately and GetView reads one after the other.  It is still safe
  until the master restarts; then a client that reports under an old rule
  creates a view without a peer, and GetView throws.
* `RoutesAreTrue`, `ClientsRouteTrue`: an address is one that a peer of the name
  introduced itself with at some time, not necessarily the present one.  The
  latter also speaks of rules that were removed or replaced while a call is still
  carrying them out.
* `ViewsMissNothing`, `ViewsShowOnlyFiles`: each excludes files that a call in
  progress is changing. The former also excludes a manager whose view a
  `LeftIntroduction` has cleared: a manager that dies inside its Start and starts
  again is introduced twice, and when the master gets to `AddManager` of the first
  introduction last, what was reported since is gone from the view for good. The
  code has no remedy for that but another start of the manager. With moving rules
  they are checked, and proved, for one call at a time: managers and master see
  two overlapping calls in different orders, and the view stays wrong.
  `ViewsShowOnlyFiles` is not claimed with crashes of managers or refusing media,
  since clients report actions that failed. It is checked with clients that die;
  `ViewsMissNothing` is not, as such a client has put a file and told nobody.
* `GetsReturnTheFile` is checked for one Get.  A second Get under a rule that
  moves the file copies it from where it no longer is, and stores the empty
  value over it.
* `ClientsKeepRunning` is checked, and proved, while rules are installed and none is
  removed, and with a master that stays up (`MaxRestarts = 0`): a client ends when a
  rule it has looked up is gone, and when its report finds no master, so a master that
  dies in the race of Introduce and InstallRule takes the clients with it.  Calls in
  `ServiceRestart` and `ServiceLive` meet that.
* `ActsAsFileStore` is claimed for rules that put at `Home` and get from there.  It
  says of a client that dies that its Puts fail and that each may still be written
  once, at any later time.
  A copy is a read and a later write, and can undo a Put in between.  Copies
  between other managers, crashes of everybody but `Home`, and restarts of the
  master do not disturb it.
* `CallsReturn` needs somebody to start crashed managers again, see below.  It does
  not say with what a call returns: clients do not look at the status of their RPCs.
* `SchedulableEnginesAreComplete`: the nameless engine collects the clients and
  managers of hosts without an engine, and is never scheduled; an engine that
  comes back on another port takes its host over and the old one keeps its names,
  which are still of its host.
* `SchedulableEnginesStay`: only an engine's own introduction or its own tasks make
  it unschedulable.  Decisions are counted for the nameless engine, so today no
  engine ever fills up.
* `KeepsRunning`: Execute looks up the engine of a decision with `at()`, and Schedule
  leaves that engine empty.  The process survives because `TasksScheduled` comes in
  between and makes a state for it with `operator[]`.  What does end the process is a
  file that no view has shown at a persistent manager.
* `ThreadEndsBeforeStop`, `StopReturns`: Stop joins a thread that may be at any place
  of its loop, also half-way through its decisions.

### Fairness

`LiveServiceSpec` assumes weak fairness of every handler's and call's next step
(threads of a running process are scheduled) and of `StartStep`: a process that
is to run is started and gets through its Start.  For a crashed manager this is
the operator's part, not the code's: without it, a call waits for ever, because
calls to managers wait for their server without a deadline.  No fairness is
assumed of applications, operators, crashes or the master's restart.

`LiveSchedulerSpec` assumes weak fairness of the control thread, whose calls to
master, client and engine return or fail because they do not wait for a server,
and of the owner once it is inside Start or Stop.  Nobody has to call these,
introduce an engine or parse a view.

### Findings

`MasterRace`, `ServiceCopyView`, `ServiceClearingPut`, `SchedulerView` and
`SchedulerDecisions` each show the code at odds with one of its own comments or
messages; see `findings` in `PROJECT.json`.

## Proofs

Every theorem holds for any sets of introductions, names, keys, rules, calls,
engines, views and tasks and for any bounds, from named assumptions on the constants
that TLC evaluates on the instances.

**The master** (`StorageMasterProofs`): `MasterSpec => []MasterInv`, and from it
`MasterTypeOK`, `OrphansComeFromOldRules`, `GetViewAnswers` and `RoutesAreTrue`,
from `NamesAssumption` (names of introductions are names), `RulesAssumption`
(rules are sequences of actions over those names) and `MasterAssumption` (no
thread is the value for a free mutex, bounds are naturals).

The three safety invariants are not inductive: whether a viewed name is known
depends on the change a handler is about to apply, which depends on the rule its
client was sent, which depends on the lookups of the handler that filled it in.
`MasterInv` carries that chain.  A name is *vouched for* when the running master
knows it, or is inside `AddPeer` for it, or when a rule of an earlier master has
it.  The invariant says that every name in the view, in a change being applied,
and in a view being populated is vouched for (`HandlerInv`), that the names of a
rule are known from the lookup on (`HandlerInv`, `ForwardedInv`), and that what
is looked up for a name has that name.  Two facts make it inductive: names are
never forgotten while the process lives (`Known` only grows), and when it ends
every forwarded rule becomes one of an earlier master.  `GetViewAnswers` follows
because without a restart there are no earlier rules, and because GetView takes
the mutex, so nobody is inside `AddPeer`.  The module has one lemma per group of
handlers, a lemma for the frame (steps that change only one handler and no map),
and one for `Terminate`.
TLC checks `MasterInv` in `ServiceRestart`.

**The service** (`StorageServiceProofs`): `ServiceSpec => []ServiceInv`, and from it
`ServiceTypeOK`, `ClientsRouteTrue`, and the master's `MasterInv`,
`OrphansComeFromOldRules`, `GetViewAnswers` and `RoutesAreTrue` with the modelled
managers, clients, operators and viewers as callers instead of the environment of
`MasterSpec`.  The missing link is why a report is vouched for.  `ClientInv` says
that every rule at a client, and every rule a call still carries out, is one that
some master filled in and forwarded (`Installed`), and that what a call is going to
report mentions only names of its rule (`CallInv`); forwarded rules are never
forgotten, so `MasterInv` has the names.  The proof reuses the master's lemmas for
handler steps and adds one per step of a call, a start and a crash.  It assumes
also `ManagerAssumption`, `ClientAssumption` and `ServiceAssumption`, which say what
the inputs are.

**The file store** (`FileStoreProofs`): `ServiceSpec => ActsAsFileStore` if `Home` is a
manager. The refinement mapping is `HomeFile`, the files at `Home`, and `HomeProgress`,
how far each call is; there is a lemma per group of steps that says which step of
`FileStore` it is. `HomeAssumption` is what the service needs for it: `Home`'s process
and medium do not fail (a write that is lost, or a call that fails at `Home`, is
answered with OK), nobody shares its name or address, a rule for Put has exactly one
action there, the put, and rules for Get end with a get there. `HomeInv` adds to
`ServiceInv` that a call carries out a rule for its own operation, has been through all
its actions when it reports them, and that all that `Home` has still to do is Puts that
have failed; `ClientsRouteTrue` is what turns the name in a rule into the manager that
is called.

**The scheduler** (`SchedulerProofs`): `SchedulerSpec => []SchedulerInv`, and from it
`SchedulerTypeOK`, `SchedulableEnginesAreComplete`, `ThreadEndsBeforeStop`,
`SchedulableEnginesStay` and `KeepsRunning`, from `EnginesAssumption`,
`RepliesAssumption` (a reply shows a name once) and `SchedulerAssumption`.  The
first safety property is not inductive, as it says nothing of engines that lack
one of the two names, of the nameless engine, and of the map from hosts:
`ViewInv` says that a host is mapped to the nameless engine or to one of that
host that has a state, and that a known name of an engine is of its own host.
`KeepsRunning` needs `ControlInv`: what the control thread goes through has a state,
because no engine is ever removed, and the nameless engine has one once a decision
was counted.

**Threads and the master's specification** (`ServiceThreadProofs`): `ServiceSpec =>
MasterSpec`, with no hypothesis on rules, calls or failures.  What a request may
contain is decided long before it is sent, so the proof needs what every thread is
doing: `ThreadsInv` says which request the handler of a server, an operator, a viewer,
a call or a process that was killed is serving, that a server has a handler under its
own thread only inside its Start (`PeersIntroduce`), that a call is in progress only
while its client serves (`CallersServe`), that a rule is filed under its own operation
and key, and that what a call has collected for its report is one of the `Selections`
of its rule up to the action it has reached (`Follows`).  A handler does not end with
its caller: that of a call goes on when the client dies, and that of a server is then
one of `Abandoned`.  Each step of the service is then a
step of the master's environment, a step of the master, or leaves its variables
alone.

**Clients keep running** (`ServiceViewProofs`): `RunningInv` says that the master is up,
that a call that asks for its rule has one, that no Put has fallen through its remove
case, and that the report of a call is answered with OK. The hypothesis is
`RulesAccepted`: the switches and asserts of Get and Put let every rule through, no rule
is removed, and only managers end. Managers may crash and media may refuse writes.

**View and media** (`ServiceViewProofs`): both inclusions are proved for rules that
put files in place (`RulesPlace`), with any number of calls at once.  Neither is
inductive: the view lags behind the media through a report in flight, and an
introduction reads the medium once and fills the view key by key.  `FilesShownInv`,
for `ViewsMissNothing`, says that a file a manager holds is in the view, or still in
the introduction's set, or in a report under way, or put by a call that has yet to
report, or that the manager's view was cleared by an introduction that a killed process
left behind; it needs `RulesAccepted`, since a client that dies reports nothing.
`ShownFilesInv`, for `ViewsShowOnlyFiles`, says that what is shown, introduced or
reported is in the medium, and that all that dead clients have left to do are Puts
(`PlacedWork`); it needs `ManagersKeepFiles`, as a report does not say that an action
failed, and allows clients to die and the master to restart.

**Files that move** (`ServiceMoveProofs`): `GetsReturnTheFile` and `FilesSurvive` are
proved for rules of the form copy, remove, get, under which each file is moved at
most once, with any number of Puts at the same time (`FilesMoveOnce`).  `FilesMoveInv`
says where the content of a file is at each place of the Get that moves it: at its
source until the copy is stored, with the copy in the call's hands in between, at the
target from then on, where a Put can only replace it with another content.  `LateInv`
says the same of what a client that died has sent and a manager has still to do: what
is fetched is where it is fetched from, and what is removed another manager has.

**View and media, one call at a time** (`ServiceMoveProofs`): both inclusions again, for
rules that also copy and remove, under the hypothesis `OneCallAtATime`: what a rule
copies it removes next from where it was, an action that a switch or assert rejects
comes before anything is changed, one call is in progress at a time, and no process ends
and no medium refuses a write.  The views rely on each part: `ServiceCopyView` is what
happens without the first; a call that is rejected half-way, or whose client ends,
reports nothing; overlapping calls may be reported in another order than they were
served; and a report does not say that an action failed.

`AgreeInv` says that while no call has anything to report the view is exactly what the
running managers hold, and that otherwise `WillShow` is: what the view will be when the
rest of the change has been applied, in its order, which `Matches` says of each place of
the call and of the handler for its report.  A change that ends with a copy already says
that the file has left its source, where it is until the call's next action; this file
is excepted (`Leaves`).  `Introduced` says that an introduction carries exactly the
manager's files, which nobody changes before all managers serve (`ServingInv`).

The hypotheses of these theorems are definitions of `StorageService`.  The
assumption `SetUps` of `MCStorageService` has TLC check that each is true in the runs
that check the same property, so none is empty.

**Model-checked only**: `CallsReturn` and `StopReturns`, since the prover does not handle
fairness.  What is violated needs no proof.

## Not modelled, and the plan

1. Stop of the storage servers, which waits for the handlers in progress.
2. In the composed service, a manager that comes back on another port over the same
   medium (the master's module has it).
3. `JobView`, `ExecutionEngine` and their RPC interfaces once their functions have
   bodies: today they change nothing, and the scheduler's model takes their answers
   as inputs.  That a task which did not start is tried again cannot be said before
   that.
4. Managers on Redis, which no program of the repository runs: their handlers share one
   `redisContext` without a lock, so that any of its operations may be garbled, and a
   Get answers OK and never the file.  Both are in `hazards`.
5. `GetEphemeralStorageView`, which nothing calls: it reads the view without its lock.
6. A rule that a dying master has sent and a client receives only after that: in the
   model the rule arrives before the master dies, or never.

Left out for good: gRPC's channels and serialisation, flag parsing, logging, the
build, vendored headers; `Heartbeat`, `StorageClient::Remove`, `SubmitJob`, `Done` and
`ExecutionEngine::Execute`, which change nothing; iterator errors of
`GetAllKeys`.
