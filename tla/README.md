# TLA+ verification of Agents Projects Hub

The Hub connects Telegram forum topics to coding agents.  A message of a topic
becomes a *provider job* in a SQLite table; worker processes lease jobs, call a
provider (the Codex app-server, Claude, Hermes and other command line agents)
and save the result; sender processes deliver it to Telegram.  Everything that
must survive a crash is in the database and every state change is one immediate
SQLite transaction.  What happens between two transactions (a provider call, a
network send, a crash, an expiring lease, an owner's command) is where the
program is hard to test, and that is what these modules model.  Paths are
relative to `src/src/hermes_codex_router/` unless they start with `docs/` or
`tests/`, which are relative to `src/`.

## Files

| File | What it is |
|---|---|
| `ProviderQueue.tla`, `MCProviderQueue.tla`, `MCQueue_*.cfg` | the job queue, its workers, steering, stops, holds, writer transfer; its three runs |
| `ProviderQueue_proofs.tla`, `ProviderQueueRoots_proofs.tla` | theorems about the queue |
| `OrderedDelivery.tla`, `Outbox.tla`, `MCOutbox.tla` | what delivery promises a reader (abstract), delivery of final messages, its topics and symmetry |
| `Outbox_proofs.tla` | theorems about delivery, and that it implements `OrderedDelivery` |
| `Ingress`, `IngressEvidence`, `Materials`, `OwnerRetry`, `FairShare`; `MCMessages` | the way of an owner's message into the queue and, with `MCOutbox`, of the answer out of it; one run |
| `TurnControl`, `TurnActivity`, `CodexClient`, `BoundedInbox`, `StdioTransport`, `WebSocketTransport`, `ClaudePermissions`, `ClaudeProcess`, `CliProcess`, `ClaudeCorrections`; `Turns`, `MCTurns` | running, observing, interrupting and correcting a turn; one run |
| `Onboarding`, `ProjectEditing`, `SessionConnect`, `WorkerDrain`, `Maintenance`; `MCHub` | the hub's own procedures; one run |
| `Hub_proofs.tla`, `Onboarding_proofs.tla`, `Editing_proofs.tla` | theorems about those procedures |
| `Turns_proofs.tla`, `Corrections_proofs.tla` | theorems about interrupts, the transports of the Codex client and corrections |
| `TaskNotices`, `ProgressDelivery`, `IncidentMonitor`, `IncidentNotices`, `RuntimeHealth`; `MCWatch` | what the owner is told; one run |
| `MCPromises` | liveness of eleven components under the fairness of their loops; one run |
| `MCSessionConnect`, `MCConnect_wedge.cfg`; `MCClaudeCorrections`, `MCCorrections_saved.cfg`; `MCCli_late.cfg` (of `CliProcess`); `MCEdits_work.cfg` (of `ProjectEditing`) | four runs that show a disagreement between the code and what is said of it |
| `PROJECT.json` | components, runs, mutants, source map, hazards, findings, theorems |

## Inventory

| Part | State | Operations | What is hard | What makes it correct |
|---|---|---|---|---|
| Job queue (`state_provider_jobs.py`, `provider_admission_state.py`) | `provider_jobs`: status, lease, attempts, due time | admit, lease, start, heartbeat, retry, release, cancel, recover, complete | leases that expire under a live worker; order per topic; one turn per root | input given to a provider at most once; root exclusion; topic order; nothing stranded |
| Shares of the agents (`provider_queue_capacity.py`) | capacities, idle heartbeats, grant sequence | declare, heartbeat, grant | every worker decides for itself from what others published | bounded overtaking; no grant beyond the least limit |
| Worker (`external_worker.py`, `worker_execution.py`, `execution_journal.py`) | the job and token it believes it owns; the journal | recover, claim, lease, start, call, journal, commit, terminate | crash between any two steps; an old token used late | stale tokens change nothing; a started job is never silently run again |
| Steering (`codex_live_control.py`) | one follow-up per running turn | lease, start, invoke, settle | a second thread that can outlive its turn | the follow-up is sent once, or requeued only when provably refused |
| Emergency stop (`state_stop.py`, `stop_coverage.py`) | `provider_stop_requests` | request, cover, complete | many transactions end covered work | pending exactly while covered work is; covered work neither starts nor publishes |
| Root blockers, holds (`root_blockers.py`) | `provider_job_holds`, notices | hold, materialise, decide | an uncertain turn may still run in a root | nothing starts on a root that is not free |
| Sessions and writer mode (`state_sessions.py`) | writer mode, generation | take, return local writing | several topics share a root | no Telegram turn beside a local writer |
| Observation, continuation (`turn_observation.py`, `turn_continuation_state.py`) | terminal evidence | observe, replace the notice, continue | late truth about an old turn | a stopped turn stays unpublished; a message in doubt is not replaced |
| Final delivery (`state_delivery.py`, `delivery_receipts.py`, `final_delivery.py`, `outbox_sender.py`) | `telegram_outbox`, parts, send attempts, receipts | publish, lease, fence, send, record, settle, retry, recover | lost replies and acknowledgements, expired sender leases | each part visible once and in order; delivered means shown |
| Delivery holds (`delivery_hold_state.py`, `delivery_control_state.py`) | immutable dispositions | preview, release, reconcile | a receipt that arrives with the decision | a disposition is final |
| Progress delivery (`state_delivery.py`, `outbox_sender.py`) | progress rows | enqueue, lease, send, supersede | overlap with the final message | stale progress never follows the final message |
| Telegram ingress (`service.py`, `state.py`, `telegram_ingress_ledger.py`) | offset, update ledger, batch, watermarks, episodes | poll, record, admit, append, assess | restart between record and admission, two pollers, clocks | admitted at most once, none lost; an outage is noticed and ends only when over |
| Incoming materials (`incoming_materials.py`, `state_incoming_materials.py`) | spool files and rows | download, admit, verify, consume, clean | files and rows change in different steps | a result accounts for every file |
| Owner's retries (`preexecution_retry_state.py`, `controller_retry.py`) | tickets | issue, consume, recheck | double replies, workers that die around the ticket | a request is submitted once |
| Codex turn controls (`codex_turn_controls.py`, `codex_control_recovery.py`) | control intents, fences | request, fence, send, settle, read | three senders, lost replies, a control racing the end of the turn | one interrupt, of the right turn, with a true outcome |
| Turn activity, approvals (`worker_activity.py`, `task_activity.py`, `preacceptance_approvals.py`) | activity rows, epoch, buffers | receive, bind, announce | requests before acceptance | a waiting request is known, an answered one is not announced |
| Codex client, transports (`codex_appserver.py`, `codex_transports.py`, `codex_inbox.py`) | buffers, threads, tasks | request, wait, send, close | answers in any order, blocked pipes, lost wake-ups | a result is whole and of its turn; nothing is lost or reordered |
| Claude and CLI processes (`external_runtime.py`) | a process group per turn | start, drain, stop, reap | recycled pids, late monitors | a stop hits its own turn and is proven |
| Claude permissions (`claude_permission_host.py`, `claude_permissions_journal.py`) | requests, decisions, session mode | ask, decide, commit, expire | answers after a stop | nothing runs without the owner's consent |
| Claude corrections (`claude_corrections.py`, `claude_correction_state.py`) | reservation, receipt, saved result | reserve, write, receive, settle, recover | two jobs in one process | the text is given once; the pair ends together |
| Onboarding (`project_onboarding.py`, `project_provisioner.py`) | workflow stages, leases | confirm, claim, create, bind, reconcile | Telegram acts after its caller gave up | one group per workflow, none forgotten |
| Project editing (`project_editing.py`) | registry file and rows | confirm, apply, recover, cancel | two stores without a common transaction, two services that recover | the rows follow the file, the file moves only idle projects |
| Session connect (`session_connect.py`, `session_adoption_state.py`) | flow, marker, boundary | search, recheck, mark, attach | marker sent but not known | attached once, old session retired |
| Drain (`worker_activity_barrier.py`, `worker_control_socket.py`, `external_worker.py`) | barrier, threads, sockets | enter, leave, drain, observe, close | enter against drain, lost replies, restarts | told "drained" means drained |
| Maintenance window (`maintenance_window.py`) | units and results | stop, run, restore | any callback fails or is interrupted | consumers before admission, once |
| Task notices (`queue_visibility.py`, `task_lifecycle.py`, `task_notice_sender.py`) | notice rows | prepare, withdraw, send, recover | the job moves on while its notice is sent | posted once, true when sent |
| Health, alerts (`runtime_health.py`, `alerts.py`) | health rows | publish, age, project | the row outlives the process | an alert is about an outage, an outage is seen |
| Monitor, incidents (`monitoring.py`, `incident_journal.py`, Hermes plug-in) | journal, claims, cursor, outbox | observe, project, notify, repair | cycles that die, unusable locks, unreadable files | an incident is real, told once, its evidence kept |
| Shell, isolation, schema, release tooling | - | - | input/output, parsing, operator scripts | not modelled |

Interactions.  Ingress admits jobs with their materials, retries and grants
decide what is leased.  A worker's commit writes the result, the outbox row and
the job status in one transaction, which ties the queue to delivery; delivery
of a result ends the job and frees the next message of the topic.  A turn whose
outcome is unknown makes its job *indeterminate*: its root is blocked and the
rest of the queue held until an observation, or the owner, settles it.  The
owner acts from a command line or from Telegram at any moment, in transactions
of the same database.  Around that the hub changes its own configuration
(onboarding, editing, connecting a session), restarts its processes (drain,
maintenance) and reports on itself.

## How the project is built

`ProviderQueue` and `Outbox` are the core and are checked on their own.  The
other components are modules of their own too.  `MCMessages`, `MCTurns`, `MCHub`
and `MCWatch` each hold the instances of one group of components: the
components share no state in the model (what one needs of another is part of
its own environment), so a behaviour picks one instance (`part`, in `MCHub`
also `nth`), runs it and leaves the variables of the others at `Off`.  What
holds of the group holds of each instance, and the other way round.  A property
of such a run is the conjunction of the named properties of one component over
its instances: `AttachIsExact`, for instance, is eight statements of
`SessionConnect` about two instances.

`MCMessages` extends `MCOutbox`: a behaviour is one of the input instances, with
the outbox left as it starts, or the outbox with every input component at `Off`.

`MCHub` is written for proofs: `Onb(i)`, `Edit(i)`, `Con(i)`, `Drain(i)` and
`Win(i)` are parameterised instances, and the constants `Onboardings`,
`Editings`, `Connects`, `Drains` and `Windows` are sequences of records of the
components' constants.  The configuration gives them the small instances, the theorems of
`Hub_proofs`, `Onboarding_proofs` and `Editing_proofs` speak of all of them.  The same form doubles the time
TLC needs for the three larger groups, so those name their instances one by
one.

`Turns` is the part of `MCTurns` that theorems speak of: one instance each of
`TurnControl`, `StdioTransport` and `WebSocketTransport`, whose constants are
constants of `Turns`, and the instances `Cor(i)` of `ClaudeCorrections`, one for
each record of the constant `Corrections`, with its own `TurnsSpec`.  `MCTurns`
extends it with the instances of the other components: its initial states and
steps are those of `Turns` together with those of the rest.

Data is abstracted to what the properties tell apart; every bound is a constant
whose comment says "bound" (or a number of the program that is made smaller),
and appears in the guards.  Times are events or small counters: what a
comparison of clock readings decides.  `PROJECT.json` maps each definition to
the lines it stands for.

## Runs

| Run | What it instantiates | Checks |
|---|---|---|
| `queue_safety` | 2 jobs in 2 topics of one root without a stop, or 2 jobs and 1 stop of one topic; 2 workers, 2 leases, 2 attempts, steering, local writing | `TypeOK`, `AtMostOnce`, `RootExclusion`, `TurnExclusion`, `StopTracksWork`, `StopBeforePublication`, `StopBeforeStart` |
| `queue_order` | 3 jobs of one topic under 2 bindings, steering, continuations, holds | `TopicOrder`, `StartsOnFreeRoot` |
| `queue_live` | 2 jobs, 1 stop, 1 worker, fairness | `JobsEnd`, `StopsComplete` |
| `messages` | 1 message of up to 3 parts, 5 leases, 2 attempts, 2 senders; or one of 11 input instances, see below | `PartsOnceInOrder`, `DeliveredIsShown`, `DispositionIsFinal`, `DeliverySpec`; `AdmissionIsExact`, `EvidenceIsSound`, `FilesAreAccounted`, `RetriedOnce`, `SharesAreFair` |
| `turns` | 19 instances | `InterruptIsExact`, `ApprovalsAreKnown`, `ResultIsOfTurn`, `LinesAreKept`, `FramesAreKept`, `ConsentIsOwn`, `TurnsAreSeparate`, `CorrectionIsExact` |
| `hub` | 9 instances | `GroupsAreAccounted`, `EditsAreWhole`, `AttachIsExact`, `DrainIsHonest`, `WindowIsOrderly` |
| `watch` | 17 instances | `NoticesAreTrue`, `ProgressIsExact`, `IncidentsAreReal`, `IncidentsToldOnce`, `AlertsAreTrue` |
| `promises` | 11 instances with fairness | `TurnsEnd`, `WorkIsServed` |
| `connect_wedge` | violation | `PreparedIsDelivered` |
| `corrections_saved` | violation | `SavedIsPublished` |
| `cli_late` | violation | `InterruptIsOfTurn` |
| `edits_work` | violation | `WorkBlocksRelocation` |

Deadlock is not checked where the modelled system comes to rest: a window that
is over, a row that has ended, bounds used up.

## The queue: `ProviderQueue`

State.  One variable per column or table the transactions read: `status`,
`topic`, `binding`, `attempts`, `due`, `lease`, `hold`, `evidence`,
`resolution`, `parked`, `checkpoint`, `stop`, `writer`, `cont`, `mailed`;
`tokens` is the supply of fresh lease tokens.  `worker` and `steer` are what the
processes believe.  `calls` counts provider inputs that may have been accepted
and `live` is the set of turns really running: nothing in the code reads them.

Actions.  One per transaction (`Lease`, `MarkExecuting`, `CommitResult`,
`RecoverStale`, `StartSteer`, `RequestStop`, `TakeLocalWriter`, ...) and one per
step outside the database (`CallProvider`, `RecordTurn`, `TurnEnds`,
`InvokeSteer`, `WorkerDrops`, `LeaseExpires`, `BecomeDue`).

Abstractions.  Clocks are two flags, `due` and `lease.exp`.  An operation that
samples its clock before it waits for the write lock can pass its expiry test
after the lease ran out, so it has no guard on `exp`; `mark_executing` and
`start_steer` sample inside the lock and have one.  A topic has one session.
What a stop covers is a fixed set of jobs.  A steering thread that outlives its
turn keeps its slot until it settles, and after a failed or unknown steering
it takes no further follow-up (`_steering_rejected`, `codex_live_control.py:158`
and `:501`): an earlier model let it go on, and the attempt to prove
`StartsOnFreeRoot` is what showed it.  Grants between agents are `FairShare`,
appending to a batch `Ingress`, the control scope `TurnControl`.

Bounds.  Two workers and two leases per job are enough for a stale worker, the
worker that replaced it and a job they both touched; two attempts separate the
last attempt from an earlier one; three jobs of a topic give a turn, a message
steered into it and one that must wait.  `queue_safety` runs `SmallSpec`, which
joins two sizes that share their small states: jobs of any topics without a
stop, and jobs and one stop of one topic.  A stop covers one topic only, so a
job of another topic is to it what an uncovered job of the same topic is; the
theorems about stops hold for any number of them.

Fairness (`queue_live`).  `WorkerStep` and `SteerStep`: the loops of
`external_worker.py` and `codex_live_control.py` always reach their next step.
`TurnEnds`: a provider call has a timeout.  `Lease`: an idle worker polls.
`RecoverStale`: called in each worker cycle.  `LeaseExpires` only for abandoned
leases: a live worker's heartbeat may prolong its own for ever.  `BecomeDue`:
time passes.  Nothing is assumed of the owner or of delivery; `AwaitsOthers`
says what may be waited for.

## Delivery: `OrderedDelivery` and `Outbox`

`OrderedDelivery` is the promise: a message is offered, shown part by part in
order, confirmed when all of it is visible or given up when some of it is not,
and revised at most once.  It knows no lease, receipt, crash or recovery.

`Outbox` is the code.  `row` is the `telegram_outbox` row of a job with the
number of parts that have a receipt; `sends` and `receipts` are the tables
around the send; `sender` is what each sender process believes; `chat` is what
Telegram shows, which nothing in the code reads.  A sender goes through
`LeaseOutbox`, `BeginSend` (the durable fence), `Send`, `RecordReceipt` and
`SettleOwn`, or ends in `ReleaseOutbox`, `RetryOutbox` or `MarkUnknown`, or dies
(`SenderDrops`) at any point.  `RecoverStale` and `SettlePending` are the
maintenance of every cycle, `Dispose` and `Resolve` the owner's transactions,
`Observe` replaces a notice.  `Send` has four outcomes: shown or not, and the
sender knows it or not.

Abstractions.  The attempt identifier, the lease token and the attempt's
sequence number are one number; `send_started_at` is the token of the attempt
begun last.  The delay of `available_at` and the order among eligible rows are
left open.  Preview and application of a disposition, which compares a snapshot,
are one step on the current state.  The page cursor of receipt recovery becomes
fairness of every receipt.

Bounds.  Three parts give a first, a middle and a last one; five leases let a
part be retried, recovered and sent on; an attempt limit of 2 instead of 20
reaches the last attempt.

## Input (`MCMessages`)

* `Ingress`: `poller` is a process with the updates of one `getUpdates` answer,
  `offset` its durable place; `Record`, `Admit`, `Append`, `Refuse`, `Quote`,
  `Stop` are the transactions an update goes through, `jobs` the batches with
  window and deadline.  With two pollers a refusal and an admission of the same
  message can both commit, so `RefusedIsNotRun` and `AdmittedInOrder` are
  checked with one.  A database error on a stop, forward or command passes the
  update over, as the code does.
* `IngressEvidence`: one ledger row, its watermark and the outage episode of
  every accepted turn over an integer clock, with samples up to `Lag` old; small
  numbers stand for 60, 120 and 30 seconds.
* `Materials`: rows and files change in different steps with a crash between
  any two.  A crash between unlink and row deletion leaves a waiting row without
  its file, whose next job fails closed; a refused message leaves its file in
  the spool.
* `OwnerRetry`: tickets, replies from two pollers, and the worker's second
  check; `MaxAncestry` stands for 64.  `select` folds model, effort, profile,
  root and route, of which only equality counts.
* `FairShare`: two agents and three topics on two roots, workers that die,
  capacities that change.  Fairness is between agents, not between the jobs of
  one agent.

## Turns (`MCTurns`)

* `TurnControl`: the live observer, the worker, two late readers and stop
  requests around one turn.  The unknown outcome of a closed job keeps the root
  blocked by design (`docs/operations/CODEX_CONTROL_LOSS.md:60`).
* `TurnActivity`: two jobs of one slot; `cur` folds everything a row's binding
  must still match.  A clock that goes backwards is not modelled.
* `CodexClient`: one connection, answers and events in any order; each of its
  four instances has the kinds of traffic its question needs.  Settings and
  malformed shapes are folded into a refusal.
* `StdioTransport`, `WebSocketTransport` (both over `BoundedInbox`): threads and
  tasks step by step; queues of 1 or 2 places instead of 16 and 1024; sizes in
  bytes are left out; the deadline of a frame is one flag.
* `ClaudePermissions`: hook, server, journal, daemon and worker; `bound` folds
  lease, session, writer and generation.  A session whose worker died between
  allocating and using its identity is refused until it is renewed.
* `ClaudeProcess`: process groups with recycled numbers, forks, deadlines,
  stops, and a monitor that outlives its join.
* `CliProcess`: two turns, one after the other, on the adapter they share.  The
  worker joins the monitor of a turn for two seconds and goes on
  (`external_worker.py:1271`), and the interrupt of a late monitor sets the
  adapter's flag and signals the group that is there when it comes to it
  (`external_runtime.py:271`).  In `NextCli` the monitor may outlive its join
  (`LateJoin`), in `Cli` every monitor ends in time and watches the log as well.
  A turn has its own result and ends as cancelled only for its own stop
  (`ResultIsOwn`, `CancelIsOwn`), and a group with a recycled number is signalled
  only in the race named under "Observations" (`StrangerNeedsRace`).  That an
  *interrupt* is of the turn it ends (`InterruptIsOfTurn`) holds in `Cli` only,
  where nothing is late; with a late monitor it is refuted by `cli_late`.
* Of both: events of the stream are `text`, `hint`, `ok`, `err` or `bad`; ticks stand for seconds; a child that
  leaves the group with `setsid` is not modelled.
* `ClaudeCorrections`: a turn, its correction and the next messages of the
  topic; lease time is counted by `Tick`.  An early local fault before the text
  is saved makes the job uncertain by design.

## The hub's procedures (`MCHub`)

* `Onboarding`: `wf` the workflow rows, `net` the requests to Telegram that may
  be carried out late, `obWorker` the provisioner (the session file's lock
  admits one, so the lease token is implicit).  The operator looks only when a
  request has landed or died.
* `ProjectEditing`: the registry file, the bindings and the scopes as two
  stores, processes with a cached registry and the file lock, restart in the
  middle.  Both instances have two processes, as the deployment does: the hub
  and the service of a provider's own chat on the same database
  (`cli.py:532` and `:551`), which recovers edits when it starts and admits work
  by the registry it loaded.  A control that was sent and not settled keeps the
  project from moving (`require_control_scope_clear`, asked even when the file
  is already written), and the provisioner may bind a project to its new group
  meanwhile (`EnsureProject`, `BindGroup`; `NewGroups` bounds the projects it
  does that for).  A binding that fits neither the old nor the new root, like an
  unsettled control, sends the recovery into its error path; a conflict is a
  barrier a person must remove, as `tests/test_project_editing.py:671` has it.
  The first instance has one project with work and a crash, the second two
  owners, two projects and three roots without one, where the second process
  only serves.
  `EditsAreWhole` says what holds with both processes: roots stay distinct,
  completed means applied, the commit moves rows only to the entry the registry
  has (`MovesTogether`), and the file is written only for an idle project, or
  written back inside the transaction that failed (`FileMovesIdle`).  That the
  *rows* move only while the project is idle (`WorkBlocksRelocation`) does not
  hold: `edits_work`.
* `SessionConnect`: flows, the sender's outbox and boundary, metadata workers,
  the administrator's attach, messages before and after the marker.
* `WorkerDrain`: `pc` of every thread, `active` and `tracked` of the barrier,
  the control endpoint, the requesters and what they were `told`; crashes and
  restarts.  A thread whose start raises after its reservation keeps the drain
  open for ever, by design, and is left out.
* `Maintenance`: the window's stages around its units; a callback may fail, its
  effect may land all the same, a unit may die.

## What the owner is told (`MCWatch`)

* `TaskNotices`: one root; other classes of delivery are the environment's
  choice; a retried notice may arrive after its job has moved on.
* `ProgressDelivery`: one agent's sender; two overlap only at a restart; the
  final delivery is one step here (`Outbox` has its steps), `FinalIsLast` holds
  with one sender; `MaxAttempts` stands for 20.
* `IncidentMonitor`: whole cycles under the file lock, also with an unusable
  lock; keys stand for conditions.  A send whose reply was lost may have landed
  (`LostReplies`), so `ToldOnce` is checked without lost replies and with the
  lock.
* `IncidentNotices`: the journal is the environment; the byte bound of the file
  is left out; a saturated cursor refuses new projections by design.
* `RuntimeHealth`: rows with an age of 0, 1 or 2 and the processes they speak
  for.  Refusals come from external runtimes, approvals from Codex.

## Liveness (`MCPromises`)

Fairness is given to the steps of threads, loops and timers that the code always
reaches: a transport's reader and writer, the client's clock, the process
runner and its monitor, a sender's cycle and its maintenance, a poller, a
worker's loop and join, the sender of activity notices, and the expiry of
*abandoned* leases.  Strong fairness is only assumed of the two tasks of the web
socket loop that can be overtaken by the caller's callbacks each time they are
ready; the event loop serves ready tasks in turn.  An edit that is being applied
ends unless a person has to act: an entry or a binding that fits neither root,
a control that is not settled.  Nothing is assumed of
providers, Telegram or the owner.  Liveness of the components that are not in
this module is not checked.

## Findings and observations

Four runs show a disagreement between what the code does and what is said of it:

* `connect_wedge` (`session_connect.py:1083`): the sender leases a menu row
  without a limit on attempts, the schema's CHECK refuses the twenty-first, and
  the error ends each later cycle at the same row.
* `corrections_saved` (`external_worker.py:498`): a lease that lapses between the
  scan for saved outcomes and the bulk recovery makes a job with a saved answer
  uncertain.
* `cli_late` (`external_worker.py:1271`): a monitor that read the stop of its
  turn and outlives the join sets the interrupt flag of the shared adapter during
  the next turn, which ends interrupted and becomes uncertain, against "An older
  unfinished stop therefore never interrupts or cancels later work"
  (`docs/decisions/0046-topic-wide-emergency-stop.md:33`) and
  `docs/decisions/0031-bounded-root-concurrency.md:33`.
* `edits_work` (`project_editing.py:717`): the idleness of a project is checked
  only before the registry is written.  The hub writes it and dies; the other
  service admits work of the project by the registry it loaded; the recovery of
  the restarted hub moves the project, although the owner is told that unfinished
  work blocks the operation (`project_editing.py:524`).

Seen while modelling, without a run of their own:

* `project_editing.py:668` reads an edit's stage before it holds
  `registry_lock`: a service that starts while the hub's owner cancels can apply
  an edit of which the owner was told that the registration is unchanged
  (`service.py:2235`).
* The provisioner reads a project's entry and binds its group in a later step
  (`project_provisioner.py:946`, `project_onboarding.py:915`): a relocation
  that commits in between leaves the binding at the old root, even with one
  process.
* A monitor cycle that dies between claiming and sending leaves the claim
  (`monitoring.py:379`): that condition is not told (`docs/status/PROJECT_STATUS.md:541`).
* `communicate()` reaps without `_process_lock` (`external_runtime.py:579`),
  against the comment at `external_runtime.py:282`: a stop in between signals a
  group whose number the system may have given to another process.
* A covering stop that wins the commit of a failed execution publishes
  `provider_state` ready (`external_worker.py:827`).
* Appending to a collecting job attaches waiting forwards that are not counted
  against its bound (`state.py:1104`), against `docs/decisions/0032-durable-inbound-telegram-materials.md:36`.
* The already-attached path of `complete_marker` sets the writer mode without
  `hold_scope_before_return`; only the administrator's attach leads there.


## What is proved

TLC checks small instances; TLAPS proves these theorems for every value of the
constants that satisfies the modules' assumptions: `BoundsAssumption` and
`TopologyAssumption` (the numbers are natural, every job has a topic and its
topic a root), `DeliveryAssumption` (every message has a part, the numbers are
natural) and, in `MCHub`, `InstancesAllowed` (the constants of every instance
are what its module asks for: bounds are numbers, `None` is no name of
anything, the hub is one of the processes), and in `Turns`, `TurnsAllowed` (at
least one stop, read and try, late readers that are neither the observer nor the
worker, every queue size and bound a number, the workers of every instance of
`ClaudeCorrections` a finite set).  TLC evaluates all of them in the runs.  The
sets of jobs, workers, stops and messages of the queue and of the delivery may
be infinite, and every bound may have any value.

| Theorem | States | Invariant it rests on |
|---|---|---|
| `ProviderQueue_proofs!TypeCorrect` | `TypeOK` | itself |
| `ProviderCalledAtMostOnce` | `AtMostOnce` | `OneSender` |
| `RootIsExclusive` | `RootExclusion` | itself with `TypeOK` |
| `StopsAreExact` | `StopTracksWork` | `StopTracksWork`, `CoverIsStable` |
| `StopPreventsPublication`, `StopPreventsStart` | `StopBeforePublication`, `StopBeforeStart` | as above |
| `ProviderQueueRoots_proofs!TurnsExclude` | `TurnExclusion` | `TurnInv` |
| `JobsStartOnFreeRoots`, `TopicsKeepOrder` | `StartsOnFreeRoot`, `TopicOrder` | `StartInv` |
| `Outbox_proofs!TypeCorrect` | the types of `Outbox` | itself |
| `PartsAppearOnceInOrder`, `DeliveredMeansShown`, `DispositionsAreFinal` | `PartsOnceInOrder`, `DeliveredIsShown`, `DispositionIsFinal` | `Inv` |
| `ImplementsDelivery` | `DeliverySpec`: every step of `Outbox` is a step of `OrderedDelivery` or none | `Inv` |
| `Hub_proofs!WindowsAreOrderly` | `WindowIsOrderly` | `WindowInv` of every window |
| `DrainsAreHonest` | `DrainIsHonest` | `DrainInv` of every drain |
| `Onboarding_proofs!GroupsAreKept` | `GroupsAreAccounted` | `OnboardingInv` of every instance |
| `Editing_proofs!RegistryIsSound` | `EditsAreWhole`, for any set of processes | `EditingInv` of every instance |
| `Turns_proofs!InterruptsAreExact` | `InterruptIsExact` | `ControlInv` |
| `NoLineIsLost` | `LinesAreKept` | `StdioInv` |
| `NoLateFrameIsWritten` | `FramesAreKept` | `SocketInv` |
| `Corrections_proofs!CorrectionsAreExact` | `CorrectionIsExact` | `CorrectionInv` of every instance |

How the arguments go.

*One input per job.*  `AtMostOnce` is not inductive: it needs to know who may
still send.  `OneSender` says that a worker or a steering thread that is about
to hand a job's input to a provider is the only one, that nothing was handed
over before, and that the row says `executing` under its token.

*Stops.*  A stop is pending exactly while some covered job is unfinished.  The
proof shows for every transaction that a job that leaves its work settles the
stops that covered it in the same step, and that coverage never changes
(`CoverIsStable`); that a covered job neither starts nor publishes follows.

*Turns of a root.*  `TurnInv` joins `OneSender`, the freshness of tokens
(`TokensAreFresh`), one run for each job (`OneRun`), the connection between a
really running turn and what the database knows of it (`TurnsAreTracked`) and
the guard of the root (`RootIsGuarded`).  A turn whose worker died is still
tracked, by an executing or an indeterminate job; therefore a second one cannot
begin in the root.  `StartInv` adds that a steered follow-up belongs to the turn
of its own topic (`SteerIsBound`), that a turn is alone (`TurnIsAlone`) and that
the first waiting job of a topic stays the first (`HeadsAreKept`).  One lemma
for each kind of move (`pending` to `leased`, `leased` to `executing`, ...)
keeps the proof from repeating itself for each transaction.

*Delivery.*  `Inv` describes each stage of a row: what it owes (`RowOK`), that
what has a receipt is shown (`ShownOK`), what a sender believes (`SenderOK`),
which receipts may still arrive (`ReceiptOK`), that a parked row has an unknown
part (`ParkedOK`) and that a lease has one sender.  The refinement maps the row,
its receipts and the chat to the five states of a promise.

*Windows and drains.*  `WindowInv` says which units are touched at each stage:
nothing is started before restoring begins, and consumers are started before
admission.  `DrainInv` says what each thread is counted as: the barrier's number is the
number of threads between entering and leaving, a closed barrier with nobody
inside stays so until the worker restarts, a requester that was told "drained"
speaks of the process that said it.  The attempt to prove it showed that the
count needs the loops to be off while the main thread boots, which TLC then
confirmed.  The theorems quantify over all instances of `MCHub`; a step of one
leaves the variables of the others alone.

*Groups.*  That a workflow makes one group (`OneGroupPerWorkflow`) says nothing
about a request that is still on its way.  `RequestsFit` does: a request under
way, or a group it made, exists only at stages that admit it, only once, and the
provisioner does not stand before the call again.  That needs to know where the
provisioner stands for the workflow it works on (`AtHand`: nobody else moves
that row, since no dialogue, claim or expiry touches a leased one) and what a row holds
at its stage (`RowsFit`: a group is complete before it is bound, every outcome
has its notice).  The steps of the provisioner end in three ways (parked, moved
on, returned); one lemma for each says what it does to the row.

*Edits.*  `LockIsHeld` ties the file lock to who stands between taking and
releasing it; `EditsFit` says what a row knows at its stage; `DesksFit` that the
process that wrote the registry still finds what it wrote, and that what it
found before it writes is still so, because only the holder of the lock writes
the file.  That is why the four statements of `EditsAreWhole` hold for any set of
processes.  `RootsAreDistinct`: the root that is written was free among all
entries of the file.  `CompletedIsApplied` and `MovesTogether`: a commit still
finds the entry written, and a binding that is at the old or the new root.
`FileMovesIdle`: the write follows the question in the same transaction, and a
failed commit puts back what was there before it.

*Interrupts.*  `ControlInv` says who may still send: a thread that stands between
the fence and the request owns the fence, so there is one at most (`OneSender`),
and before it sends nothing was sent (`SentOnce`).  An outcome is recorded
only as the evidence allows (`OutcomeFits`), evidence is of a turn that is over
(`EvidenceFits`), and other work waits for the end of the job (`OtherWaits`).  The late
readers are any set, so the proof argues about "another thread" and never
counts them.

*Transports.*  `StdioInv` and `SocketInv` number the frames: what was sent is
received, in the pipe or held by a thread (`SentInOrder`), what the process
wrote is handed out, in the inbox, held or in the pipe (`ReadInOrder`).  That an
end of the inbox means the end of stdout or a close (`EndIsReal`) gives that the
tail is read.  For the web socket, numbers written or held come before numbers
queued (`QueuedInOrder`); a close or a deadline bars only queued numbers, so
nothing already written is barred, and what is barred is refused when the sender
looks at it and is never in hand past that look (`BarredIsRefused`).  One lemma
(`StdioSteps`, `SocketSteps`) says which of a dozen alternatives a step takes;
the lemma for each part of the invariant goes through these and not through the
actions.

*Corrections.*  A turn has one input or two, and the statements about it relate
the tables to what a worker believes and to what its process has said but nobody
has read.  `CorrectionInv` has a part for each.  `QueueFits`: a message that was
begun never waits again, and so did every earlier one, which gives the order and
that a text is given once.  `ChildrenFit`: a correction belongs to one parent,
comes after it, takes no correction itself and shares its lease; `PairEndsTogether`
is inductive with it.  `TextsFit`: a saved answer covers the turn's inputs.
`SeatsFit`: a worker in a turn has written exactly the parent and its correction,
is alone in that turn, and holds a complete turn only with an answer for each
input.  `StreamFits` speaks of the unread output: a receipt is of an input the
process was written, and whatever is receipted before a result is answered by
that result or an earlier one; without it, reading a result would not show that
the inputs are answered.  The proof names what a step does to the tables (a
launch, a reservation, a renewal, a save, a settlement) and shows once for each
that they stay fit; the lemma of an action says which of them it is.  Tokens are
compared with those that are held, so the proof counts the holders and finds a
fresh token (`CorFresh`), for which the workers must be finitely many.

What is only model-checked.  Liveness (`JobsEnd`, `StopsComplete`, `TurnsEnd`,
`WorkIsServed`): fairness and ENABLED are out of the prover's reach.
`AttachIsExact`, everything in the run `watch`, the properties of the input
instances of `messages` (`AdmissionIsExact`, `RetriedOnce`, `EvidenceIsSound`,
`FilesAreAccounted`, `SharesAreFair`), and in `turns` the properties of the components outside `Turns`: `ApprovalsAreKnown`,
`ResultIsOfTurn`, `ConsentIsOwn`, `TurnsAreSeparate`.  These
instances are small; a reader who doubts a bound finds it as a constant in the
configuration.

## Not modelled, and why

* The Telegram transport and the service shell: HTTP, parsing of commands and
  wiring.  What a call can return is part of the modules that make it.
* Process isolation: mount namespaces and path classification are properties
  of the operating system and pure predicates.
* Schema, migrations and configuration: data definition.  The constraints and
  triggers a protocol relies on are modelled with that protocol.
* Release, backup and acceptance tooling: sequential scripts of an operator.
* Inside the modelled parts: texts, sizes in bytes, prompts, models and quotas,
  retention and pagination, except where a property is about them.

## What is left

`AttachIsExact` is the largest theorem that is missing: its eight statements
need one invariant over flows, sender, workers, codes and the messages of a topic.
`ApprovalsAreKnown` needs its component moved from `MCTurns` to `Turns`; the input
components of `messages` and those of `watch` need a module like `Turns` for their group.  `FairShare` (bounded bypass) and `ProgressDelivery` are
the ones whose invariants are nearest to what is proved here.
