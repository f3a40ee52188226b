# ReviewPlane: TLA+ models, model checking and proofs

ReviewPlane lets people and coding agents review a running web application
together. The modules in this directory model the parts of it whose correctness
depends on order: concurrent requests against PostgreSQL, processes that crash
and restart, leases, retries, at-least-once work and resumable streams. TLC
checks the models on small instances. TLAPS proves the theorems of the `*Proof`
modules for every value of the constants.

`PROJECT.json` holds the exact correspondence (`map`: definition to file, lines
and symbol), the hazards with the property that covers each, the runs, the
mutants that show each property can fail, the findings and the theorems.

Contents: 1 inventory, 2 modules and code, 3 runs, 4 fairness, 5 proofs,
6 findings, 7 where the code and the documents differ without a run, 8 limits, 9 plan.

## 1. Inventory

### Parts, state, operations

| Part | Code | State it keeps | Operations that change it |
| --- | --- | --- | --- |
| Durable jobs | `apps/server/src/jobs` | `jobs` rows; one in-flight job per runner process | enqueue, claim, handler transaction, succeed, fail, stop |
| Events and outbox | `apps/server/src/events` | `events`, `event_streams`, `event_outbox`; a bus per process | append, claim, deliver |
| Event socket and web client | `events/routes.ts`, `events/stream.ts`, `apps/web/src/live/events.ts` | per socket: position, delivered, buffer; per client: resume point | subscribe, replay, live delivery, refresh, reconnect |
| Browser control | `modules/browser-sessions/service.ts`, `apps/browser-worker/src/session` | `browser_sessions.control_epoch` and controller, `control_leases`, the worker's epoch and last sequence | request, release, command, pause, resume, end, expiry |
| Browser lifecycle | `modules/browser-sessions`, `apps/browser-worker` | `browser_sessions`, `browser_workers`, the worker's contexts | reserve, allocate, complete, deadline, terminate, report, heartbeat, reconcile |
| Published services | `modules/published-services` | `published_services` rows | create, complete, bind a session, revoke, expire, reconcile |
| Tunnel gateway | `services/tunnel-gateway` | routes, channels, the revocation set and its journal (memory and file) | register, admit, revoke, forget, restart |
| Connector and its channel | `services/connector`, `modules/connectors` | connector rows, the current socket per connector, pending publications | enrol, connect, publish, acknowledge, reconcile, revoke |
| Reviews | `modules/reviews` | reviews, findings, verifications, dispositions | create, update, assign, claim, submit, accept, reopen, export |
| Artefacts | `modules/artefacts` | `artefacts` rows, bytes by digest | create, upload, complete, fail, thumbnail, delete |
| Agents and idempotency | `modules/agents` | credentials, agent sessions, `idempotency_keys`, inbox cursor | mint, revoke, claim a key, store a response |
| MCP server, web UI, identity, projects, live view, operations, backup, protocol types, deployment | `apps/mcp-server`, `apps/web`, the other modules, `packages`, `deploy` | none of their own, or rows with no protocol between actors | |

### How the parts meet

* Every state change of the control plane appends an event in its own
  transaction (`appendEvent`); the outbox dispatcher of each process hands
  committed rows to the bus of that process, and sockets read the bus.
* The control plane calls the browser worker over HTTP (allocate, command,
  terminate, contexts), with a timeout; the worker calls back with heartbeats
  and reports. Neither learns whether an exchange that failed was carried out.
* A browser session reaches a development server through a published service:
  the control plane publishes to the connector over its socket, registers the
  route with the tunnel gateway, and mints a capability for the session's worker.
* Timers (`sweeps.ts`, `monitor.ts`) repair what a dead process left: overdue
  reservations, expired leases, silent workers, orphaned contexts.
* Long work (exports, thumbnails) is a job; its handler runs in a transaction of
  its own.

### What is hard

* Several replicas of the API run the same calls at once. Most guards are read
  before the transaction that relies on them, and every `await` lets another
  call in.
* A process can die between any two statements; what it claimed stays claimed.
* The worker, the gateway and the connector are told things by calls that may be
  lost after taking effect, and answers may arrive late.
* The event client must join a finite history to a live feed without a gap.
* Fencing is by numbers (control epoch, command sequence, attempt counter) that
  are read in one step and written in another.

### What makes each part correct

| Part | Properties |
| --- | --- |
| Jobs | one runner per job; one live job per key; outcomes honest and final; every live job settles unless a stranded row stops the queue |
| Events | nothing repeated, replay complete, nothing lost but what a dispatcher let go past an open socket, the rest eventually arrives |
| Control | an epoch is granted to one controller and authorises no other's commands; the first epoch never comes back; no ended lease comes back; no command sequence runs twice |
| Lifecycle | one browser and one capability per reservation; reservations are answered or end; no orphaned browser; nothing stays live on a lost worker |
| Published services | a revoked or expired record's route is not carried; ended is final; requests are settled, lifetimes end |
| Gateway | an answered withdrawal is refused for the life of the capability, restarts included; a withdrawn route carries no stream; the stream counter is honest |
| Connector | revocation is final and leaves no channel or credential; the newest socket keeps the registry entry; the status follows the connection in the end |
| Reviews | one claim under review per finding; only a human disposes, and of the claim on that human's page; a hand-over has a claim; a decided claim never changes |
| Artefacts | an available artefact has its bytes and stays available |
| Idempotency | work under one key runs once |

`PROJECT.json` lists every component, the ones that are not modelled with the
reason, and every hazard at its line.

## 2. Modules and the code

### JobRunner: `jobs/runner.ts`, `jobs` table of migration 0057

`jobs` is the table, `runners` what each process does, `effects` the handler
transactions that committed, `failures` the committed `job.failed` events,
`limbo` the handlers that outlived their attempt's timeout (the timeout rejects
a promise and does not cancel the handler). `due` holds the rows whose `run_after`
has passed, in the order of the claim query: the query takes one row, so the order
decides which jobs a row that cannot be claimed keeps waiting.

| Action | Code |
| --- | --- |
| `Enqueue` | `enqueueJob` with the partial unique index on the key |
| `Claim` | the claim transaction on the row the query returns (`Selected`: the first due or expired row that nobody has locked): attempts + 1, lease |
| `ClaimBreaksBound`, `ClaimAborts` | the same on a row that has used its attempts: the check constraint refuses the update; the row stays locked until the rollback, and the poll only logs |
| `HandlerCommits`, `HandlerThrows`, `AttemptTimesOut` | the three ends of the raced handler |
| `LimboCommits`, `LimboRollsBack` | what an abandoned handler still does |
| `Succeed`, `Fail` | `#succeed`, `#fail`: updates by identifier alone, whoever holds the row by then, and the retry |
| `BecomeDue`, `LeaseExpires` | the clock, as the two facts the SQL tests |
| `Crash`, `Restart` | a runner process |

### EventStream: `events/outbox.ts`, `events/routes.ts`, `events/stream.ts`, web `live/events.ts`

An event is its sequence number. `AppendEvent`; `Claim` and `Deliver` of the
dispatcher (the claim commits before the rows are read and the bus hears of them, so
`Crash` between the two, or `DeliverFails` when that read fails and its callers
ignore it, loses the live copy and only replay has it); `Connect`, `ReadPosition`,
`Establish` (attach, then refresh or replay), `ReplayRead`, `ReplayDone` (drain
the buffer, go live); `ReceiveEvent`, `ReceiveRefresh`, `Disconnect` of the
client. A read and the continuation that uses it are two steps.

A claim takes the oldest rows that no other process's claim has locked (`FOR UPDATE
SKIP LOCKED`), so with several processes rows may be dispatched out of order;
`claimed` is the set of rows between claim and delivery, and `Batch` what `byIds`
makes of it. `Rising` is a loop of `sendEvent` behind the test against `delivered`: a
running filter, whatever the order of what it is fed. `missed` is a history
variable: per client, the events a dispatcher let go past its open socket (`LetGo`).
There are four ways: the listener was not attached yet or is attached to the bus of
another process, its buffer was full, the read after the claim failed or the claiming
process died, or a later row was handed over while this one was still queued
(`QueuedBehind`). Only events beyond what the socket's replay or its `delivered` covers
count (`Beyond`).

### BrowserControl and ControlLease: control of one session

`ControlLease` is the promise that holds with any number of control changes in
progress: an epoch is a token granted to one controller and to no other, control is
given up only at an epoch past the first, and a lease that ended stays ended.
ADR-0007 promises more, an epoch that moves by one at every change; section 7 has the
interleavings that break it, which the model contains. `BrowserControl` is the
code. A control change is three steps: `RequestControl` / `ReleaseControl` (the
read before the transaction), `Snapshot` (what its first UPDATE finds live under
READ COMMITTED) and `CommitRequest` / `CommitRelease`, or `Rollback` on the
unique index. A command is `RunCommand` (authorise), `WriteSequence`, then
`Execute`, `Refuse` or `LoseCommand` at the worker, and `RecordResult`. `Pause`,
`Resume`, `End` and their writes, termination step by step, `ExpireLease` and
`LoseContext` complete it. `RefinesLease` is `ControlLease!LeaseSpec` with
`holder` and `epoch` read off the session row, `granted` and `live` off the lease
table.

### BrowserLifecycle: from reservation to end, with the worker

`row` is the session row with its lease; `calls` the service calls in progress
(requests and sweeps); `worker` the worker process together with its row;
`reports` the callbacks in flight; `monitor` the pass of `sweepBrowserWorkers`.

| Actions | Code |
| --- | --- |
| `CreateCount`, `CreateInsert`, `RequestAllocation` | `create`, `requestAllocation` |
| `AllocateRead`, `CompletePending`, `ClaimForAllocation` | `allocate`, `completePending` and the guarded claim |
| `Bind`, `BindRefused`, `WriteBinding` | session binder, capability, the row's binding |
| `WorkerAdmits`, `WorkerRefusesProject`, `WorkerOpens`, `LaunchFails`, `AllocateLost` | the exchange with the worker and `manager.ts` |
| `SetReady`, `WorkerRefused` | the end of `allocate` |
| `OverdueRead`, `FailReservation`, `DropContext` | the deadline sweep |
| `Terminate`, `SetTerminating`, `CloseContext`, `SetTerminated` | `terminate` |
| `ApplyWorkerReport`, `LoseReport`, `Navigated`, `ContextEnds` | worker reports |
| `RouteLost`, `RouteContinued` | degradation and continuation with the route |
| `Heartbeat`, `Silence`, `WorkerStops`, `WorkerStarts` | `workers.ts`, the worker process (a clean shutdown is `ContextEnds` for its contexts, then `WorkerStops`) |
| `BeginPass`, `ReadWorkers`, `ReadContexts`, `ContextsUnread`, `TerminateOrphan`, `MarkReconciled` | the reconciler, whose row read and context read are separate steps |
| `LeaseRunsOut`, `ExpireStaleLeases` | lease expiry |
| `CrashCall`, `CrashPass` | the API process dies under a call or a pass |

READY stands for READY, ACTIVE and PAUSED, which every guard here treats alike.

### PublishedServices: `modules/published-services`, `connectors/reconciliation.ts`

`svc` is the `published_services` rows, `cap` the capability rows and signed
tokens, `carried` and `refused` the gateway, `session` the browser session the
services are published for, `calls` the calls and sweeps in progress. A call is a
sequence of steps, one per await whose effect another actor can see.

| Actions | Code |
| --- | --- |
| `Request`, `Create`, `SweepComplete` | `request`, `create`, `completePending` (`findPending` with its grace) |
| `Publish`, `PublishAck`, `PublishRefused` | the exchange with the connector |
| `GatewayRegister`, `GatewayRegisterFails`, `MarkReady`, `MarkFailed` | the rest of `complete`, its catch included; a failed exchange may have been acted on |
| `BeginRevoke`, `BeginExpire`, `BeginRevokeConnector`, `BeginReconcile` | the four ways a list of records comes to be ended: `revoke`, `expireDue`, `revokeConnectorRoutes`, `reconcile` |
| `TellGateway`, `TellGatewayFails`, `EndRecord`, `EndingDone` | gateway first, then `markEnded` with the capability rows, then the session; what the record is ended as was decided when it was read (`lapsed`) |
| `MintRead`, `MintSign`, `MintInsert`, `MintCommit` | `mint`, with the insert and its commit apart |
| `SessionEnds`, `BeginWithdraw`, `WithdrawOne`, `WithdrawRows` | `revokeCapabilitiesForSession` |
| `Disconnect`, `Age`, `Expires`, `GatewayExpires`, `GatewayRestart`, `CallDies` | the connector's close, clocks, faults |

`late` is a history variable: the services registered when their ending had begun.
It names the window the code leaves open, so that `RevokedMeansClosed` says exactly
what holds outside it.

### GatewayRegistry: `services/tunnel-gateway`

Routes with their stream counters, the revocation map, the journal file as `Load`
reads it (the last line per key that decodes, and whether the last line was cut
off), admin calls and the sweeper, proxied requests. Time is in seconds, the unit
`Withdrawn` compares. One step per acquisition of the registry lock or of the
journal's mutex: `RevokeRead`, `JournalAppend` (or `JournalFail`, which may leave a
torn line), `RecordStore`, `RemoveRoute` and `ConnectorAnswer` are the steps of a
revocation; `SweepBegin`, `SweepDeadlines`, `SweepForget` and `SweepCompact` those of
`Run`; `RequestLookup`, `RequestAdmit`, `RequestAttach` and `RequestDetach` those of
the proxy; `Register`, `Mint`, `ChannelOpen`, `ChannelClose`, `Tick`, `Crash` and
`Restart` complete it. `raced` holds the keys an append of which fell into the
compaction window or whose line was glued to a torn one.

### ConnectorChannel: `modules/connectors`

`status` and `beat` are the connector's row, `sock` its control sockets, `current`
and `pending` the `ControlChannelRegistry`, `cred` the agent credentials, `monitor`
and the revocation the calls in progress. `Upgrade`, `MarkConnected`, `MarkBeat`,
`Register`, `RegisterOverflowed` (the early return that never waits for the close),
`Heartbeat`, `HeartbeatRecovers`, `Acknowledge`, `Drop`, `Unregister`, `RecordClose`
are the socket's handlers; `PublishFrame`, `PublishTimeout` the publication;
`SweepBegin` to `SweepDegrade` the heartbeat monitor; `ExchangeResolve`,
`ExchangeIssue` the credential exchange; `RevokeRoutes` to `RevokeClose` the
revocation in the order of `revocation.ts`. `Transition` is one step because
`transitionConnector` reads and writes under a row lock.

### ReviewLifecycle: `modules/reviews`, the transition tables of `packages/protocol`

One review, its findings and the verifications (claims) agents submit. The
transition tables are the sets of moves `AgentReviewMoves`, `HumanReviewMoves`,
`AgentFindingMoves`, `HumanFindingMoves`. A version is compared for equality only,
so it is kept as the set of actors whose last read is still current (`fresh`).
What runs in one transaction behind one row lock is one action (`CreateReview`,
`MoveReview`, `EditReview`, `MoveFinding` with the decision of the current claim,
`EditFinding`). Three operations are two steps, because the code checks before its
transaction or without a lock: `CheckFinding`/`InsertFinding`,
`CheckSubmit`/`RecordSubmit`, `BeginAccept`/`CommitAccept`. Each human has a page of
their own, which shows a claim until it is fetched again. `Refetch` and `Render` are a
client reading a version and a human being shown a claim.

### IdempotentCalls and ArtefactStore: `agents/idempotency.ts`, `modules/artefacts`

`IdempotentCalls` is the `idempotency_keys` row of one key and the calls that carry
it, under one of its three wrappers: the review routes, the MCP server's
`callTool`, the upload-intent route. `ClaimInsert`, `ClaimRead`, `Work`, `Complete`,
`Fail`, `Release`, `Crash`.
`ArtefactStore` adds the `artefacts` rows and the content-addressed store:
`CreateIntent`; `BeginContent`, `Put`, `Record` (an upload); `BeginComplete`,
`Verify`, `Publish`, `MarkFailed` (completion); `PutGenerated`, `InsertGenerated`;
`BeginDelete`, `CountSharers` (the update and the count, which sees committed rows
only), `CommitDelete`, `RemoveBytes`; `Lose` ends a request at any step.

### Composition

`BrowserControl` starts from the session `BrowserLifecycle` leaves after
`SetReady` and treats its end as four steps; `BrowserLifecycle` keeps of control
only whether the session has a live lease. `ControlLease` is instantiated by
`BrowserControl`. `ArtefactStore` extends `IdempotentCalls`: a keyed upload intent is the
work of a call under a key, and one run checks both together. `PublishedServices`
keeps of the gateway what its client sees (which routes it carries, which
capabilities it refuses); `GatewayRegistry` is the inside of that, down to the
journal. `ConnectorChannel` is the source of the acknowledgements, refusals and
disconnections `PublishedServices` takes as given. The `MC*` modules instantiate each model for TLC; the `*Proof`
modules extend it (`PublishedServicesProof` covers both `PublishedServices` and
`ConnectorChannel`, whose definitions carry `Channel` in their names where the
two would clash).

## 3. Runs

| Run | Instance | Shows |
| --- | --- | --- |
| `jobs_queue` | 2 jobs sharing a key, 2 runners, 2 attempts, 1 crash, 1 stall, 1 timeout | the safety properties of the queue, final outcomes, and that only a stranded row stops it |
| `jobs_stuck` | 2 jobs, 1 runner, 2 attempts, 1 crash | violation: a crash in the last attempt stops the queue (section 6) |
| `events_delivery` | 2 processes, 1 client, 3 events, replay limit 1, buffer 1, batch 2, 1 fault, 1 lost socket, 1 deletion | no repetition, complete replay, loss only in dispatch, delivery (210 thousand states, with liveness) |
| `events_loss` | 1 process, 1 client, 3 events, no fault | violation: the handover loses an event (section 6) |
| `control` | 3 controllers, 2 transfers, 2 calls, epochs 1..2, 1 sequence number | what survives overlap: one controller per epoch, the first epoch is spent, no sequence runs twice, refinement of `ControlLease` (784 thousand states) |
| `lifecycle` | 1 session, 1 call at a time, 2 faults | one browser and one capability per reservation, and the four repairs of the sweeps (311 thousand states, with liveness) |
| `gateway_registry` | 1 route registered up to 2 times, 1 capability, 1 admin call, the sweeper, 1 request, clock 0..2, 1 fault | withdrawals are kept, withdrawn routes carry no stream, the counter is honest (4.8 million states) |
| `published_services` | 1 service, 1 capability, 2 calls, 1 fault | the record and the gateway, ended is final, settlement and expiry (190 thousand states, with liveness) |
| `connector_channel` | 2 sockets, 1 publication, 1 credential | revocation, the registry entry, the status (521 thousand states, with liveness) |
| `reviews` | 2 humans, 1 agent, 1 finding, 2 claims | claims, decisions, hand-over (2.0 million states) |
| `artefacts` | 2 artefacts, 2 contents, 2 requests, 2 keyed intents | bytes, availability, one artefact per key (5.0 million states) |
| `mcp_duplicate_runs` | 3 calls of one tool, 2 digests | violation: a duplicate's refusal frees the key (section 6), in six states |

### Why these bounds

* *Jobs.* Two runners and two jobs with one key are what exclusion and
  deduplication need. Two attempts give a first, a retry and exhaustion. One
  crash plus one stall reach takeover of a dead and of a living runner's row, and
  with the second job a stranded row in front of one that waits.
* *Events.* Three events against a replay limit of one and batches of two give a
  gap over the limit, a gap under it, a full and a partial batch. A buffer of one
  holds a partial batch and overflows with a full one, and a further event makes the
  loss visible. Two processes give rows that are claimed out of order and delivered to
  a bus the client is not on. One deletion moves the retained window past
  a resume point. The client may start one event ahead of the stream, as after
  a restore.
* *Control.* Two overlapping transfers are the smallest overlap: both read epoch 1
  and both write 2. One sequence number is what two overlapping commands collide on.
  Epoch and sequence bounds cap the counters: an action that would exceed
  one is disabled. The theorems cover any number of each.
* *Lifecycle.* One call at a time is enough for what the sweeps repair: a call dies
  or loses its answer and the next one takes the row up. Two faults
  let a second failure hit the repair of the first. Overlapping calls are left to the
  theorem `OneBrowser`, which covers every number of sessions and calls.
* *Gateway.* One route that is registered twice gives the reuse of an identifier,
  which every hazard of the registry turns on. A clock of three instants has a
  revocation before, at and after the second a capability was issued in, and an
  entry that becomes forgettable. The admin call, the sweeper and the request
  overlap pairwise.
* *Published services.* Two calls are a completion against any ending, an ending
  against another, or a mint against an ending. One fault is a lost
  exchange, a dead call or a gateway restart in each of them.
* *Connector.* Two sockets are the old and the new one of a reconnect; a socket is
  used again once it is gone, so any number follow each other. There are no
  counters to bound.
* *Reviews.* Two claims give supersession; two humans and an agent give every pair of
  roles, and a decision by one human of what another was shown. The theorems of `ReviewLifecycleProof` cover any number of each.
* *Artefacts.* Two artefacts sharing content, two requests at a time: a deletion
  against an upload, two uploads of one row, two deletions.

Symmetry is used only in runs that check no liveness (`control`, `reviews`, `artefacts`, `mcp_duplicate_runs`).
Deadlock is checked in `connector_channel`, which always has a next step. It is off
elsewhere: counters, calls and identifiers are used up, and a system in which
nobody asks for anything may stop.

Every property of a passing run has a mutant in `PROJECT.json`: a plausible bug
in one mapped definition (a dropped guard, a missing lock, an off-by-one) under
which TLC finds that property violated.

## 4. Fairness

Only for what the code makes happen, and weak unless stated:

* *Jobs.* A live runner polls every second, the attempt's timeout bounds the
  handler, `#succeed` and `#fail` follow it, clocks advance, a supervisor restarts
  a dead process. Not assumed: that an abandoned handler ever ends.
* *Events.* The dispatcher polls every 250 ms, awaited reads return, sockets
  deliver what they carry, the client reconnects with a bounded backoff. Not
  assumed: that events keep coming.
* *Lifecycle.* Every await of a running call settles (the exchange with the worker
  has a timeout), the sweeps are timers, a running worker heartbeats, an unrenewed
  lease runs out. Not assumed: that anybody starts a stopped worker, asks for
  anything or ends a session. Faults are bounded by `MaxFaults`.

* *Published services.* The steps of a call that has begun (every wait in it has a
  timeout), the passing of the grace, and the completion and expiry sweeps, which
  are timers. The sweeps' fairness is strong: the real timers always get to run,
  while the model lets other calls occupy both its call slots for a while, again
  and again. Not assumed: that anybody asks, revokes or reconciles.
* *Connector.* The handlers of a socket that is up, its heartbeats, the close
  handlers of one that is gone (a socket whose queue overflowed has none but
  `unregister`), the monitor's timer, the ageing of a heartbeat
  nobody renews, and the steps of a revocation that has begun. Not assumed: that
  a connector dials again or that a link stays up.

`BrowserControl`, `GatewayRegistry`, `ReviewLifecycle` and `ArtefactStore` state no
fairness: their properties are safety, and in the first case refinement of a
specification without liveness. Nothing in their code runs by itself except the
gateway's sweep.

## 5. Proofs

All theorems assume only the named assumptions on the constants (`JobConstants`,
`ControlConstants`, `LifecycleConstants`, `ActorsAssumption`, `ClaimsAssumption`,
`ContentsAssumption`, `IdentifiersAssumption`, `ServiceConstants`, `GatewayConstants`,
`RequestsAssumption`, `StreamConstants`), which TLC evaluates in the runs. None of
them restricts concurrency. The type invariant of
each of these nine models is a theorem; `EventStream`'s says that no row is
dispatched twice, so its run checks it too. Every safety property that a passing
run checks is stated by a theorem.

**JobRunnerProof.** `JobRunnerType`, `JobRunnerExclusive`, `JobRunnerKeys`,
`JobRunnerOutcomes`, `JobRunnerGivesUpLast`, `JobRunnerFinal`, `JobRunnerFailsClean`.
The invariants are not inductive alone:
exclusion needs to know that a row a live runner works on is `running` under a
`held` lease as long as nobody stalled, and that the runner's attempt number is
no newer than the row's (`HoldsRow`); `SuccessHasEffect` needs that the effect is
already there between the handler's commit and `#succeed`
(`SucceedingHasEffect`). The order of due rows is typed apart (`DueStep`), since no
safety property depends on it. `IInv` is their conjunction with the properties; each
conjunct has its own step lemma, one case per action. That a failed attempt left no
effect needs a second invariant, `AInv` (`JobRunnerAttempts`): whatever was committed
or recorded is of an attempt the row has counted, no two runners carry the same
attempt, an attempt whose handler runs or has committed is not recorded as failed,
and until a timeout one that runs or has thrown left no effect.

**BrowserControlProof.** With no assumption on concurrency: `BrowserControlType`,
`SequenceOnce` (from `RunsInOrder`: the worker's last sequence bounds everything it
ran), `FirstEpochSpent` (from `WritesLaterEpoch`: every transfer in progress will write
an epoch above 1), `OneControllerEach` and `ControlRefinesLease`. For the last two
`GInv` says that whoever is in control was granted the session's epoch
(`HolderGranted`) and that a command in flight is of the controller its epoch was granted
to (`CommandGranted`); lease rows are inserted once and keep their holder.
That an epoch may be reached twice, by a request and a release that overlap, does
no harm here: a release grants nothing, and a second request for the epoch meets the
unique index. The refinement maps a request to `Transfer`, a release to `GiveUp`, expiry
and termination to `Lapse`, and everything else to a stutter.

**BrowserLifecycleProof.** `LifecycleInductive`, `LifecycleType`, `OneBrowser`.
The guarded claim is the only way from REQUESTED to ALLOCATING, and nothing goes
back. `IInv` says what follows: before the claim the session has no capability,
launch or context (`UnclaimedIsUntouched`); at most one call is past the claim and
not yet at the worker, and until it is there no browser was opened or is being
opened (`OneHolder`); a launch under way is the session's first (`LaunchIsFirst`). Most of the
forty actions change nothing `IInv` speaks of except in a harmless direction; the
lemma `QuietIInv` handles all of those at once, and only claim, bind, admit and
open have proofs of their own. `OneBrowser` also shows that the worker's answer
for an identifier it already holds is never needed for allocation.

**ReviewLifecycleProof.** For any humans, agents, findings and claims:
`TypeCorrect`, `AtMostOneClaim`, `HumansDispose`, `HandoverKeepsClaim`,
and the action properties `DecisionsAsShown` and `DecisionsStand`, all from
`Invariance`. The properties alone are not inductive: between a check and its commit
they say nothing. `IInv` adds that a finding being created or a claim being submitted
is not there yet (`CreatingIsNew`, `SubmittingIsNew`); that is what keeps a submission
checked before a decision from writing over the decided claim when it is recorded after
it. Lemmas about the transition tables (`FindingMoves`, `ReviewMoves`)
say what no table allows; `FrameKeeps` handles every action that leaves findings
and claims alone, and each remaining action has a lemma with one step per
conjunct it can disturb.

**GatewayRegistryProof.** For any routes, capabilities, requests, admin calls,
lifetimes and faults: `GatewayType`, `WithdrawalsAreKept`, `WithdrawnCarryNothing`,
`CounterIsHonest`.
Nothing about one set of records is inductive, because a record passes from a call
to the file, to memory, into the list a compaction takes and back from the file after
a restart. The argument is that each of these moves replaces a record by one as
recent, or comes when `MaxRouteTTL` has passed since the record's date, or puts its
key into the history variable `raced` (`JournalGrows`, `RevokedGrows`). `IInv` says
that every record lasts long enough (`RecordsWellDated`, from
`routeRevocationNotAfter` and `CapabilityTTL <= MaxRouteTTL`), that what a call
appended or stored is still kept (`AppendedIsKept`), and that a withdrawn capability
has a record in the file and, while the process runs, in memory (`DeadIsRecorded`).
A request past the withdrawal check with a withdrawn capability holds an
authorisation of an older registration, or its route is gone (`AdmittedBefore`).
For the counter, every step adds one request to the counted set and one to the
counter, takes one from both, or leaves both alone; that needs finitely many
requests (`RequestsAssumption`).

**PublishedServicesProof.** `PublishedType`, `RevocationCloses` and the action property
`EndedStays`, from `PublishedInvariance`. `RevokedMeansClosed` is extended to a call that
has told the gateway and not yet written (`ClosedBeforeEnd`), and a mint that signs has
found its service (`SignersHaveAService`). Most actions satisfy `Quiet`, for which
`QuietKeeps` proves the whole invariant at once.

The same module proves, for any sockets, routes and credentials of
`ConnectorChannel`: `ConnectorType`, `RevocationIsComplete`, `RevocationIsFinal` and
`ChannelStays`. The invariant says
from which step of the revocation on the record reads REVOKED (`RevokesEnrolled`), and
that from then on whatever still holds the channel or a credential was past its
check before (`HoldersAreEarly`, `CredentialsAreEarly`).

**EventStreamProof.** For any clients, limits and faults, and any number of processes
whose claims skip each other's rows: `StreamType`, `StreamRises` (`NothingRepeated`),
`ReplayLosesNothing` (`ReplayIsComplete`) and `OnlyDispatchLoses` (`LostOnlyInDispatch`).
The first part of the module says what the model's operators on sequences return:
that a set of numbers has an enumeration in order (`EnumerationExists`, so the CHOOSE
in `Ascending` has something to choose), that a prefix of it is the smallest members
(`TakeIsFirst`), that the running filter keeps its input's new members in order
(`RisingProperties`), that the k-th member of a sequence in order is at least k
(`OrderGrows`). Where these need induction they take the least counterexample
(`Least`), since a set is something the provers can instantiate and a predicate is
not. The second part follows the messages on a socket (`Orderly`: between the
client's resume point and `delivered`, in order, a refresh only in front).
`IInv` says what each phase of a socket knows (`PhaseInv`), that the history read has
no gap up to the reported position and up to its own end (`HistoryInv`: it takes the
comparison with the replay limit, made before the read, to know that a truncated
history still reaches the position), and what a live socket carries (`LiveInv`).
`LossInv` adds that every retained event is with the consumer, on the wire, in the
buffer or queued, depending on the phase (`Covered`), and that nothing queued or
buffered is overtaken (`BufferOrder`), or the event is in `missed`. It is stated for
every event: rows of other processes may be claimed out of order, so no order of
the outbox as a whole is inductive. Each of the ways into `missed` is where the proof
fails without it.

**ArtefactStoreProof.** For any artefacts, contents, requests and keyed calls:
`ArtefactType`, `BytesAreThere`, `IntentRunsOnce` and `AvailableStays`. `IInv` ties
every key a request carries to the store: who writes a state read the row before it was
available (`WriterReadOpen`), what is being verified has content (`VerifiedHasContent`),
and the bytes a row holds are stored with no removal decided, except by the deletion of
the row itself (`HeldIsStored`). `OneHolder`
is the idempotency key's part, for calls that never release it.

**Only model-checked.** The liveness properties of `jobs_queue`, `events_delivery`,
`lifecycle`, `published_services` and `connector_channel`: liveness under
fairness and ENABLED are outside what the installed provers can do, and so are
RECURSIVE operators and induction by a predicate parameter (the least-element
argument of `EventStreamProof` replaces it for sets of numbers). `CrashCostsADelay`,
`LosesNothing` and `OneCallRuns` are violated (section 6).

## 6. Findings

A finding is a run that ends in a violation, with the sentence it contradicts.

* `jobs_stuck`: migration 0057 says the lock and the lease "together mean a crashed
  runner costs a delay rather than a stuck job". A runner that dies in a job's last
  attempt leaves a row with attempts = max_attempts. Every poll selects it first once
  its lease has expired, the update breaks `jobs_attempts_bounded`, and the transaction
  is rolled back: the job is neither retried nor given up, and the jobs behind it in
  the order of `run_after` are not tried while it is there. `jobs_queue` shows that
  nothing else stops the queue. (With several runners a poll that meets the row
  while another holds its lock skips it, so some of the others still get through.)
* `events_loss`: EVENTS.md says "The handover from replay to live delivery loses nothing
  and repeats nothing", and the header of `routes.ts` that the server attaches before it
  replays. It reads the position before it attaches. An event delivered in between is
  neither replayed nor buffered, and the next one moves the client's resume point past
  it, so that no reconnect brings it. `events_delivery` shows what does hold.
* `mcp_duplicate_runs`: `idempotency.ts` tells a duplicate that the first call "has
  not finished. Retry shortly; it will not run twice". `callTool` names the scope
  before it claims the key, so its catch releases the key when the claim is what
  was refused: the row of the call in flight is deleted, and the next retry runs
  beside it. The review routes claim outside their `try` and are not affected.

## 7. Where the code and the documents differ without a run

The models contain these behaviours. No property states the sentence they contradict,
because it does not hold; a property that holds beside them says so, some with a
history variable that names the window (`missed`, `late`, `raced`, `early`). "Not
covered" is meant literally: nothing here shows how often a window is met.

*Jobs*
* A handler that timed out may still commit while its attempt is recorded failed, and
  the retry then does the work again.
* `#succeed` and `#fail` write by identifier: a runner that overran its lease overwrites
  the state of the one that took the job over. Exclusion and final outcomes are
  stated up to the first such stall.

*Events*
* Besides the handover of section 6: an event that finds the buffer full is dropped; one
  whose rows could not be read after the claim committed is never delivered, and both
  callers of `drain` ignore the error; one claimed by another control-plane process
  reaches only the bus of that process; and one delivered after a later one is dropped
  as already seen. Sockets stay up in all four cases. Clients learn of the event on
  reconnect unless the resume point has passed it.

*Browser control and lifecycle*
* A request and a release that read the same epoch write the same next one. ADR-0007
  says "Every transition increments a control epoch" and DOMAIN_MODEL.md (section on
  control) "Every controller transition increments the epoch". In the same overlap the
  session may end with no controller and a live lease, or with a live lease at an epoch
  it has left, although a comment before `requestControl` says "a lease can never exist at
  an epoch the session does not carry".
* A release that waited behind other changes writes the successor of the epoch it read
  and may move the epoch back. Requests then choose an epoch whose lease row exists,
  meet the unique index and are rolled back, each time, until somebody else moves
  the epoch on.
* The worker is never told of a transfer: its refusal names the epoch of the
  allocation, not "the epoch that is actually current".
* `runCommand` writes ACTIVE from a status read before the worker ran the command:
  a pause or a termination in between is overwritten.
* An expired lease is revoked but the session keeps its controller; and a command
  authorised before a transfer still runs after it.
* The credential of a lost worker no longer resolves and a worker registers only
  when it starts, so its heartbeats do not bring it back as OPERATIONS.md says.
* The deadline sweep selects by a column that allocation clears before it asks the
  worker; a process that dies after that leaves the row ALLOCATING, against
  ADR-0037 ("A reservation that nothing completes ends by itself"). One that dies
  after writing TERMINATING leaves a row no sweep looks at.
* The reconciler reads rows before contexts: a session allocated in between is
  closed as an orphan. A late READY answer or report brings an ended session back,
  because `#setStatus` writes by identifier alone. Capacity is counted before the
  insert and again before the launch; concurrent requests can exceed it.

*Gateway*
* `ForgetRevocations` releases the lock before it rewrites the journal: an append in
  between is erased and a restart forgets the withdrawal. A torn line glues the
  next append to itself, and `Load` skips both.
* Two overlapping revocations of one key can leave the older record. A stream
  admitted on a withdrawn route can attach once the identifier is registered
  again; a late `DetachStream` lowers the new route's counter.

*Published services*
* The predicate of `insertCapability` sees an end only once it is committed, and the
  insert itself commits later: a capability inserted just before the end and committed
  after the withdrawal has listed the session's capabilities outlives the session.
  ADR-0037 says the window "is closed from the other side by the insert predicate", and
  the comment at `insertCapability` that "the losing side of the race writes nothing".
* The sweep takes up a record after a grace of two seconds while `publish` waits up
  to thirty: the second attempt is refused as a conflict and marks the record
  failed under the first, although a comment in `sweeps.ts` calls the duplicate "a
  wasted acknowledgement".
* A revocation that overtakes a completion before it registers leaves the gateway
  carrying the route of an ended record until its lifetime ends; so does a lost
  answer to a registration. Nothing registers routes again after a gateway restart.
* One failed call drops the rest of an expiry sweep's list.

*Connector*
* The late close of an old socket marks the connector disconnected and degrades its
  sessions. The next heartbeat recovers the connector's status and nothing else: the
  sessions stay degraded until a reconciliation resumes them. `unregister` rejects the
  publications sent on the newer socket.
* A socket whose frame queue overflowed before it was registered is closed without
  `connector.disconnected`; the status follows only with the monitor.
* A socket past its admission check when the connector is revoked still registers,
  and a credential issued between the credential sweep and the status change
  survives.

*Reviews*
* `submitVerification` checks rows read before its transaction, and the MCP tool
  passes no expected version: a finding disposed of in between takes the claim.
  DOMAIN_MODEL.md says "A finding a human has disposed of takes no further submission",
  and ADR-0035 of such a claim that "the write should not have been possible".
* Acceptance reads the findings under the review's row lock, but `updateFinding` takes
  only the finding's lock and `createFinding` checks the review before its transaction:
  a review can be accepted with a finding that was reopened or inserted between the
  check and the commit. API.md says a finding "reopened concurrently cannot slip past
  between the check and the write", and two comments of `reviews/service.ts` repeat it.
* After a hand-over the agent may supersede the complete claim by a partial one.

*Artefacts and idempotency*
* An upload of bytes whose deletion is decided becomes available and then loses
  them; two deletions of artefacts that share bytes may each count the other and leave
  them behind.
* Completion updates the row by identifier, whatever its key or state by then: an upload
  recorded while the completion verified the previous bytes leaves an available row
  whose key was never verified, and `markFailed` can fail an available artefact. The
  header of `artefacts/service.ts` says that "even a bug here cannot produce an available
  artefact whose digest was never checked"; the constraint looks at the digest
  columns and not at the key.
* The upload-intent route never releases its key, and nothing sweeps expired keys.
  When storing the response fails after the work ran, the routes and tools release
  the key and a retry runs again.

## 8. Limits of the models

* *EventStream* runs one client. Clients do not interact, and the theorems cover any
  number of them.
* *BrowserLifecycle* runs one session, so the worker's refusal for capacity is
  reached through the same outcome as its refusal of a project; calls follow each other
  there and overlap in the proof. Withdrawing a
  capability changes the gateway only and is in `PublishedServices`.
* *BrowserControl* models one session that is already allocated, and its run stops at
  the second epoch and the first sequence number: an epoch that moves back, or a
  sequence written back, is within the theorems only. Refusals write
  only an event and are stuttering steps.
* *GatewayRegistry* has one connector; the count race in `validate` for
  `MaxRoutesPerConnector` needs two registrations at once and does not happen in the
  instance. Bytes, headers and certificates are left out.
* *PublishedServices* runs one service and one browser session: a failed call that
  drops the rest of a list is reached with a list of one.
* *ReviewLifecycle* has one review. Comments, attachments, list queries, inbox items
  and export requests change nothing its guards read.
* *ArtefactStore* identifies a content with its digest and its key. Thumbnails,
  download grants and retention are left out.
* Checks that only refuse (authorisation, policy, destination, rate limits) come
  before the modelled steps and are left out. Clocks are the facts the code
  derives from them. Payloads, wording and logging are left out.
* Not modelled: computation on bytes (thumbnails, archives), certificate
  encoding, the frames of the live view, backup and restore (offline, pure I/O),
  the user interface, generated protocol types, configuration and deployment;
  the Go connector's own side of its channel and the agent inbox, whose effects
  on the modelled parts are actions of their environment. About a third of
  the implementation's lines are generated types and validators, and more than a
  tenth is the user interface; neither has state the protocols depend on.

## 9. Plan

Done: `JobRunner`, `EventStream`, `ControlLease`, `BrowserControl`, `BrowserLifecycle`,
`GatewayRegistry`, `PublishedServices`, `ConnectorChannel`, `ReviewLifecycle`,
`IdempotentCalls`, `ArtefactStore`, and eight `*Proof` modules, which state every
safety property of the passing runs. Next, in this order:

1. `PublishedServicesProof`: the composition of the connector's acknowledgements with
   the completion they answer, now that both are in one module.
2. Runs for the differences of section 7 that a document states outright: acceptance
   and late submission in `ReviewLifecycle`, the insert predicate in `PublishedServices`,
   the key of a completed upload in `ArtefactStore`.
3. The Go connector's channel and route table, composed with `ConnectorChannel` in
   place of its environment.
