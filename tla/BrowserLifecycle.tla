--------------------------- MODULE BrowserLifecycle ---------------------------
(***************************************************************************)
(* The life of a browser session between PostgreSQL and the browser        *)
(* worker: reservation, allocation in one or two phases, the deadline      *)
(* sweep, termination and worker reports (browser-sessions/service.ts),    *)
(* the liveness sweep and reconciler (monitor.ts, workers.ts), and the     *)
(* worker's contexts (browser-worker/src/session/manager.ts).              *)
(*                                                                         *)
(* A call is a sequence of steps, one for each await whose result or write *)
(* another actor can see; consecutive statements nobody reads in between   *)
(* are one step.  READY stands for READY, ACTIVE and PAUSED, which every   *)
(* guard here treats alike; who controls the session is BrowserControl's   *)
(* matter, and withdrawing a capability (#withdrawCapabilities) changes    *)
(* the tunnel gateway's state and none of this.  Clocks are the facts the  *)
(* SQL derives from them: a heartbeat is fresh, late or past the lost      *)
(* budget, a reservation may be overdue.                                   *)
(***************************************************************************)
EXTENDS Integers, FiniteSets

CONSTANTS
  Sessions,        \* browser session identifiers
  Calls,           \* service calls in progress: API requests, sweeps, reports
  NoSession,       \* what an idle call works on
  Capacity,        \* browser_workers.capacity
  MaxFaults        \* bound on the faults: the API process dies under a call or a
                   \* pass, the worker process dies, a running worker's heartbeats
                   \* stay away, an exchange with a running worker fails

ASSUME LifecycleConstants ==
  /\ Capacity \in Nat \ {0}
  /\ MaxFaults \in Nat
  /\ NoSession \notin Sessions

VARIABLES
  row,      \* the browser_sessions rows, with the session's lease
  calls,    \* the service calls in progress
  worker,   \* the worker process and its browser_workers row
  reports,  \* status reports on their way to the control plane
  monitor,  \* the pass of sweepBrowserWorkers in progress
  opened,   \* history: how many browsers the worker opened for a session
  minted,   \* history: how many capabilities were minted for it
  faults    \* how many faults there were

vars == <<row, calls, worker, reports, monitor, opened, minted, faults>>

Statuses == {"ABSENT", "REQUESTED", "ALLOCATING", "READY", "DEGRADED",
             "TERMINATING", "TERMINATED", "FAILED"}
Terminal == {"TERMINATED", "FAILED"}
\* The statuses liveSessions asks for.
LiveStatuses == {"ALLOCATING", "READY", "DEGRADED"}

\* route: requested_published_service_id and published_service_id.
Row == [status : Statuses,
        ended : {"no", "yes"},
        route : {"none", "requested", "bound"},
        lease : {"none", "live", "expired", "revoked"}]

\* arg: what the call was given or has read.
Call == [pc : {"idle", "creating", "claiming", "binding", "writing", "dispatching",
               "waiting", "answered", "refused", "failing", "dropping",
               "terminating", "closing", "closed"},
         session : Sessions \cup {NoSession},
         arg : {"none", "route"} \cup Statuses]

\* launching: how many browsers are being opened for a session; row: what status
\* and last_heartbeat_at of browser_workers amount to.
Worker == [up : {"yes", "no"},
           launching : [Sessions -> Nat],
           contexts : SUBSET Sessions,
           row : {"live", "late", "overdue", "lost"}]

Report == [session : Sessions, status : {"READY", "TERMINATED", "FAILED"}]

\* seen: the rows liveSessions returned; todo: what the pass has yet to do.
Monitor == [pc : {"idle", "workers", "asking", "acting"},
            seen : [Sessions -> {"ABSENT"} \cup LiveStatuses],
            todo : SUBSET (Sessions \X {"orphan", "FAILED", "DEGRADED"})]

NoCall == [pc |-> "idle", session |-> NoSession, arg |-> "none"]
NoLaunch == [s \in Sessions |-> 0]
NothingSeen == [s \in Sessions |-> "ABSENT"]
NoPass == [pc |-> "idle", seen |-> NothingSeen, todo |-> {}]

Init ==
  /\ row = [s \in Sessions |-> [status |-> "ABSENT", ended |-> "no", route |-> "none",
                                lease |-> "none"]]
  /\ calls = [c \in Calls |-> NoCall]
  /\ worker = [up |-> "yes", launching |-> NoLaunch, contexts |-> {}, row |-> "live"]
  /\ reports = {}
  /\ monitor = NoPass
  /\ opened = [s \in Sessions |-> 0]
  /\ minted = [s \in Sessions |-> 0]
  /\ faults = 0

-----------------------------------------------------------------------------
(* What the actions are made of *)

Step(c, pc, s, arg) == calls' = [calls EXCEPT ![c] = [pc |-> pc, session |-> s, arg |-> arg]]
Return(c) == calls' = [calls EXCEPT ![c] = NoCall]
Fault == faults < MaxFaults /\ faults' = faults + 1

\* #setStatus: by id alone; ended_at is set by a terminal status and never cleared.
WithStatus(r, status) ==
  [r EXCEPT !.status = status, !.ended = IF status \in Terminal THEN "yes" ELSE @]

\* #revokeLeases.
Released(r) == [r EXCEPT !.lease = IF @ \in {"live", "expired"} THEN "revoked" ELSE @]

\* SessionManager.terminate: a context it does not hold is refused, which every
\* caller ignores; one it holds is destroyed and reported.
WorkerTerminates(s) ==
  /\ worker' = [worker EXCEPT !.contexts = @ \ {s}]
  /\ reports' = IF s \in worker.contexts
                THEN reports \cup {[session |-> s, status |-> "TERMINATED"]} ELSE reports

\* The exchange fails: the worker is down, or the request or its answer is lost.
ExchangeFails ==
  \/ worker.up = "no" /\ UNCHANGED faults
  \/ worker.up = "yes" /\ Fault

\* client.terminate(...).catch(() => undefined).
AskTerminate(s) ==
  \/ worker.up = "yes" /\ WorkerTerminates(s) /\ UNCHANGED faults
  \/ ExchangeFails /\ UNCHANGED <<worker, reports>>

-----------------------------------------------------------------------------
(* Reservation *)

\* The capacity query: a reservation counts, whatever state it is in.
Occupied == {s \in Sessions : row[s].ended = "no" /\ row[s].status \notin {"ABSENT"} \cup Terminal}

\* Identifiers are never short: a call that will insert has one to insert.
FreshIds == Cardinality({s \in Sessions : row[s].status = "ABSENT"})
              - Cardinality({c \in Calls : calls[c].pc = "creating"})

\* create up to its transaction: a live worker with room.
CreateCount(c) ==
  /\ calls[c].pc = "idle"
  /\ FreshIds > 0
  /\ worker.row = "live"
  /\ Cardinality(Occupied) < Capacity
  /\ Step(c, "creating", NoSession, "none")
  /\ UNCHANGED <<row, worker, reports, monitor, opened, minted, faults>>

\* create's transaction: the row and its initial lease.
CreateInsert(c, s) ==
  /\ calls[c].pc = "creating"
  /\ row[s].status = "ABSENT"
  /\ row' = [row EXCEPT ![s].status = "REQUESTED", ![s].lease = "live"]
  /\ Return(c)
  /\ UNCHANGED <<worker, reports, monitor, opened, minted, faults>>

\* requestAllocation: phase one, a guarded write.
RequestAllocation(s) ==
  /\ row[s].status = "REQUESTED"
  /\ row' = [row EXCEPT ![s].route = "requested"]
  /\ UNCHANGED <<calls, worker, reports, monitor, opened, minted, faults>>

-----------------------------------------------------------------------------
(* Allocation *)

\* allocate reads the row.  The inline caller may name a route or none.
AllocateRead(c, s, arg) ==
  /\ calls[c].pc = "idle"
  /\ row[s].status = "REQUESTED"
  /\ Step(c, "claiming", s, arg)
  /\ UNCHANGED <<row, worker, reports, monitor, opened, minted, faults>>

\* completePendingAllocations takes up a requested row with its route.
CompletePending(c, s) ==
  /\ row[s].ended = "no" /\ row[s].route = "requested"
  /\ AllocateRead(c, s, "route")

\* Mutant: the claim checks the status and leaves it to a later step to write it.
ClaimUnrecorded(c) ==
  LET s == calls[c].session IN
  /\ calls[c].pc = "claiming"
  /\ IF row[s].status = "REQUESTED"
       THEN Step(c, IF calls[c].arg = "route" THEN "binding" ELSE "dispatching", s, "none")
       ELSE Return(c)
  /\ UNCHANGED <<row, worker, reports, monitor, opened, minted, faults>>

\* #claimForAllocation: UPDATE ... WHERE status = 'REQUESTED'.
ClaimForAllocation(c) ==
  LET s == calls[c].session IN
  /\ calls[c].pc = "claiming"
  /\ IF row[s].status = "REQUESTED"
       THEN /\ row' = [row EXCEPT ![s].status = "ALLOCATING"]
            /\ Step(c, IF calls[c].arg = "route" THEN "binding" ELSE "dispatching", s, "none")
       ELSE UNCHANGED row /\ Return(c)
  /\ UNCHANGED <<worker, reports, monitor, opened, minted, faults>>

\* binder.bind mints a capability for the session.
Bind(c) ==
  LET s == calls[c].session IN
  /\ calls[c].pc = "binding"
  /\ minted' = [minted EXCEPT ![s] = @ + 1]
  /\ Step(c, "writing", s, "none")
  /\ UNCHANGED <<row, worker, reports, monitor, opened, faults>>

\* The route does not admit the session, or there is no binder.
BindRefused(c) ==
  /\ calls[c].pc = "binding"
  /\ Step(c, "failing", calls[c].session, "none")
  /\ UNCHANGED <<row, worker, reports, monitor, opened, minted, faults>>

\* The bind is recorded and the request cleared in the same statement.
WriteBinding(c) ==
  LET s == calls[c].session IN
  /\ calls[c].pc = "writing"
  /\ row' = [row EXCEPT ![s].route = "bound"]
  /\ Step(c, "dispatching", s, "none")
  /\ UNCHANGED <<worker, reports, monitor, opened, minted, faults>>

\* manager.allocate up to the launch: a context it holds already is the answer,
\* and capacity counts the contexts open now.
WorkerAdmits(c) ==
  LET s == calls[c].session IN
  /\ calls[c].pc = "dispatching" /\ worker.up = "yes"
  /\ LET admitted == s \notin worker.contexts /\ Cardinality(worker.contexts) < Capacity IN
     /\ worker' = IF admitted THEN [worker EXCEPT !.launching[s] = @ + 1] ELSE worker
     /\ Step(c, IF admitted THEN "waiting"
                ELSE IF s \in worker.contexts THEN "answered" ELSE "refused", s, "none")
  /\ UNCHANGED <<row, reports, monitor, opened, minted, faults>>

\* The project is not, or not yet, assigned on the worker's own copy.
WorkerRefusesProject(c) ==
  /\ calls[c].pc = "dispatching" /\ worker.up = "yes"
  /\ calls[c].session \notin worker.contexts
  /\ Step(c, "refused", calls[c].session, "none")
  /\ UNCHANGED <<row, worker, reports, monitor, opened, minted, faults>>

\* A caller waiting for s, if one still is, learns what became of the launch.
Answer(s, pc) ==
  LET waiting == {c \in Calls : calls[c].pc = "waiting" /\ calls[c].session = s}
  IN  IF waiting = {} THEN UNCHANGED calls
      ELSE \E c \in waiting : Step(c, pc, s, "none")

\* BrowserSession.allocate resolves: the context is registered and reported.
WorkerOpens(s) ==
  /\ worker.launching[s] > 0
  /\ worker' = [worker EXCEPT !.launching[s] = @ - 1, !.contexts = @ \cup {s}]
  /\ opened' = [opened EXCEPT ![s] = @ + 1]
  /\ reports' = reports \cup {[session |-> s, status |-> "READY"]}
  /\ Answer(s, "answered")
  /\ UNCHANGED <<row, monitor, minted, faults>>

\* BrowserSession.allocate throws: nothing was registered.
LaunchFails(s) ==
  /\ worker.launching[s] > 0
  /\ worker' = [worker EXCEPT !.launching[s] = @ - 1]
  /\ Answer(s, "refused")
  /\ UNCHANGED <<row, reports, monitor, opened, minted, faults>>

\* #exchange throws: no connection, or the timeout while the worker goes on.
AllocateLost(c) ==
  /\ calls[c].pc \in {"dispatching", "waiting"}
  /\ \/ ExchangeFails
     \/ /\ calls[c].pc = "waiting" /\ worker.launching[calls[c].session] = 0
        /\ UNCHANGED faults
  /\ Step(c, "refused", calls[c].session, "none")
  /\ UNCHANGED <<row, worker, reports, monitor, opened, minted>>

\* The worker's answer is written over whatever the row has become.
SetReady(c) ==
  LET s == calls[c].session IN
  /\ calls[c].pc = "answered"
  /\ row' = [row EXCEPT ![s] = WithStatus(@, "READY")]
  /\ Return(c)
  /\ UNCHANGED <<worker, reports, monitor, opened, minted, faults>>

\* allocate's catch around the worker call: FAILED, and the lease stays.
WorkerRefused(c) ==
  LET s == calls[c].session IN
  /\ calls[c].pc = "refused"
  /\ row' = [row EXCEPT ![s] = WithStatus(@, "FAILED")]
  /\ Return(c)
  /\ UNCHANGED <<worker, reports, monitor, opened, minted, faults>>

\* Mutant: only reservations nobody claimed are looked at.
OverdueReadUnclaimed(c, s) ==
  /\ calls[c].pc = "idle"
  /\ row[s].ended = "no" /\ row[s].route = "requested"
  /\ row[s].status = "REQUESTED"
  /\ Step(c, "failing", s, row[s].status)
  /\ UNCHANGED <<row, worker, reports, monitor, opened, minted, faults>>

\* failOverdueAllocations reads a row past the deadline; awaitAllocation and the
\* agent's own calls come here too, for fewer rows.
OverdueRead(c, s) ==
  /\ calls[c].pc = "idle"
  /\ row[s].ended = "no" /\ row[s].route = "requested"
  /\ row[s].status \in {"REQUESTED", "ALLOCATING", "DEGRADED"}
  /\ Step(c, "failing", s, row[s].status)
  /\ UNCHANGED <<row, worker, reports, monitor, opened, minted, faults>>

\* #failReservation; the deadline sweep then asks the worker to drop what an
\* ALLOCATING row may have opened.
FailReservation(c) ==
  LET s == calls[c].session IN
  /\ calls[c].pc = "failing"
  /\ row' = [row EXCEPT ![s] = WithStatus(Released(@), "FAILED")]
  /\ IF calls[c].arg = "ALLOCATING" THEN Step(c, "dropping", s, "none") ELSE Return(c)
  /\ UNCHANGED <<worker, reports, monitor, opened, minted, faults>>

DropContext(c) ==
  /\ calls[c].pc = "dropping"
  /\ AskTerminate(calls[c].session)
  /\ Return(c)
  /\ UNCHANGED <<row, monitor, opened, minted>>

-----------------------------------------------------------------------------
(* Termination and worker reports *)

\* terminate reads the row; an ended session is returned as it is.
Terminate(c, s) ==
  /\ calls[c].pc = "idle"
  /\ row[s].status \notin {"ABSENT"} \cup Terminal
  /\ Step(c, "terminating", s, "none")
  /\ UNCHANGED <<row, worker, reports, monitor, opened, minted, faults>>

SetTerminating(c) ==
  LET s == calls[c].session IN
  /\ calls[c].pc = "terminating"
  /\ row' = [row EXCEPT ![s] = WithStatus(@, "TERMINATING")]
  /\ Step(c, "closing", s, "none")
  /\ UNCHANGED <<worker, reports, monitor, opened, minted, faults>>

CloseContext(c) ==
  /\ calls[c].pc = "closing"
  /\ AskTerminate(calls[c].session)
  /\ Step(c, "closed", calls[c].session, "none")
  /\ UNCHANGED <<row, monitor, opened, minted>>

\* Lease, capabilities, and only then the record.
SetTerminated(c) ==
  LET s == calls[c].session IN
  /\ calls[c].pc = "closed"
  /\ row' = [row EXCEPT ![s] = WithStatus(Released(@), "TERMINATED")]
  /\ Return(c)
  /\ UNCHANGED <<worker, reports, monitor, opened, minted, faults>>

\* The status route and applyWorkerReport: what the worker reports is written
\* whatever the row says by now, unless the worker is lost and its credential
\* does not resolve.
ApplyWorkerReport(r) ==
  LET s == r.session IN
  /\ r \in reports /\ reports' = reports \ {r}
  /\ worker.row # "lost"
  /\ row' = [row EXCEPT ![s] =
               WithStatus(IF r.status \in Terminal THEN Released(@) ELSE @, r.status)]
  /\ UNCHANGED <<calls, worker, monitor, opened, minted, faults>>

\* reportStatus is tried once and its failure only logged; a lost worker's is
\* refused.
LoseReport(r) ==
  /\ r \in reports /\ reports' = reports \ {r}
  /\ UNCHANGED <<row, calls, worker, monitor, opened, minted, faults>>

\* The API process dies under a call.
CrashCall(c) ==
  /\ calls[c].pc # "idle"
  /\ Fault
  /\ Return(c)
  /\ UNCHANGED <<row, worker, reports, monitor, opened, minted>>

-----------------------------------------------------------------------------
(* The connector's routes: published-services/reconciliation.ts *)

\* handleDisconnect and revokeConnectorRoutes: guarded by the status.
RouteLost(s) ==
  /\ row[s].route = "bound" /\ row[s].ended = "no"
  /\ row[s].status \in {"REQUESTED", "ALLOCATING", "READY"}
  /\ row' = [row EXCEPT ![s].status = "DEGRADED"]
  /\ UNCHANGED <<calls, worker, reports, monitor, opened, minted, faults>>

\* #applySessionDecisions: the route continues and so does its session.
RouteContinued(s) ==
  /\ row[s].route = "bound" /\ row[s].ended = "no"
  /\ row[s].status = "DEGRADED"
  /\ row' = [row EXCEPT ![s].status = "READY"]
  /\ UNCHANGED <<calls, worker, reports, monitor, opened, minted, faults>>

-----------------------------------------------------------------------------
(* The worker process *)

\* A context ends on the worker's side: duration limit, withdrawn assignment
\* (TERMINATED) or a dead browser (FAILED).
ContextEnds(s, status) ==
  /\ s \in worker.contexts
  /\ worker' = [worker EXCEPT !.contexts = @ \ {s}]
  /\ reports' = reports \cup {[session |-> s, status |-> status]}
  /\ UNCHANGED <<row, calls, monitor, opened, minted, faults>>

\* handleCommand reports the context's status after a navigation.
Navigated(s) ==
  /\ s \in worker.contexts
  /\ reports' = reports \cup {[session |-> s, status |-> "READY"]}
  /\ UNCHANGED <<row, calls, worker, monitor, opened, minted, faults>>

\* The process dies with its browsers; reports already sent arrive or not.
WorkerStops ==
  /\ worker.up = "yes"
  /\ Fault
  /\ worker' = [worker EXCEPT !.up = "no", !.launching = NoLaunch, !.contexts = {}]
  /\ UNCHANGED <<row, calls, reports, monitor, opened, minted>>

\* startWorker registers: the row is active again, even after lost.
WorkerStarts ==
  /\ worker.up = "no"
  /\ worker' = [worker EXCEPT !.up = "yes", !.row = "live"]
  /\ UNCHANGED <<row, calls, reports, monitor, opened, minted, faults>>

\* principal, then recordHeartbeat: a lost worker's credential does not resolve.
Heartbeat ==
  /\ worker.up = "yes" /\ worker.row \in {"late", "overdue"}
  /\ worker' = [worker EXCEPT !.row = "live"]
  /\ UNCHANGED <<row, calls, reports, monitor, opened, minted, faults>>

\* Time passes without a heartbeat: past the degraded budget, then the lost one.
Silence ==
  /\ worker.row \in {"live", "late"}
  /\ worker' = [worker EXCEPT !.row = IF @ = "live" THEN "late" ELSE "overdue"]
  /\ IF worker.up = "no" THEN UNCHANGED faults ELSE Fault
  /\ UNCHANGED <<row, calls, reports, monitor, opened, minted>>

-----------------------------------------------------------------------------
(* sweepBrowserWorkers *)

\* The WHERE of liveSessions.
SeenLive(s) ==
  IF row[s].ended = "no" /\ row[s].status \in LiveStatuses THEN row[s].status ELSE "ABSENT"

\* A pass begins.  findSilent and transition: a worker past the lost budget is
\* lost (degraded changes no decision, so `late` stands for it as well); then
\* liveSessions.
BeginPass ==
  /\ monitor.pc = "idle"
  /\ worker' = [worker EXCEPT !.row = IF @ = "overdue" THEN "lost" ELSE @]
  /\ monitor' = [pc |-> "workers", seen |-> [s \in Sessions |-> SeenLive(s)], todo |-> {}]
  /\ UNCHANGED <<row, calls, reports, opened, minted, faults>>

Seen == {s \in Sessions : monitor.seen[s] # "ABSENT"}

\* Mutant: a lost worker is treated like a late one.
VerdictLate == "DEGRADED"

\* What a pass concludes about the sessions of a worker it will not ask.
Verdict == IF worker.row = "lost" THEN "FAILED" ELSE "DEGRADED"

\* schedulableRows decides: ask a live worker, judge the sessions of one that
\* is late or gone.
ReadWorkers ==
  /\ monitor.pc = "workers"
  /\ monitor' = IF worker.row = "live" THEN [monitor EXCEPT !.pc = "asking"]
                ELSE [monitor EXCEPT !.pc = "acting",
                        !.todo = {s \in Seen : Verdict = "DEGRADED" => monitor.seen[s] # "DEGRADED"}
                                   \X {Verdict}]
  /\ UNCHANGED <<row, calls, worker, reports, opened, minted, faults>>

\* Mutant: contexts nobody claims are left alone.
NoOrphans == {}

\* A context the rows read at the start of the pass do not account for.
Orphans == worker.contexts \ Seen

\* A session whose context is missing; ALLOCATING may not have one yet.
Missing == {s \in Seen \ worker.contexts : monitor.seen[s] \notin {"ALLOCATING", "DEGRADED"}}

\* client.contexts and the comparison.
ReadContexts ==
  /\ monitor.pc = "asking" /\ worker.up = "yes"
  /\ monitor' = [monitor EXCEPT !.pc = "acting",
                   !.todo = (Orphans \X {"orphan"}) \cup (Missing \X {"DEGRADED"})]
  /\ UNCHANGED <<row, calls, worker, reports, opened, minted, faults>>

\* The worker could not be asked: the pass is over for it.
ContextsUnread ==
  /\ monitor.pc = "asking"
  /\ ExchangeFails
  /\ monitor' = [monitor EXCEPT !.pc = "acting"]
  /\ UNCHANGED <<row, calls, worker, reports, opened, minted>>

TerminateOrphan(s) ==
  /\ monitor.pc = "acting" /\ <<s, "orphan">> \in monitor.todo
  /\ AskTerminate(s)
  /\ monitor' = [monitor EXCEPT !.todo = @ \ {<<s, "orphan">>}]
  /\ UNCHANGED <<row, calls, opened, minted>>

\* markReconciled reads the row again, but only for the status it would write.
MarkReconciled(s, status) ==
  /\ monitor.pc = "acting" /\ <<s, status>> \in monitor.todo
  /\ row' = IF row[s].status = status THEN row
            ELSE [row EXCEPT ![s] =
                    WithStatus(IF status = "FAILED" THEN Released(@) ELSE @, status)]
  /\ monitor' = [monitor EXCEPT !.todo = @ \ {<<s, status>>}]
  /\ UNCHANGED <<calls, worker, reports, opened, minted, faults>>

\* expires_at passes.
LeaseRunsOut(s) ==
  /\ row[s].lease = "live"
  /\ row' = [row EXCEPT ![s].lease = "expired"]
  /\ UNCHANGED <<calls, worker, reports, monitor, opened, minted, faults>>

\* Mutant: expires_at is written and never enforced.
ExpiryIgnored ==
  /\ monitor.pc = "acting" /\ monitor.todo = {}
  /\ monitor' = NoPass
  /\ UNCHANGED <<row, calls, worker, reports, opened, minted, faults>>

\* expireStaleLeases closes the pass.
ExpireStaleLeases ==
  /\ monitor.pc = "acting" /\ monitor.todo = {}
  /\ row' = [s \in Sessions |-> IF row[s].lease = "expired" THEN Released(row[s]) ELSE row[s]]
  /\ monitor' = NoPass
  /\ UNCHANGED <<calls, worker, reports, opened, minted, faults>>

\* The API process dies during a pass; the timer of its successor starts anew.
CrashPass ==
  /\ monitor.pc # "idle"
  /\ Fault
  /\ monitor' = NoPass
  /\ UNCHANGED <<row, calls, worker, reports, opened, minted>>

-----------------------------------------------------------------------------
ReserveNext ==
  \/ \E c \in Calls : CreateCount(c) \/ \E s \in Sessions : CreateInsert(c, s)
  \/ \E s \in Sessions : RequestAllocation(s)

AllocateNext ==
  \E c \in Calls :
    \/ \E s \in Sessions : \/ \E arg \in {"none", "route"} : AllocateRead(c, s, arg)
                           \/ CompletePending(c, s) \/ OverdueRead(c, s)
    \/ ClaimForAllocation(c) \/ Bind(c) \/ BindRefused(c) \/ WriteBinding(c)
    \/ WorkerAdmits(c) \/ WorkerRefusesProject(c) \/ AllocateLost(c)
    \/ SetReady(c) \/ WorkerRefused(c) \/ FailReservation(c) \/ DropContext(c)

EndNext ==
  \/ \E c \in Calls :
       \/ \E s \in Sessions : Terminate(c, s)
       \/ SetTerminating(c) \/ CloseContext(c) \/ SetTerminated(c)
       \/ CrashCall(c)
  \/ \E r \in reports : ApplyWorkerReport(r) \/ LoseReport(r)
  \/ \E s \in Sessions : RouteLost(s) \/ RouteContinued(s)

WorkerNext ==
  \/ \E s \in Sessions : \/ WorkerOpens(s) \/ LaunchFails(s) \/ Navigated(s)
                         \/ \E status \in Terminal : ContextEnds(s, status)
  \/ WorkerStops \/ WorkerStarts \/ Heartbeat \/ Silence

MonitorNext ==
  \/ BeginPass \/ ReadWorkers \/ ReadContexts \/ ContextsUnread
  \/ \E s \in Sessions : \/ TerminateOrphan(s) \/ LeaseRunsOut(s)
                         \/ \E status \in {"FAILED", "DEGRADED"} : MarkReconciled(s, status)
  \/ ExpireStaleLeases \/ CrashPass

Next == ReserveNext \/ AllocateNext \/ EndNext \/ WorkerNext \/ MonitorNext

(***************************************************************************)
(* Every await of a call that is running settles (the exchange with the    *)
(* worker has a timeout), the sweeps are timers of a process its           *)
(* supervisor keeps running, a running worker heartbeats, and clocks       *)
(* advance.  Nobody has to start a stopped worker, ask for anything, or    *)
(* end a session.                                                          *)
(***************************************************************************)
CallStep(c) ==
  \/ \E s \in Sessions : CreateInsert(c, s)
  \/ ClaimForAllocation(c) \/ Bind(c) \/ BindRefused(c) \/ WriteBinding(c)
  \/ WorkerAdmits(c) \/ WorkerRefusesProject(c) \/ AllocateLost(c)
  \/ SetReady(c) \/ WorkerRefused(c) \/ FailReservation(c) \/ DropContext(c)
  \/ SetTerminating(c) \/ CloseContext(c) \/ SetTerminated(c)

MonitorStep ==
  \/ BeginPass \/ ReadWorkers \/ ReadContexts \/ ContextsUnread
  \/ \E s \in Sessions : \/ TerminateOrphan(s)
                         \/ \E status \in {"FAILED", "DEGRADED"} : MarkReconciled(s, status)
  \/ ExpireStaleLeases

Fairness ==
  /\ \A c \in Calls : WF_vars(CallStep(c))
  /\ \A s \in Sessions :
       /\ WF_vars(WorkerOpens(s) \/ LaunchFails(s))
       /\ WF_vars(\E c \in Calls : CompletePending(c, s))
       /\ WF_vars(\E c \in Calls : OverdueRead(c, s))
       /\ WF_vars(LeaseRunsOut(s))
  /\ WF_vars(MonitorStep)
  /\ WF_vars(Heartbeat)

Spec == Init /\ [][Next]_vars
FairSpec == Spec /\ Fairness

-----------------------------------------------------------------------------
(* Properties *)

\* The variables keep their shapes; an ended status is stamped, and the worker
\* holds nothing for a session that was never claimed.
TypeOK ==
  /\ row \in [Sessions -> Row]
  /\ calls \in [Calls -> Call]
  /\ worker \in Worker
  /\ reports \subseteq Report
  /\ monitor \in Monitor
  /\ opened \in [Sessions -> Nat] /\ minted \in [Sessions -> Nat]
  /\ \A s \in Sessions : row[s].status \in Terminal => row[s].ended = "yes"
  /\ \A s \in Sessions : worker.launching[s] > 0 \/ s \in worker.contexts
                          => row[s].status \notin {"ABSENT", "REQUESTED"}

\* However many API replicas and sweeps take up one reservation, it costs one
\* browser and one capability (service.ts:556 "two allocators cost one wasted
\* read rather than two browsers").
OneBrowserPerReservation == \A s \in Sessions : opened[s] <= 1 /\ minted[s] <= 1

\* A reservation that asked for a route is bound to it or answered, though the
\* process that claimed it died before binding (service.ts:872).
RequestIsAnswered ==
  \A s \in Sessions :
    row[s].route = "requested"
      ~> row[s].route # "requested" \/ row[s].status \notin {"REQUESTED", "ALLOCATING"}

\* A browser that outlives its session's record, because it opened late or the
\* worker missed the call that ended it, is closed by the reconciler, unless
\* the worker is lost (monitor.ts:190).
OrphansAreClosed ==
  \A s \in Sessions :
    s \in worker.contexts /\ row[s].ended = "yes"
      ~> s \notin worker.contexts \/ worker.row = "lost"

\* The sessions of a lost worker end: none stays live on a worker nobody can
\* ask (monitor.ts:157).
LostWorkerEndsSessions ==
  \A s \in Sessions :
    worker.row = "lost" /\ row[s].ended = "no" /\ row[s].status \in LiveStatuses
      ~> row[s].ended = "yes" \/ row[s].status = "TERMINATING" \/ worker.row # "lost"

\* An ended session holds no lease in the end, also on the path that fails an
\* allocation without revoking its lease (monitor.ts:91, service.ts:679).
EndedReleasesLease ==
  \A s \in Sessions : row[s].ended = "yes" ~> row[s].lease \notin {"live", "expired"}
=============================================================================
