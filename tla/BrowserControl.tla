---------------------------- MODULE BrowserControl ----------------------------
(***************************************************************************)
(* Control of one browser session: the controller-facing methods of        *)
(* modules/browser-sessions/service.ts (requestControl, releaseControl,    *)
(* runCommand, pause, resume, end), the control_leases table of migration  *)
(* 0043, the lease expiry of monitor.ts, and the browser worker's own      *)
(* check of every command (browser-worker/src/session/control.ts).         *)
(*                                                                         *)
(* Each call is a sequence of steps, one for each database statement,      *)
(* transaction or worker request, because every one of them is an await    *)
(* at which the calls of other clients and other API replicas run.  A      *)
(* transaction of control is two steps under READ COMMITTED: the snapshot  *)
(* its first UPDATE takes of the live leases, and its commit.  A refused   *)
(* call writes only an event, so it is a stuttering step; so are refusals  *)
(* by the policy and route checks, which the properties do not need.       *)
(***************************************************************************)
EXTENDS Integers, FiniteSets

CONSTANTS
  Agents,     \* controllers of type 'agent'
  Systems,    \* controllers of type 'system': signed-in humans
  Nobody,     \* the null current_controller
  Transfers,  \* calls that change who is in control
  Calls,      \* calls that use control
  MaxEpoch,   \* bound on the epoch
  MaxSeq      \* bound on the command sequence

ASSUME ControlConstants ==
  /\ MaxEpoch \in Nat \ {0} /\ MaxSeq \in Nat
  /\ Agents \cap Systems = {}
  /\ Nobody \notin Agents \cup Systems
  /\ Transfers \cap Calls = {}

VARIABLES
  session,   \* the browser_sessions row
  leases,    \* the control_leases rows, by epoch (control_leases_epoch_unique)
  transfers, \* the control changes in progress
  calls,     \* the other calls in progress
  context,   \* the browser worker's view of the session
  executed   \* how often the worker has run each sequence number

vars == <<session, leases, transfers, calls, context, executed>>

Controllers == Agents \cup Systems
Epochs == 1..MaxEpoch
Seqs == 0..MaxSeq
Interactive == "interactive"
Capture == "capture"

Session == [status : {"READY", "ACTIVE", "PAUSED", "TERMINATING", "TERMINATED"},
            ended : {"no", "yes"},
            controller : Controllers \cup {Nobody},
            epoch : Epochs,
            lastSeq : {-1} \cup Seqs]
Lease == [holder : Controllers \cup {Nobody}, state : {"absent", "live", "revoked"}]
\* seen: the leases the transaction's snapshot found live; epoch: the one it will write.
TransferCall == [pc : {"idle", "read", "snapshot"},
                 act : {"request", "release"},
                 who : Controllers \cup {Nobody},
                 epoch : Epochs,
                 seen : SUBSET Epochs]
\* status, seq: what the call read of the row; ok: the worker's answer.
Call == [pc : {"idle", "authorised", "dispatched", "answered", "pausing", "resuming",
               "ending", "terminating", "closing", "revoking", "closed"},
         who : Controllers \cup {Nobody},
         kind : {Interactive, Capture},
         epoch : Epochs,
         status : {"READY", "ACTIVE", "PAUSED"},
         seq : Seqs,
         ok : {"yes", "no"}]
Context == [state : {"open", "gone"},
            epoch : Epochs,
            controller : Controllers,
            lastSeq : {-1} \cup Seqs]

NoTransfer == [pc |-> "idle", act |-> "request", who |-> Nobody, epoch |-> 1, seen |-> {}]
NoCall == [pc |-> "idle", who |-> Nobody, kind |-> Interactive, epoch |-> 1,
           status |-> "READY", seq |-> 0, ok |-> "no"]

LiveLeases == {e \in Epochs : leases[e].state = "live"}
Revoke(ls, es) == [e \in Epochs |-> IF e \in es /\ ls[e].state = "live"
                                    THEN [ls[e] EXCEPT !.state = "revoked"] ELSE ls[e]]

\* A session just allocated: the lease of create() and the context the worker
\* opened with the same epoch and controller.
Init ==
  \E k \in Controllers :
    /\ session = [status |-> "READY", ended |-> "no", controller |-> k,
                  epoch |-> 1, lastSeq |-> -1]
    /\ leases = [e \in Epochs |-> IF e = 1 THEN [holder |-> k, state |-> "live"]
                                  ELSE [holder |-> Nobody, state |-> "absent"]]
    /\ transfers = [t \in Transfers |-> NoTransfer]
    /\ calls = [c \in Calls |-> NoCall]
    /\ context = [state |-> "open", epoch |-> 1, controller |-> k, lastSeq |-> -1]
    /\ executed = [s \in Seqs |-> 0]

-----------------------------------------------------------------------------
(* Changing control *)

\* requestControl up to its transaction.  The routes admit only system
\* controllers; asking again for control one holds returns at once.
RequestControl(t, who) ==
  /\ transfers[t].pc = "idle"
  /\ session.ended = "no" /\ session.status # "TERMINATED"
  /\ session.controller # who
  /\ session.epoch < MaxEpoch
  /\ transfers' = [transfers EXCEPT ![t] =
       [pc |-> "read", act |-> "request", who |-> who, epoch |-> session.epoch + 1, seen |-> {}]]
  /\ UNCHANGED <<session, leases, calls, context, executed>>

\* Mutant: a release writes the epoch it read instead of the next.
ReleaseControlSameEpoch(t, who, e) ==
  /\ transfers[t].pc = "idle"
  /\ e = session.epoch
  /\ session.controller = who
  /\ transfers' = [transfers EXCEPT ![t] =
       [pc |-> "read", act |-> "release", who |-> who, epoch |-> session.epoch, seen |-> {}]]
  /\ UNCHANGED <<session, leases, calls, context, executed>>

\* releaseControl up to its transaction: the presented epoch must be the
\* session's and the caller its controller.
ReleaseControl(t, who, e) ==
  /\ transfers[t].pc = "idle"
  /\ e = session.epoch
  /\ session.controller = who
  /\ session.epoch < MaxEpoch
  /\ transfers' = [transfers EXCEPT ![t] =
       [pc |-> "read", act |-> "release", who |-> who, epoch |-> session.epoch + 1, seen |-> {}]]
  /\ UNCHANGED <<session, leases, calls, context, executed>>

\* The transaction's UPDATE control_leases ... WHERE revoked_at IS NULL starts:
\* it will touch the rows its snapshot shows, and no row committed later.
Snapshot(t) ==
  /\ transfers[t].pc = "read"
  /\ transfers' = [transfers EXCEPT ![t].pc = "snapshot", ![t].seen = LiveLeases]
  /\ UNCHANGED <<session, leases, calls, context, executed>>

\* Mutant: no unique constraint on the epoch, so two requests that read the same
\* epoch both commit.
CommitRequestAnyEpoch(t) ==
  LET e == transfers[t].epoch IN
  /\ transfers[t].pc = "snapshot" /\ transfers[t].act = "request"
  /\ leases' = [Revoke(leases, transfers[t].seen) EXCEPT
                  ![e] = [holder |-> transfers[t].who, state |-> "live"]]
  /\ session' = [session EXCEPT !.controller = transfers[t].who, !.epoch = e]
  /\ transfers' = [transfers EXCEPT ![t] = NoTransfer]
  /\ UNCHANGED <<calls, context, executed>>

\* The request's transaction commits: leases revoked, row rewritten, lease
\* inserted.  one_active_interactive does not cover 'system' leases.
CommitRequest(t) ==
  LET e == transfers[t].epoch IN
  /\ transfers[t].pc = "snapshot" /\ transfers[t].act = "request"
  /\ leases[e].state = "absent"
  /\ leases' = [Revoke(leases, transfers[t].seen) EXCEPT
                  ![e] = [holder |-> transfers[t].who, state |-> "live"]]
  /\ session' = [session EXCEPT !.controller = transfers[t].who, !.epoch = e]
  /\ transfers' = [transfers EXCEPT ![t] = NoTransfer]
  /\ UNCHANGED <<calls, context, executed>>

\* The release's transaction commits; it inserts nothing a constraint refuses.
CommitRelease(t) ==
  /\ transfers[t].pc = "snapshot" /\ transfers[t].act = "release"
  /\ leases' = Revoke(leases, transfers[t].seen)
  /\ session' = [session EXCEPT !.controller = Nobody, !.epoch = transfers[t].epoch]
  /\ transfers' = [transfers EXCEPT ![t] = NoTransfer]
  /\ UNCHANGED <<calls, context, executed>>

\* The transaction rolls back: a lease exists at this epoch, PostgreSQL breaks
\* a deadlock, or the connection is lost.
Rollback(t) ==
  /\ transfers[t].pc \in {"read", "snapshot"}
  /\ transfers' = [transfers EXCEPT ![t] = NoTransfer]
  /\ UNCHANGED <<session, leases, calls, context, executed>>

\* expireStaleLeases: the lease is revoked; controller and epoch stay.
ExpireLease(e) ==
  /\ leases[e].state = "live"
  /\ leases' = Revoke(leases, {e})
  /\ UNCHANGED <<session, transfers, calls, context, executed>>

-----------------------------------------------------------------------------
(* Commands *)

\* runCommand reads the row and authoriseBrowserCommand admits the command.
RunCommand(c, who, e, kind) ==
  /\ calls[c].pc = "idle"
  /\ session.status \in {"READY", "ACTIVE"} \cup (IF kind = Capture THEN {"PAUSED"} ELSE {})
  /\ e = session.epoch
  /\ session.controller = who \/ (kind = Capture /\ who \in Systems)
  /\ session.lastSeq < MaxSeq
  /\ calls' = [calls EXCEPT ![c] =
       [NoCall EXCEPT !.pc = "authorised", !.who = who, !.kind = kind, !.epoch = e,
                      !.status = session.status, !.seq = session.lastSeq + 1]]
  /\ UNCHANGED <<session, leases, transfers, context, executed>>

\* UPDATE ... SET last_sequence, from the value read and without a guard.
WriteSequence(c) ==
  /\ calls[c].pc = "authorised"
  /\ session' = [session EXCEPT !.lastSeq = calls[c].seq]
  /\ calls' = [calls EXCEPT ![c].pc = "dispatched"]
  /\ UNCHANGED <<leases, transfers, context, executed>>

\* Mutant: the worker takes a sequence equal to the last it accepted.
AcceptsRepeated(k) ==
  /\ context.state = "open"
  /\ k.epoch = context.epoch
  /\ k.seq >= context.lastSeq
  /\ k.who = context.controller \/ (k.kind = Capture /\ k.who \in Systems)

\* authoriseCommand on the worker, after acceptsCommands and browserAlive.
WorkerAccepts(k) ==
  /\ context.state = "open"
  /\ k.epoch = context.epoch
  /\ k.seq > context.lastSeq
  /\ k.who = context.controller \/ (k.kind = Capture /\ k.who \in Systems)

\* handleCommand: the sequence is recorded and the page operated.
Execute(c) ==
  /\ calls[c].pc = "dispatched"
  /\ WorkerAccepts(calls[c])
  /\ context' = [context EXCEPT !.lastSeq = calls[c].seq]
  /\ executed' = [executed EXCEPT ![calls[c].seq] = @ + 1]
  /\ calls' = [calls EXCEPT ![c].pc = "answered", ![c].ok = "yes"]
  /\ UNCHANGED <<session, leases, transfers>>

\* handleCommand answers with a refusal.
Refuse(c) ==
  /\ calls[c].pc = "dispatched"
  /\ ~WorkerAccepts(calls[c])
  /\ calls' = [calls EXCEPT ![c].pc = "answered", ![c].ok = "no"]
  /\ UNCHANGED <<session, leases, transfers, context, executed>>

\* The exchange with the worker fails or times out and runCommand throws: the
\* request was never delivered, or its answer is not recorded.
LoseCommand(c) ==
  /\ calls[c].pc \in {"dispatched", "answered"}
  /\ calls' = [calls EXCEPT ![c] = NoCall]
  /\ UNCHANGED <<session, leases, transfers, context, executed>>

\* The closing transaction: the first success after READY writes ACTIVE, on
\* the status read before the command ran.
RecordResult(c) ==
  /\ calls[c].pc = "answered"
  /\ session' = IF calls[c].ok = "yes" /\ calls[c].status = "READY"
                THEN [session EXCEPT !.status = "ACTIVE"] ELSE session
  /\ calls' = [calls EXCEPT ![c] = NoCall]
  /\ UNCHANGED <<leases, transfers, context, executed>>

\* The browser dies under the worker, which then holds no context for it.
LoseContext ==
  /\ context.state = "open"
  /\ context' = [context EXCEPT !.state = "gone"]
  /\ UNCHANGED <<session, leases, transfers, calls, executed>>

-----------------------------------------------------------------------------
(* Pause, resume and end *)

\* #requireControl: status, epoch, and a controller that is the caller or null.
HasControl(who, e, from) ==
  /\ session.status \in from
  /\ e = session.epoch
  /\ session.controller \in {Nobody, who}

\* The authorising read of pause, resume and end.
Begin(c, who, e, from, pc) ==
  /\ calls[c].pc = "idle"
  /\ HasControl(who, e, from)
  /\ calls' = [calls EXCEPT ![c] = [NoCall EXCEPT !.pc = pc, !.who = who, !.epoch = e]]
  /\ UNCHANGED <<session, leases, transfers, context, executed>>

\* #setStatus: the write names the row and nothing else.
SetStatus(c, from, status, next) ==
  /\ calls[c].pc = from
  /\ session' = [session EXCEPT !.status = status,
                   !.ended = IF status = "TERMINATED" THEN "yes" ELSE @]
  /\ calls' = [calls EXCEPT ![c] = [NoCall EXCEPT !.pc = next]]
  /\ UNCHANGED <<leases, transfers, context, executed>>

Pause(c, who, e) == Begin(c, who, e, {"READY", "ACTIVE"}, "pausing")
SetPaused(c) == SetStatus(c, "pausing", "PAUSED", "idle")
Resume(c, who, e) == Begin(c, who, e, {"PAUSED"}, "resuming")
SetResumed(c) == SetStatus(c, "resuming", "READY", "idle")
End(c, who, e) == Begin(c, who, e, {"READY", "ACTIVE", "PAUSED"}, "ending")

\* terminate reads the row again; a session already ended is left alone.
TerminateRead(c) ==
  /\ calls[c].pc = "ending"
  /\ calls' = [calls EXCEPT ![c] =
       IF session.status = "TERMINATED" THEN NoCall ELSE [NoCall EXCEPT !.pc = "terminating"]]
  /\ UNCHANGED <<session, leases, transfers, context, executed>>

SetTerminating(c) == SetStatus(c, "terminating", "TERMINATING", "closing")

\* The worker is asked to drop the context; a failed call is ignored.
WorkerTerminate(c) ==
  /\ calls[c].pc = "closing"
  /\ context' \in {context, [context EXCEPT !.state = "gone"]}
  /\ calls' = [calls EXCEPT ![c] = [NoCall EXCEPT !.pc = "revoking"]]
  /\ UNCHANGED <<session, leases, transfers, executed>>

\* #revokeLeases.
RevokeLeases(c) ==
  /\ calls[c].pc = "revoking"
  /\ leases' = Revoke(leases, LiveLeases)
  /\ calls' = [calls EXCEPT ![c] = [NoCall EXCEPT !.pc = "closed"]]
  /\ UNCHANGED <<session, transfers, context, executed>>

SetTerminated(c) == SetStatus(c, "closed", "TERMINATED", "idle")

-----------------------------------------------------------------------------
ControlNext ==
  \/ \E t \in Transfers : \/ \E who \in Systems : \/ RequestControl(t, who)
                                                  \/ \E e \in Epochs : ReleaseControl(t, who, e)
                          \/ Snapshot(t) \/ CommitRequest(t) \/ CommitRelease(t) \/ Rollback(t)
  \/ \E e \in Epochs : ExpireLease(e)

CommandNext ==
  \/ \E c \in Calls : \/ \E who \in Controllers, e \in Epochs, k \in {Interactive, Capture} :
                           RunCommand(c, who, e, k)
                      \/ WriteSequence(c) \/ Execute(c) \/ Refuse(c)
                      \/ LoseCommand(c) \/ RecordResult(c)
  \/ LoseContext

LifecycleNext ==
  \E c \in Calls : \/ \E who \in Controllers, e \in Epochs : \/ Pause(c, who, e)
                                                             \/ Resume(c, who, e)
                                                             \/ End(c, who, e)
                   \/ SetPaused(c) \/ SetResumed(c) \/ TerminateRead(c) \/ SetTerminating(c)
                   \/ WorkerTerminate(c) \/ RevokeLeases(c) \/ SetTerminated(c)

Next == ControlNext \/ CommandNext \/ LifecycleNext

Spec == Init /\ [][Next]_vars

-----------------------------------------------------------------------------
(* Properties *)

\* The rows, the calls in progress and the worker's context keep their shapes.
TypeOK ==
  /\ session \in Session
  /\ leases \in [Epochs -> Lease]
  /\ transfers \in [Transfers -> TransferCall]
  /\ calls \in [Calls -> Call]
  /\ context \in Context
  /\ executed \in [Seqs -> Nat]

\* The worker never runs one sequence number twice (control.ts: a sequence
\* that is not newer is refused), although concurrent runCommand calls read the
\* same last_sequence and may write it back to an earlier value.
SequenceRunsOnce == \A s \in Seqs : executed[s] <= 1

\* Once control has left the controller the session was allocated to, the
\* first epoch never comes back, however control changes interleave: commands
\* the first controller prepared stay refused by the control plane.
FirstEpochIsSpent == [][session.epoch # 1 => session.epoch' # 1]_vars

\* An interactive command the control plane has admitted and not yet answered.
InFlight(c) ==
  calls[c].pc \in {"authorised", "dispatched", "answered"} /\ calls[c].kind = Interactive

\* "exactly one interactive controller" is "true of commands in flight and not
\* only of the lease table" (service.ts:1951-1952): two interactive commands
\* that carry one epoch are one controller's, however requests, releases and
\* rollbacks overlap and wherever the epoch has moved since.
OneControllerPerEpoch ==
  \A c, d \in Calls :
    InFlight(c) /\ InFlight(d) /\ calls[c].epoch = calls[d].epoch => calls[c].who = calls[d].who

CL == INSTANCE ControlLease
        WITH holder <- session.controller, epoch <- session.epoch,
             granted <- [e \in Epochs |-> leases[e].holder], live <- LiveLeases

\* Control of a session implements ControlLease: no epoch is granted twice and
\* no lease comes back, with any number of control changes in progress
\* (service.ts:1985-2073, migration 0043).
RefinesLease == CL!LeaseSpec

=============================================================================
