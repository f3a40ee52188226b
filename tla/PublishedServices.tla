--------------------------- MODULE PublishedServices ---------------------------
(***************************************************************************)
(* Published services: the records the control plane keeps of the routes   *)
(* it asked for, and the calls that bring them into agreement with the     *)
(* connector and the tunnel gateway (modules/published-services).  The     *)
(* gateway is what its client sees of it: which routes it carries and      *)
(* which capabilities it refuses; GatewayRegistry is its inside.           *)
(*                                                                         *)
(* A call is a sequence of steps, one for each await another actor can see *)
(* the effect of.  The browser session the services are published for is   *)
(* one, live until it ends.  Time is the facts the queries derive from it: *)
(* a record is older than the completion grace, its lifetime has run out.  *)
(***************************************************************************)
EXTENDS Integers, FiniteSets

CONSTANTS
  Services,   \* published service identifiers, which are the route identifiers
  Caps,       \* capability identifiers
  Calls,      \* calls in progress in the API processes, sweeps included
  MaxFaults   \* bound on faults: a call dies, an exchange fails, the gateway restarts

ASSUME ServiceConstants == MaxFaults \in Nat /\ Services \cap Caps = {}

VARIABLES
  svc,      \* the published_services rows
  carried,  \* the routes the gateway carries
  cap,      \* the route_capabilities rows and the signed tokens
  refused,  \* the capabilities the gateway has a withdrawal for
  session,  \* the browser session: live, degraded or ended
  withdrawn,\* whether the capabilities of the ended session were withdrawn
  calls,    \* the calls in progress
  late,     \* history: services registered after their ending had begun
  faults    \* how many faults there were

vars == <<svc, carried, cap, refused, session, withdrawn, calls, late, faults>>

Ended == {"failed", "revoked", "expired"}
Pending == {"requested", "ready"}
Service == [status : {"absent"} \cup Pending \cup Ended,
            aged : {"no", "yes"},   \* older than the grace
            due : {"no", "yes"}]    \* expires_at has passed
\* of: the service a capability was signed for.
Capability == [row : {"none", "signed", "written", "live", "revoked", "discarded"},
               of : SUBSET Services]
Idle == [pc |-> "idle", kind |-> "none", at |-> {}, todo |-> {}, lapsed |-> {}]
\* at: what the call is working on; todo: what it still has to end; lapsed: what it
\* read as past its lifetime and will write down as expired.
Call == [pc : {"idle", "publish", "waiting", "register", "ready", "failing", "ending",
               "end", "sessions", "sign", "insert", "commit", "withdraw", "rows"},
         kind : {"none", "complete", "revoke", "expire", "connector", "reconcile",
                 "resume", "mint", "session"},
         at : SUBSET (Services \cup Caps), todo : SUBSET (Services \cup Caps),
         lapsed : SUBSET Services]

TypeOK ==
  /\ svc \in [Services -> Service]
  /\ carried \subseteq Services
  /\ cap \in [Caps -> Capability]
  /\ refused \subseteq Caps
  /\ session \in {"live", "degraded", "ended"}
  /\ withdrawn \in {"no", "yes"}
  /\ calls \in [Calls -> Call]
  /\ late \subseteq Services
  /\ faults \in 0..MaxFaults

Init ==
  /\ svc = [s \in Services |-> [status |-> "absent", aged |-> "no", due |-> "no"]]
  /\ carried = {} /\ refused = {}
  /\ cap = [c \in Caps |-> [row |-> "none", of |-> {}]]
  /\ session = "live" /\ withdrawn = "no"
  /\ calls = [p \in Calls |-> Idle]
  /\ late = {} /\ faults = 0

-----------------------------------------------------------------------------
(* Helpers *)

Set(p, c) == calls' = [calls EXCEPT ![p] = c]
Goto(p, pc) == Set(p, [calls[p] EXCEPT !.pc = pc])
At(p, pc, x) == calls[p].pc = pc /\ calls[p].at = {x}
\* One more fault happens.
Fault == faults < MaxFaults /\ faults' = faults + 1

\* The pending entry of ControlChannelRegistry.publish: somebody awaits an
\* acknowledgement for this route.
Awaited(s) == \E p \in Calls : At(p, "waiting", s)

\* Somebody has told the gateway to drop this route and not yet written it down.
Ending(s) == \E p \in Calls : At(p, "end", s)

\* Whether registering this route now comes after its ending began.
Late(s) == IF s \notin carried /\ (svc[s].status # "requested" \/ Ending(s)) THEN {s} ELSE {}

\* gateway.revokeRoute: a route the gateway carries is withdrawn with every
\* capability signed for it so far; one it does not carry is answered 404.
GatewayRevoke(s) ==
  /\ carried' = carried \ {s}
  /\ refused' = IF s \in carried
                THEN refused \cup {c \in Caps : cap[c].row # "none" /\ cap[c].of = {s}}
                ELSE refused

-----------------------------------------------------------------------------
(* Publication *)

\* request: the record is inserted.  The API goes on with complete in the same
\* call; the MCP server has no channel to the connector and leaves it at that.
Request(s) ==
  /\ svc[s].status = "absent" /\ session # "ended"
  /\ svc' = [svc EXCEPT ![s].status = "requested"]
  /\ UNCHANGED <<carried, cap, refused, session, withdrawn, calls, late, faults>>

Create(p, s) ==
  /\ calls[p].pc = "idle"
  /\ svc[s].status = "absent" /\ session # "ended"
  /\ svc' = [svc EXCEPT ![s].status = "requested"]
  /\ Set(p, [Idle EXCEPT !.pc = "publish", !.kind = "complete", !.at = {s}])
  /\ UNCHANGED <<carried, cap, refused, session, withdrawn, late, faults>>

\* Mutant: the sweep only takes up what has expired.
PendingOnlyWhenDue(s) == svc[s].status = "requested" /\ svc[s].due = "yes"

\* findPending.
FindPending(s) == svc[s].status = "requested" /\ svc[s].aged = "yes"

\* completePending reaches a record and complete reads it as requested.  Nothing
\* keeps one pass, or one replica, from overlapping another.
SweepComplete(p, s) ==
  /\ calls[p].pc = "idle"
  /\ FindPending(s)
  /\ Set(p, [Idle EXCEPT !.pc = "publish", !.kind = "complete", !.at = {s}])
  /\ UNCHANGED <<svc, carried, cap, refused, session, withdrawn, late, faults>>

\* channels.publish: refused when the route is already being published, else sent.
Publish(p, s) ==
  /\ At(p, "publish", s)
  /\ IF Awaited(s) THEN Goto(p, "failing") ELSE Goto(p, "waiting")
  /\ UNCHANGED <<svc, carried, cap, refused, session, withdrawn, late, faults>>

\* The connector acknowledges.
PublishAck(p, s) ==
  /\ At(p, "waiting", s)
  /\ Goto(p, "register")
  /\ UNCHANGED <<svc, carried, cap, refused, session, withdrawn, late, faults>>

\* The connector is offline, refuses, disconnects or does not answer in time.
PublishRefused(p, s) ==
  /\ calls[p].pc \in {"publish", "waiting"} /\ calls[p].at = {s}
  /\ Goto(p, "failing")
  /\ UNCHANGED <<svc, carried, cap, refused, session, withdrawn, late, faults>>

\* gateway.register: a route it already carries is a conflict.
GatewayRegister(p, s) ==
  /\ At(p, "register", s)
  /\ IF s \in carried THEN Goto(p, "failing") ELSE Goto(p, "ready")
  /\ carried' = carried \cup {s}
  /\ late' = late \cup Late(s)
  /\ UNCHANGED <<svc, cap, refused, session, withdrawn, faults>>

\* The exchange with the gateway fails; the gateway may have acted on it.
GatewayRegisterFails(p, s, heard) ==
  /\ At(p, "register", s) /\ Fault
  /\ Goto(p, "failing")
  /\ carried' = IF heard = "yes" THEN carried \cup {s} ELSE carried
  /\ late' = IF heard = "yes" THEN late \cup Late(s) ELSE late
  /\ UNCHANGED <<svc, cap, refused, session, withdrawn>>

\* Mutant: the record is marked ready whatever became of it meanwhile.
MarkReadyUnguarded(p, s) ==
  /\ At(p, "ready", s)
  /\ svc' = [svc EXCEPT ![s].status = "ready"] /\ Set(p, Idle)
  /\ UNCHANGED <<carried, cap, refused, session, withdrawn, late, faults>>

\* markReady: only a record that is still requested.
MarkReady(p, s) ==
  /\ At(p, "ready", s)
  /\ IF svc[s].status = "requested"
     THEN svc' = [svc EXCEPT ![s].status = "ready"] /\ Set(p, Idle)
     ELSE Goto(p, "failing") /\ UNCHANGED svc
  /\ UNCHANGED <<carried, cap, refused, session, withdrawn, late, faults>>

\* complete's catch: markFailed accepts a requested and a ready record.
MarkFailed(p, s) ==
  /\ At(p, "failing", s)
  /\ svc' = IF svc[s].status \in Pending
            THEN [svc EXCEPT ![s].status = "failed"]
            ELSE svc
  /\ Set(p, Idle)
  /\ UNCHANGED <<carried, cap, refused, session, withdrawn, late, faults>>

-----------------------------------------------------------------------------
(* Ending *)

\* revoke has read the record, whatever its status.
BeginRevoke(p, s) ==
  /\ calls[p].pc = "idle" /\ svc[s].status # "absent"
  /\ Set(p, [Idle EXCEPT !.pc = "ending", !.kind = "revoke", !.todo = {s}])
  /\ UNCHANGED <<svc, carried, cap, refused, session, withdrawn, late, faults>>

\* Mutant: the sweep looks for records that never became ready.
DueRequested == {s \in Services : svc[s].status = "requested" /\ svc[s].due = "yes"}

\* findDueForExpiry.
Due == {s \in Services : svc[s].status \in Pending /\ svc[s].due = "yes"}

\* expireDue has listed the records that are due.
BeginExpire(p) ==
  /\ calls[p].pc = "idle" /\ Due # {}
  /\ Set(p, [Idle EXCEPT !.pc = "ending", !.kind = "expire", !.todo = Due,
                         !.lapsed = Due])
  /\ UNCHANGED <<svc, carried, cap, refused, session, withdrawn, late, faults>>

\* revokeConnectorRoutes has listed the connector's records.
BeginRevokeConnector(p) ==
  /\ calls[p].pc = "idle"
  /\ LET live == {s \in Services : svc[s].status \in Pending}
     IN  live # {} /\ Set(p, [Idle EXCEPT !.pc = "ending", !.kind = "connector",
                                          !.todo = live])
  /\ UNCHANGED <<svc, carried, cap, refused, session, withdrawn, late, faults>>

\* reconcileRoutes: a claimed route whose record is mid-publication is closed as
\* revoked, any ready record past its expiry as expired.  (A claim about another
\* project, workspace or destination is closed the same way.)
Lapsed == {s \in Services : svc[s].status = "ready" /\ svc[s].due = "yes"}
Closed(claimed) == Lapsed \cup {s \in claimed : svc[s].status = "requested"}

\* reconcile has read the records and decided; what is left to continue resumes
\* the session.
BeginReconcile(p, claimed) ==
  /\ calls[p].pc = "idle"
  /\ \A s \in claimed : svc[s].status # "absent"
  /\ Closed(claimed) # {} \/ session = "degraded"
  /\ LET continued == {s \in Services : svc[s].status = "ready"} \ Closed(claimed)
     IN  Set(p, [Idle EXCEPT !.pc = "ending", !.todo = Closed(claimed), !.lapsed = Lapsed,
                   !.kind = IF continued = {} THEN "reconcile" ELSE "resume"])
  /\ UNCHANGED <<svc, carried, cap, refused, session, withdrawn, late, faults>>

\* Mutant: the record is ended without telling the gateway.
SkipGateway(p, s) ==
  /\ calls[p].pc = "ending" /\ s \in calls[p].todo
  /\ Set(p, [calls[p] EXCEPT !.pc = "end", !.todo = @ \ {s}, !.at = {s}])
  /\ UNCHANGED <<svc, carried, cap, refused, session, withdrawn, late, faults>>

\* The gateway is told first.
TellGateway(p, s) ==
  /\ calls[p].pc = "ending" /\ s \in calls[p].todo
  /\ GatewayRevoke(s)
  /\ Set(p, [calls[p] EXCEPT !.pc = "end", !.todo = @ \ {s}, !.at = {s}])
  /\ UNCHANGED <<svc, cap, session, withdrawn, late, faults>>

\* The gateway cannot be reached: the call throws, and the rest of its list waits
\* for the next one.
TellGatewayFails(p, s) ==
  /\ calls[p].pc = "ending" /\ s \in calls[p].todo /\ Fault
  /\ Set(p, Idle)
  /\ UNCHANGED <<svc, carried, cap, refused, session, withdrawn, late>>

\* markEnded and revokeCapabilitiesForService, in one transaction.
EndRecord(p, s) ==
  /\ At(p, "end", s)
  /\ IF svc[s].status \in Pending
     THEN /\ svc' = [svc EXCEPT ![s].status =
                       IF s \in calls[p].lapsed THEN "expired" ELSE "revoked"]
          /\ cap' = [c \in Caps |-> IF cap[c].of = {s} /\ cap[c].row = "live"
                                    THEN [cap[c] EXCEPT !.row = "revoked"] ELSE cap[c]]
     ELSE UNCHANGED <<svc, cap>>
  /\ Set(p, [calls[p] EXCEPT !.pc = "ending", !.at = {}])
  /\ UNCHANGED <<carried, refused, session, withdrawn, late, faults>>

\* The list is done.  Reconciliation resumes a degraded session a continued route
\* names; a connector's revocation degrades it.
EndingDone(p) ==
  /\ calls[p].pc = "ending" /\ calls[p].todo = {}
  /\ session' = CASE calls[p].kind = "resume" /\ session = "degraded" -> "live"
                  [] calls[p].kind = "connector" /\ session = "live" -> "degraded"
                  [] OTHER -> session
  /\ Set(p, Idle)
  /\ UNCHANGED <<svc, carried, cap, refused, withdrawn, late, faults>>

\* handleDisconnect: the connector's channel closed.
Disconnect ==
  /\ session = "live" /\ session' = "degraded"
  /\ UNCHANGED <<svc, carried, cap, refused, withdrawn, calls, late, faults>>

-----------------------------------------------------------------------------
(* Capabilities *)

\* mint has read a ready record; whether the session may hold a capability is for
\* the insert to ask.
MintRead(p, s, c) ==
  /\ calls[p].pc = "idle" /\ cap[c].row = "none"
  /\ \A q \in Calls : c \notin calls[q].at
  /\ svc[s].status = "ready" /\ svc[s].due = "no"
  /\ Set(p, [Idle EXCEPT !.pc = "sign", !.kind = "mint", !.at = {c}, !.todo = {s}])
  /\ UNCHANGED <<svc, carried, cap, refused, session, withdrawn, late, faults>>

\* The token is signed with the current instant.
MintSign(p, c) ==
  /\ At(p, "sign", c)
  /\ cap' = [cap EXCEPT ![c] = [row |-> "signed", of |-> calls[p].todo]]
  /\ Goto(p, "insert")
  /\ UNCHANGED <<svc, carried, refused, session, withdrawn, late, faults>>

\* The predicate of insertCapability.
SessionNotEnded == session # "ended"

\* insertCapability's statement runs; nobody sees the row before the commit.
MintInsert(p, c) ==
  /\ At(p, "insert", c)
  /\ IF SessionNotEnded
     THEN Goto(p, "commit") /\ cap' = [cap EXCEPT ![c].row = "written"]
     ELSE Set(p, Idle) /\ cap' = [cap EXCEPT ![c].row = "discarded"]
  /\ UNCHANGED <<svc, carried, refused, session, withdrawn, late, faults>>

\* The transaction commits and the capability is handed out.
MintCommit(p, c) ==
  /\ At(p, "commit", c)
  /\ cap' = [cap EXCEPT ![c].row = "live"]
  /\ Set(p, Idle)
  /\ UNCHANGED <<svc, carried, refused, session, withdrawn, late, faults>>

\* The session ends.  An insert that is on its way to its commit is not seen by the
\* withdrawal that follows.
SessionEnds ==
  /\ session # "ended" /\ session' = "ended"
  /\ UNCHANGED <<svc, carried, cap, refused, withdrawn, calls, late, faults>>

\* revokeCapabilitiesForSession has listed the live capabilities.
BeginWithdraw(p) ==
  /\ calls[p].pc = "idle" /\ session = "ended" /\ withdrawn = "no"
  /\ Set(p, [Idle EXCEPT !.pc = "withdraw", !.kind = "session",
                         !.todo = {c \in Caps : cap[c].row = "live"}])
  /\ UNCHANGED <<svc, carried, cap, refused, session, withdrawn, late, faults>>

\* gateway.revokeCapability for one of them; a failure is swallowed.
WithdrawOne(p, c, heard) ==
  /\ calls[p].pc = "withdraw" /\ c \in calls[p].todo
  /\ IF heard = "yes"
     THEN refused' = refused \cup {c} /\ UNCHANGED faults
     ELSE Fault /\ UNCHANGED refused
  /\ Set(p, [calls[p] EXCEPT !.todo = @ \ {c}])
  /\ UNCHANGED <<svc, carried, cap, session, withdrawn, late>>

\* The rows are revoked.
WithdrawRows(p) ==
  /\ calls[p].pc = "withdraw" /\ calls[p].todo = {}
  /\ cap' = [c \in Caps |-> IF cap[c].row = "live" THEN [cap[c] EXCEPT !.row = "revoked"]
                            ELSE cap[c]]
  /\ withdrawn' = "yes"
  /\ Set(p, Idle)
  /\ UNCHANGED <<svc, carried, refused, session, late, faults>>

-----------------------------------------------------------------------------
(* Time and faults *)

\* PENDING_GRACE_MS have passed since the record was requested.
Age(s) ==
  /\ svc[s].status = "requested" /\ svc[s].aged = "no"
  /\ svc' = [svc EXCEPT ![s].aged = "yes"]
  /\ UNCHANGED <<carried, cap, refused, session, withdrawn, calls, late, faults>>

\* expires_at passes; the gateway reads the same instant and ends its route.
Expires(s) ==
  /\ svc[s].status # "absent" /\ svc[s].due = "no"
  /\ svc' = [svc EXCEPT ![s].due = "yes"]
  /\ UNCHANGED <<carried, cap, refused, session, withdrawn, calls, late, faults>>

GatewayExpires(s) ==
  /\ svc[s].due = "yes" /\ s \in carried
  /\ GatewayRevoke(s)
  /\ UNCHANGED <<svc, cap, session, withdrawn, calls, late, faults>>

\* The gateway restarts: it keeps what it has refused and no route.
GatewayRestart ==
  /\ carried # {} /\ Fault
  /\ carried' = {}
  /\ UNCHANGED <<svc, cap, refused, session, withdrawn, calls, late>>

\* The process dies under a call; an insert on its way is rolled back.
CallDies(p) ==
  /\ calls[p].pc # "idle" /\ Fault
  /\ Set(p, Idle)
  /\ cap' = [c \in Caps |-> IF calls[p].pc \in {"insert", "commit"} /\ c \in calls[p].at
                            THEN [cap[c] EXCEPT !.row = "discarded"] ELSE cap[c]]
  /\ UNCHANGED <<svc, carried, refused, session, withdrawn, late>>

-----------------------------------------------------------------------------
Publication ==
  \E s \in Services :
    \/ Request(s)
    \/ \E p \in Calls :
         \/ Create(p, s) \/ SweepComplete(p, s) \/ Publish(p, s) \/ PublishAck(p, s)
         \/ PublishRefused(p, s) \/ GatewayRegister(p, s)
         \/ \E heard \in {"no", "yes"} : GatewayRegisterFails(p, s, heard)
         \/ MarkReady(p, s) \/ MarkFailed(p, s)

Withdrawal ==
  \E p \in Calls :
    \/ \E s \in Services :
         \/ BeginRevoke(p, s) \/ TellGateway(p, s) \/ TellGatewayFails(p, s)
         \/ EndRecord(p, s)
    \/ BeginExpire(p) \/ BeginRevokeConnector(p) \/ EndingDone(p)
    \/ \E claimed \in SUBSET Services : BeginReconcile(p, claimed)

Minting ==
  \/ \E p \in Calls, c \in Caps :
       \/ \E s \in Services : MintRead(p, s, c)
       \/ MintSign(p, c) \/ MintInsert(p, c) \/ MintCommit(p, c)
       \/ \E heard \in {"no", "yes"} : WithdrawOne(p, c, heard)
  \/ \E p \in Calls : BeginWithdraw(p) \/ WithdrawRows(p)

Environment ==
  \/ \E s \in Services : Age(s) \/ Expires(s) \/ GatewayExpires(s)
  \/ SessionEnds \/ Disconnect \/ GatewayRestart
  \/ \E p \in Calls : CallDies(p)

Next == Publication \/ Withdrawal \/ Minting \/ Environment

\* What the code schedules by itself: the completion sweep, the expiry sweep, the
\* passing of the grace, and the steps of a call once it has begun (every wait in
\* it has a timeout).  The sweeps run on timers of their own; their fairness is
\* strong because the model lets other calls occupy all its slots.
Proceed(p) ==
  \/ \E s \in Services :
       \/ Publish(p, s) \/ PublishAck(p, s) \/ PublishRefused(p, s)
       \/ GatewayRegister(p, s) \/ MarkReady(p, s) \/ MarkFailed(p, s)
       \/ TellGateway(p, s) \/ EndRecord(p, s)
  \/ EndingDone(p)
  \/ \E c \in Caps : MintSign(p, c) \/ MintInsert(p, c) \/ MintCommit(p, c)
                     \/ WithdrawOne(p, c, "yes")
  \/ WithdrawRows(p)

Fairness ==
  /\ \A p \in Calls : WF_vars(Proceed(p))
  /\ \A s \in Services :
       /\ WF_vars(Age(s))
       /\ SF_vars(\E p \in Calls : SweepComplete(p, s))
  /\ SF_vars(\E p \in Calls : BeginExpire(p))

Spec == Init /\ [][Next]_vars
FairSpec == Spec /\ Fairness

-----------------------------------------------------------------------------
(* Properties *)

\* A record that was revoked or has expired is a route the gateway no longer
\* carries, whatever fails and whoever else is at work on it, unless a completion
\* registered the route when its ending had already begun (revoke, expireDue and
\* reconcile tell the gateway before they write).
RevokedMeansClosed ==
  \A s \in Services : svc[s].status \in {"revoked", "expired"} => s \notin carried \/ s \in late

\* An ended record never changes again, though completion, revocation, expiry and
\* reconciliation overlap and each writes on what it read several awaits earlier
\* (markReady, markFailed and markEnded ask for the status in the statement that
\* writes it).
EndedIsFinal ==
  [][\A s \in Services : svc[s].status \in Ended => svc'[s].status = svc[s].status]_vars

\* Nothing stays requested for ever, whichever process asked for it and whatever
\* dies on the way (completePending).
RequestIsSettled == \A s \in Services : svc[s].status = "requested" ~> svc[s].status # "requested"

\* A record whose lifetime has run out ends, though a failed call to the gateway
\* drops it from a pass of the sweep (expireDue).
ExpiredIsEnded ==
  \A s \in Services : svc[s].status = "ready" /\ svc[s].due = "yes" ~> svc[s].status \in Ended
=============================================================================
