--------------------------- MODULE ConnectorChannel ---------------------------
(***************************************************************************)
(* A connector as the control plane sees it: its record, its control       *)
(* sockets and the frames they carry (connectors/channel.ts), the registry *)
(* of the current socket and the publications awaiting an acknowledgement  *)
(* (publication.ts), the heartbeat monitor (monitor.ts), the exchange that *)
(* issues agent credentials to it (agent-credentials.ts) and the           *)
(* revocation of its identity (revocation.ts).                             *)
(*                                                                         *)
(* A connector reconnects by dialling a new socket, which may happen       *)
(* before the old one's close has been handled.  A handler is a sequence   *)
(* of steps, one for each query; transitionConnector is one step, because  *)
(* it reads and writes the status under a row lock.  The heartbeat's age   *)
(* is what the monitor's queries tell apart.                               *)
(***************************************************************************)
CONSTANTS
  Sockets,      \* control sockets, each used again once it is gone
  Routes,       \* routes being published through the connector
  Credentials   \* agent credential identifiers

ASSUME IdentifiersAssumption == Sockets \cap Credentials = {}

VARIABLES
  status,    \* connectors.status
  beat,      \* age of last_heartbeat_at: fresh, late (degraded_after), lost
  sock,      \* control sockets: the handler's position and the link
  current,   \* ControlChannelRegistry: the connector's socket
  pending,   \* publications awaiting an acknowledgement
  cred,      \* agent credentials issued to the connector
  monitor,   \* the monitor's sweep in progress
  revoker,   \* the revocation in progress and the socket it detached
  early      \* history: sockets let in before REVOKED was written, and credentials
             \* not yet issued when the sweep ran

channelVars == <<status, beat, sock, current, pending, cred, monitor, revoker, early>>

Statuses == {"NONE", "PENDING_ENROLMENT", "ACTIVE", "DEGRADED", "DISCONNECTED", "REVOKED"}
\* pc: where handleControlSocket is; frame: the heartbeat its queue is at.
Socket == [pc : {"none", "upgraded", "connected", "marked", "open", "refused", "leaving"},
           link : {"down", "up"}, frame : {"none", "recorded"}]
NoSocket == [pc |-> "none", link |-> "down", frame |-> "none"]

ChannelTypeOK ==
  /\ status \in Statuses
  /\ beat \in {"fresh", "late", "lost"}
  /\ sock \in [Sockets -> Socket]
  /\ current \subseteq Sockets /\ \A j, k \in current : j = k
  /\ pending \in [Routes -> {"none", "sent"}]
  /\ cred \in [Credentials -> {"none", "resolved", "live", "revoked"}]
  /\ monitor \in {"idle", "disconnecting", "between", "degrading"}
  /\ revoker \in [pc : {"idle", "sweep", "detach", "flip", "close", "done"},
                  held : SUBSET Sockets]
  /\ early \subseteq Sockets \cup Credentials

ChannelInit ==
  /\ status = "NONE" /\ beat = "lost"
  /\ sock = [k \in Sockets |-> NoSocket]
  /\ current = {}
  /\ pending = [r \in Routes |-> "none"]
  /\ cred = [c \in Credentials |-> "none"]
  /\ monitor = "idle"
  /\ revoker = [pc |-> "idle", held |-> {}]
  /\ early = {}

-----------------------------------------------------------------------------
(* Helpers *)

\* transitionConnector: the status moves only from one of these.
Transition(from, to) == status' = IF status \in from THEN to ELSE status

SetSock(k, s) == sock' = [sock EXCEPT ![k] = s]

\* recordHeartbeat writes nothing for a revoked connector.
RecordHeartbeat == beat' = IF status = "REVOKED" THEN beat ELSE "fresh"

-----------------------------------------------------------------------------
(* Sockets *)

\* enrol: the token is locked, checked and consumed in one transaction with the
\* new record.
Enrol ==
  /\ status = "NONE" /\ status' = "PENDING_ENROLMENT"
  /\ UNCHANGED <<beat, sock, current, pending, cred, monitor, revoker, early>>

\* Mutant: any enrolled identity may upgrade.
AdmitEnrolled(k) == status # "NONE"

\* The pre-upgrade guard: an unknown or revoked identity is refused.
Admit(k) == status \notin {"NONE", "REVOKED"}

Upgrade(k) ==
  /\ sock[k].pc = "none" /\ sock[k].frame = "none" /\ Admit(k)
  /\ SetSock(k, [NoSocket EXCEPT !.pc = "upgraded", !.link = "up"])
  /\ early' = early \ {k}
  /\ UNCHANGED <<status, beat, current, pending, cred, monitor, revoker>>

\* markConnected: the status ...
MarkConnected(k) ==
  /\ sock[k].pc = "upgraded"
  /\ Transition({"PENDING_ENROLMENT", "ACTIVE", "DEGRADED", "DISCONNECTED"}, "ACTIVE")
  /\ SetSock(k, [sock[k] EXCEPT !.pc = "connected"])
  /\ UNCHANGED <<beat, current, pending, cred, monitor, revoker, early>>

\* ... then the heartbeat.
MarkBeat(k) ==
  /\ sock[k].pc = "connected"
  /\ RecordHeartbeat
  /\ SetSock(k, [sock[k] EXCEPT !.pc = "marked"])
  /\ UNCHANGED <<status, current, pending, cred, monitor, revoker, early>>

\* channels.register, and the consumer of the frame queue, whatever markConnected
\* found.
Register(k) ==
  /\ sock[k].pc = "marked"
  /\ SetSock(k, [sock[k] EXCEPT !.pc = "open"])
  /\ current' = {k}
  /\ UNCHANGED <<status, beat, pending, cred, monitor, revoker, early>>

\* The queue overflowed before anybody consumed it: the socket is registered, then
\* closed, and the handler returns without waiting for the close.
RegisterOverflowed(k) ==
  /\ sock[k].pc = "marked"
  /\ SetSock(k, [sock[k] EXCEPT !.pc = "refused", !.link = "down"])
  /\ current' = {k}
  /\ UNCHANGED <<status, beat, pending, cred, monitor, revoker, early>>

\* The link goes: the connector drops it, or a frame makes the server close it.
Drop(k) ==
  /\ sock[k].link = "up"
  /\ SetSock(k, [sock[k] EXCEPT !.link = "down"])
  /\ UNCHANGED <<status, beat, current, pending, cred, monitor, revoker, early>>

\* A heartbeat frame: last_heartbeat_at first ...
Heartbeat(k) ==
  /\ sock[k].pc = "open" /\ sock[k].link = "up" /\ sock[k].frame = "none"
  /\ RecordHeartbeat
  /\ SetSock(k, [sock[k] EXCEPT !.frame = "recorded"])
  /\ UNCHANGED <<status, current, pending, cred, monitor, revoker, early>>

\* Mutant: a heartbeat does not bring back a connector written off as disconnected.
RecoverDegraded == {"PENDING_ENROLMENT", "DEGRADED"}

\* The statuses a heartbeat recovers from.
Recoverable == {"PENDING_ENROLMENT", "DEGRADED", "DISCONNECTED"}

\* ... then the transition, which a close meanwhile does not stop.
HeartbeatRecovers(k) ==
  /\ sock[k].frame = "recorded"
  /\ Transition(Recoverable, "ACTIVE")
  /\ SetSock(k, [sock[k] EXCEPT !.frame = "none"])
  /\ UNCHANGED <<beat, current, pending, cred, monitor, revoker, early>>

\* An acknowledgement, from whichever socket of the connector it comes.
Acknowledge(k, r) ==
  /\ sock[k].pc = "open" /\ sock[k].link = "up" /\ pending[r] = "sent"
  /\ pending' = [pending EXCEPT ![r] = "none"]
  /\ UNCHANGED <<status, beat, sock, current, cred, monitor, revoker, early>>

\* What is left to do for a socket that closed: its handler records the close,
\* unless it has returned.
AfterClose(k) == IF sock[k].pc = "open" THEN "leaving" ELSE "none"

\* Mutant: unregister drops the connector's channel, whoever holds it by now.
UnregisterAny(k) ==
  /\ sock[k].pc \in {"open", "refused"} /\ sock[k].link = "down"
  /\ current' = {}
  /\ pending' = [r \in Routes |-> "none"]
  /\ SetSock(k, [sock[k] EXCEPT !.pc = AfterClose(k)])
  /\ UNCHANGED <<status, beat, cred, monitor, revoker, early>>

\* channels.unregister: the entry goes if it is still this socket's; every
\* publication of the connector is answered offline.
Unregister(k) ==
  /\ sock[k].pc \in {"open", "refused"} /\ sock[k].link = "down"
  /\ current' = current \ {k}
  /\ pending' = [r \in Routes |-> "none"]
  /\ SetSock(k, [sock[k] EXCEPT !.pc = AfterClose(k)])
  /\ UNCHANGED <<status, beat, cred, monitor, revoker, early>>

\* The close is recorded against the connector, whatever socket it has by now; a
\* heartbeat may still be in the handler's queue.  (The sessions this degrades, and
\* the ones a reconnect resumes, are PublishedServices' state.)
RecordClose(k) ==
  /\ sock[k].pc = "leaving"
  /\ Transition({"PENDING_ENROLMENT", "ACTIVE", "DEGRADED"}, "DISCONNECTED")
  /\ SetSock(k, [sock[k] EXCEPT !.pc = "none"])
  /\ UNCHANGED <<beat, current, pending, cred, monitor, revoker, early>>

-----------------------------------------------------------------------------
(* Publications *)

\* channels.publish: over the current socket, unless one is awaited.
PublishFrame(r) ==
  /\ current # {} /\ pending[r] # "sent"
  /\ pending' = [pending EXCEPT ![r] = "sent"]
  /\ UNCHANGED <<status, beat, sock, current, cred, monitor, revoker, early>>

PublishTimeout(r) ==
  /\ pending[r] = "sent"
  /\ pending' = [pending EXCEPT ![r] = "none"]
  /\ UNCHANGED <<status, beat, sock, current, cred, monitor, revoker, early>>

-----------------------------------------------------------------------------
(* The monitor *)

\* Time passes without a heartbeat.
Silence ==
  /\ beat # "lost" /\ status # "NONE"
  /\ beat' = IF beat = "fresh" THEN "late" ELSE "lost"
  /\ UNCHANGED <<status, sock, current, pending, cred, monitor, revoker, early>>

\* Mutant: only an active connector is written off.
StaleActive == {"ACTIVE"}

\* findStaleConnectors for disconnected_after: the statuses it asks for.
StaleStatuses == {"ACTIVE", "DEGRADED"}

\* sweepConnectorHealth lists who has been silent for too long ...
SweepBegin ==
  /\ monitor = "idle" /\ status # "NONE"
  /\ monitor' = IF status \in StaleStatuses /\ beat = "lost" THEN "disconnecting"
                ELSE "between"
  /\ UNCHANGED <<status, beat, sock, current, pending, cred, revoker, early>>

\* ... and disconnects them, asking for the status again but not for the beat.
SweepDisconnect ==
  /\ monitor = "disconnecting" /\ monitor' = "between"
  /\ Transition({"ACTIVE", "DEGRADED"}, "DISCONNECTED")
  /\ UNCHANGED <<beat, sock, current, pending, cred, revoker, early>>

SweepDegradeList ==
  /\ monitor = "between"
  /\ monitor' = IF status = "ACTIVE" /\ beat # "fresh" THEN "degrading" ELSE "idle"
  /\ UNCHANGED <<status, beat, sock, current, pending, cred, revoker, early>>

SweepDegrade ==
  /\ monitor = "degrading" /\ monitor' = "idle"
  /\ Transition({"ACTIVE"}, "DEGRADED")
  /\ UNCHANGED <<beat, sock, current, pending, cred, revoker, early>>

-----------------------------------------------------------------------------
(* Agent credentials and revocation *)

\* The exchange resolves the connector's record ...
ExchangeResolve(c) ==
  /\ cred[c] = "none" /\ status \notin {"NONE", "REVOKED"}
  /\ cred' = [cred EXCEPT ![c] = "resolved"]
  /\ UNCHANGED <<status, beat, sock, current, pending, monitor, revoker, early>>

\* ... and issues the credential.
ExchangeIssue(c) ==
  /\ cred[c] = "resolved"
  /\ cred' = [cred EXCEPT ![c] = "live"]
  /\ UNCHANGED <<status, beat, sock, current, pending, monitor, revoker, early>>

\* revokeConnectorIdentity: the routes end and their sessions degrade (a failure
\* here stops it before anything else) ...
RevokeRoutes ==
  /\ revoker.pc = "idle" /\ status # "NONE"
  /\ revoker' = [revoker EXCEPT !.pc = "sweep"]
  /\ UNCHANGED <<status, beat, sock, current, pending, cred, monitor, early>>

\* revokeIssuedToClient.
RevokedCredentials == [c \in Credentials |-> IF cred[c] = "live" THEN "revoked" ELSE cred[c]]

\* ... then the credentials it was issued ...
RevokeCredentials ==
  /\ revoker.pc = "sweep"
  /\ cred' = RevokedCredentials
  /\ revoker' = [revoker EXCEPT !.pc = "detach"]
  /\ early' = {c \in Credentials : cred[c] # "live"}
  /\ UNCHANGED <<status, beat, sock, current, pending, monitor>>

\* ... then its channel leaves the registry ...
RevokeDetach ==
  /\ revoker.pc = "detach"
  /\ current' = {}
  /\ revoker' = [pc |-> "flip", held |-> current]
  /\ UNCHANGED <<status, beat, sock, pending, cred, monitor, early>>

\* ... then the record says REVOKED ...
RevokeFlip ==
  /\ revoker.pc = "flip"
  /\ Transition({"PENDING_ENROLMENT", "ACTIVE", "DEGRADED", "DISCONNECTED"}, "REVOKED")
  /\ revoker' = [revoker EXCEPT !.pc = "close"]
  /\ early' = {k \in Sockets : sock[k].pc \in {"upgraded", "connected", "marked"} \/ k \in current}
              \cup {c \in Credentials \cap early : cred[c] \in {"resolved", "live"}}
  /\ UNCHANGED <<beat, sock, current, pending, cred, monitor>>

\* ... and the detached socket is closed.
RevokeClose ==
  /\ revoker.pc = "close"
  /\ revoker' = [pc |-> "done", held |-> {}]
  /\ sock' = [k \in Sockets |-> IF k \in revoker.held THEN [sock[k] EXCEPT !.link = "down"]
                                ELSE sock[k]]
  /\ UNCHANGED <<status, beat, current, pending, cred, monitor, early>>

-----------------------------------------------------------------------------
Channel(k) ==
  \/ Upgrade(k) \/ MarkConnected(k) \/ MarkBeat(k) \/ Register(k) \/ RegisterOverflowed(k)
  \/ Drop(k)
  \/ Heartbeat(k) \/ HeartbeatRecovers(k)
  \/ \E r \in Routes : Acknowledge(k, r)
  \/ Unregister(k) \/ RecordClose(k)

Monitor == SweepBegin \/ SweepDisconnect \/ SweepDegradeList \/ SweepDegrade

Revocation ==
  \/ RevokeRoutes \/ RevokeCredentials \/ RevokeDetach \/ RevokeFlip \/ RevokeClose
  \/ \E c \in Credentials : ExchangeResolve(c) \/ ExchangeIssue(c)

ChannelNext ==
  \/ Enrol
  \/ \E k \in Sockets : Channel(k)
  \/ \E r \in Routes : PublishFrame(r) \/ PublishTimeout(r)
  \/ Silence
  \/ Monitor
  \/ Revocation

\* The handler of a socket runs on, the monitor's timer fires, a connector beats
\* for as long as it holds its link, and a heartbeat that stays away grows old.
ChannelFairness ==
  /\ \A k \in Sockets :
       /\ WF_channelVars(MarkConnected(k)) /\ WF_channelVars(MarkBeat(k))
       /\ WF_channelVars(Register(k) \/ RegisterOverflowed(k))
       /\ WF_channelVars(Heartbeat(k)) /\ WF_channelVars(HeartbeatRecovers(k))
       /\ WF_channelVars(Unregister(k)) /\ WF_channelVars(RecordClose(k))
  /\ WF_channelVars(Monitor) /\ WF_channelVars(Silence)
  /\ WF_channelVars(RevokeCredentials) /\ WF_channelVars(RevokeDetach) /\ WF_channelVars(RevokeFlip)
  /\ WF_channelVars(RevokeClose)

ChannelSpec == ChannelInit /\ [][ChannelNext]_channelVars
ChannelFairSpec == ChannelSpec /\ ChannelFairness

-----------------------------------------------------------------------------
(* Properties *)

\* A revoked identity stays revoked, whichever handler, heartbeat or sweep read it
\* before (every transition names the statuses it leaves).
RevokedIsFinal == [][status = "REVOKED" => status' = "REVOKED"]_channelVars

\* When the revocation is through, the connector holds no channel, except on a
\* socket that had passed the guard before the record said REVOKED: register does
\* not look at what markConnected found.
RevokedHoldsNoChannel ==
  revoker.pc = "done" => current \subseteq early

\* When the revocation is through, no credential the connector was issued is good,
\* except one whose exchange was under way between the sweep of the credentials
\* and the record (the window the comment at the sweep describes).
RevokedHoldsNoCredential ==
  revoker.pc = "done" => \A c \in Credentials : cred[c] \in {"resolved", "live"} => c \in early

\* When the revocation is through, the identity is good for nothing: neither channel
\* nor credential, outside those two windows (revocation.ts, step by step).
RevokedHoldsNothing == RevokedHoldsNoChannel /\ RevokedHoldsNoCredential

\* A connector that holds its link keeps its channel: it leaves the registry for a
\* newer socket of the connector or for a revocation, and never for the close of an
\* older socket, which may be handled after the newer one registered.
ChannelIsKept ==
  [][\A k \in current :
       sock[k].link = "up" /\ k \notin current' => current' # {} \/ revoker' # revoker]_channelVars

\* A socket that stays is a connector that is reported active again, though the
\* close of an older one, or a sweep that read an old heartbeat, disconnects the
\* record after it was accepted.
ChannelIsReported ==
  \A k \in Sockets :
    (sock[k].pc = "open" /\ sock[k].link = "up") ~>
      (status \in {"ACTIVE", "REVOKED"} \/ sock[k].link = "down")

\* A connector without a link is reported disconnected in the end, though a
\* heartbeat still in a closed socket's queue makes it active again, and though
\* nobody records the close of a socket whose queue overflowed.
SilenceIsReported ==
  (status # "NONE" /\ \A k \in Sockets : sock[k].link = "down") ~>
    (status \in {"DISCONNECTED", "REVOKED", "PENDING_ENROLMENT"}
      \/ \E k \in Sockets : sock[k].link = "up")
=============================================================================
