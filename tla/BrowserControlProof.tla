------------------------- MODULE BrowserControlProof -------------------------
(***************************************************************************)
(* For every set of controllers and of concurrent calls: the worker runs a *)
(* sequence number at most once, the first epoch is spent once control     *)
(* moves, interactive commands in flight under one epoch are one           *)
(* controller's, and the session implements ControlLease, with any number  *)
(* of control changes in progress.                                         *)
(***************************************************************************)
EXTENDS BrowserControl, TLAPS

\* A sequence number above the last one accepted has never been run.
RunsInOrder ==
  \A s \in Seqs : executed[s] <= 1 /\ (s > context.lastSeq => executed[s] = 0)

\* A control change in progress will write an epoch past the first.
WritesLaterEpoch ==
  \A t \in Transfers : transfers[t].pc # "idle" => transfers[t].epoch # 1

IInv == TypeOK /\ RunsInOrder /\ WritesLaterEpoch

USE ControlConstants DEF Epochs, Seqs, Controllers, Interactive, Capture

-----------------------------------------------------------------------------
\* The session create() and allocate() leave satisfies the invariant.
LEMMA InitIInv == Init => IInv
BY DEF Init, IInv, TypeOK, Session, Lease, TransferCall, Call, Context, NoTransfer, NoCall,
       RunsInOrder, WritesLaterEpoch

\* Revoking leases leaves a lease table.
LEMMA RevokeType ==
  ASSUME NEW ls \in [Epochs -> Lease], NEW es
  PROVE  Revoke(ls, es) \in [Epochs -> Lease]
<1>1. ASSUME NEW e \in Epochs PROVE ls[e] \in Lease /\ [ls[e] EXCEPT !.state = "revoked"] \in Lease
      BY <1>1 DEF Lease
<1>2. QED BY <1>1 DEF Revoke

\* What revoking does to each row.
LEMMA RevokeRows ==
  ASSUME NEW ls \in [Epochs -> Lease], NEW es, NEW e \in Epochs
  PROVE  /\ Revoke(ls, es)[e].holder = ls[e].holder
         /\ Revoke(ls, es)[e].state = IF e \in es /\ ls[e].state = "live"
                                      THEN "revoked" ELSE ls[e].state
BY DEF Revoke, Lease

\* Control changes keep the types.
LEMMA ControlType == TypeOK /\ ControlNext => TypeOK'
<1> SUFFICES ASSUME TypeOK, ControlNext PROVE TypeOK'
    OBVIOUS
<1>0. NoTransfer \in TransferCall
      BY DEF NoTransfer, TransferCall
<1>1. ASSUME NEW t \in Transfers, NEW who \in Systems, RequestControl(t, who) PROVE TypeOK'
  <2>1. session.epoch + 1 \in Epochs
        BY <1>1 DEF RequestControl, TypeOK, Session
  <2>2. QED BY <1>1, <2>1 DEF RequestControl, TypeOK, TransferCall
<1>2. ASSUME NEW t \in Transfers, NEW who \in Systems, NEW e \in Epochs,
             ReleaseControl(t, who, e) PROVE TypeOK'
  <2>1. session.epoch + 1 \in Epochs
        BY <1>2 DEF ReleaseControl, TypeOK, Session
  <2>2. QED BY <1>2, <2>1 DEF ReleaseControl, TypeOK, TransferCall
<1>3. ASSUME NEW t \in Transfers, Snapshot(t) PROVE TypeOK'
  <2>1. transfers[t] \in TransferCall /\ LiveLeases \in SUBSET Epochs
        BY DEF TypeOK, LiveLeases
  <2>2. [transfers[t] EXCEPT !.pc = "snapshot", !.seen = LiveLeases] \in TransferCall
        BY <2>1 DEF TransferCall
  <2>3. transfers' \in [Transfers -> TransferCall]
        BY <1>3, <2>2 DEF Snapshot, TypeOK
  <2>4. QED BY <1>3, <2>3 DEF Snapshot, TypeOK
<1>4. ASSUME NEW t \in Transfers, CommitRequest(t) PROVE TypeOK'
  <2>1. /\ transfers[t] \in TransferCall
        /\ Revoke(leases, transfers[t].seen) \in [Epochs -> Lease]
        BY RevokeType DEF TypeOK
  <2>2. [holder |-> transfers[t].who, state |-> "live"] \in Lease
        BY <2>1 DEF TransferCall, Lease
  <2>3. leases' \in [Epochs -> Lease]
        BY <1>4, <2>1, <2>2 DEF CommitRequest
  <2>4. session' \in Session
        BY <1>4, <2>1 DEF CommitRequest, TypeOK, Session, TransferCall
  <2>5. QED BY <1>0, <1>4, <2>3, <2>4 DEF CommitRequest, TypeOK
<1>5. ASSUME NEW t \in Transfers, CommitRelease(t) PROVE TypeOK'
  <2>1. leases' \in [Epochs -> Lease]
        BY <1>5, RevokeType DEF CommitRelease, TypeOK
  <2>2. session' \in Session
        BY <1>5 DEF CommitRelease, TypeOK, Session, TransferCall
  <2>3. QED BY <1>0, <1>5, <2>1, <2>2 DEF CommitRelease, TypeOK
<1>6. ASSUME NEW t \in Transfers, Rollback(t) PROVE TypeOK'
      BY <1>0, <1>6 DEF Rollback, TypeOK
<1>7. ASSUME NEW e \in Epochs, ExpireLease(e) PROVE TypeOK'
  <2>1. leases' \in [Epochs -> Lease]
        BY <1>7, RevokeType DEF ExpireLease, TypeOK
  <2>2. QED BY <1>7, <2>1 DEF ExpireLease, TypeOK
<1>8. QED BY <1>1, <1>2, <1>3, <1>4, <1>5, <1>6, <1>7 DEF ControlNext

\* Commands keep the types.
LEMMA CommandType == TypeOK /\ CommandNext => TypeOK'
<1> SUFFICES ASSUME TypeOK, CommandNext PROVE TypeOK'
    OBVIOUS
<1>0. NoCall \in Call
      BY DEF NoCall, Call
<1>1. ASSUME NEW c \in Calls, NEW who \in Controllers, NEW e \in Epochs,
             NEW k \in {Interactive, Capture}, RunCommand(c, who, e, k) PROVE TypeOK'
  <2>1. session.lastSeq + 1 \in Seqs /\ session.status \in {"READY", "ACTIVE", "PAUSED"}
        BY <1>1 DEF RunCommand, TypeOK, Session
  <2>2. [NoCall EXCEPT !.pc = "authorised", !.who = who, !.kind = k, !.epoch = e,
                       !.status = session.status, !.seq = session.lastSeq + 1] \in Call
        BY <2>1 DEF NoCall, Call
  <2>3. QED BY <1>1, <2>2 DEF RunCommand, TypeOK
<1>2. ASSUME NEW c \in Calls, WriteSequence(c) PROVE TypeOK'
  <2>1. calls[c] \in Call
        BY DEF TypeOK
  <2>2. session' \in Session /\ calls' \in [Calls -> Call]
        BY <1>2, <2>1 DEF WriteSequence, TypeOK, Session, Call
  <2>3. QED BY <1>2, <2>2 DEF WriteSequence, TypeOK
<1>3. ASSUME NEW c \in Calls, Execute(c) PROVE TypeOK'
  <2>1. calls[c].seq \in Seqs
        BY DEF TypeOK, Call
  <2>2. context' \in Context
    <3>1. context \in Context
          BY DEF TypeOK
    <3>2. [context EXCEPT !.lastSeq = calls[c].seq] \in Context
          BY <2>1, <3>1 DEF Context
    <3>3. QED BY <1>3, <3>2 DEF Execute
  <2>3. executed' \in [Seqs -> Nat]
        BY <1>3, <2>1 DEF Execute, TypeOK
  <2>4. calls' \in [Calls -> Call]
    <3>1. calls[c] \in Call
          BY DEF TypeOK
    <3>2. [calls[c] EXCEPT !.pc = "answered", !.ok = "yes"] \in Call
          BY <3>1 DEF Call
    <3>3. QED BY <1>3, <3>2 DEF Execute, TypeOK
  <2>5. QED BY <1>3, <2>2, <2>3, <2>4 DEF Execute, TypeOK
<1>4. ASSUME NEW c \in Calls, Refuse(c) PROVE TypeOK'
  <2>1. calls' \in [Calls -> Call]
    <3>1. calls[c] \in Call
          BY DEF TypeOK
    <3>2. [calls[c] EXCEPT !.pc = "answered", !.ok = "no"] \in Call
          BY <3>1 DEF Call
    <3>3. QED BY <1>4, <3>2 DEF Refuse, TypeOK
  <2>2. QED BY <1>4, <2>1 DEF Refuse, TypeOK
<1>5. ASSUME NEW c \in Calls, LoseCommand(c) PROVE TypeOK'
      BY <1>0, <1>5 DEF LoseCommand, TypeOK
<1>6. ASSUME NEW c \in Calls, RecordResult(c) PROVE TypeOK'
  <2>1. session' \in Session
        BY <1>6 DEF RecordResult, TypeOK, Session
  <2>2. QED BY <1>0, <1>6, <2>1 DEF RecordResult, TypeOK
<1>7. CASE LoseContext
      BY <1>7 DEF LoseContext, TypeOK, Context
<1>8. QED BY <1>1, <1>2, <1>3, <1>4, <1>5, <1>6, <1>7 DEF CommandNext

\* What the lifecycle calls may change besides their own progress: the status,
\* and, when the session ends, the leases and the worker's context.
LEMMA LifecycleEffect ==
  ASSUME TypeOK, LifecycleNext
  PROVE  /\ calls' \in [Calls -> Call]
         /\ UNCHANGED <<transfers, executed>>
         /\ session' \in Session
         /\ session'.controller = session.controller /\ session'.epoch = session.epoch
         /\ leases' = leases \/ leases' = Revoke(leases, LiveLeases)
         /\ context' \in Context /\ context'.lastSeq = context.lastSeq
<1>a. NoCall \in Call
      BY DEF NoCall, Call
<1>0. ASSUME NEW x \in Controllers \cup {Nobody}, NEW e \in Epochs,
             NEW pc \in {"idle", "pausing", "resuming", "ending", "terminating", "closing",
                         "revoking", "closed"}
      PROVE  /\ NoCall \in Call
             /\ [NoCall EXCEPT !.pc = pc] \in Call
             /\ [NoCall EXCEPT !.pc = pc, !.who = x, !.epoch = e] \in Call
      BY <1>a DEF Call
<1>1. ASSUME NEW c \in Calls, NEW who \in Controllers, NEW e \in Epochs,
             Pause(c, who, e) \/ Resume(c, who, e) \/ End(c, who, e)
      PROVE  calls' \in [Calls -> Call] /\ UNCHANGED <<session, leases, transfers, context, executed>>
  <2>1. PICK pc \in {"pausing", "resuming", "ending"} :
          calls' = [calls EXCEPT ![c] = [NoCall EXCEPT !.pc = pc, !.who = who, !.epoch = e]]
        BY <1>1 DEF Pause, Resume, End, Begin
  <2>2. calls' \in [Calls -> Call]
        BY <1>0, <2>1 DEF TypeOK
  <2>3. QED BY <1>1, <2>2 DEF Pause, Resume, End, Begin
<1>2. ASSUME NEW c \in Calls, NEW from, NEW next \in {"idle", "closing"},
             NEW s \in {"READY", "PAUSED", "TERMINATING", "TERMINATED"},
             SetStatus(c, from, s, next)
      PROVE  /\ calls' \in [Calls -> Call]
             /\ session' \in Session
             /\ session'.controller = session.controller /\ session'.epoch = session.epoch
             /\ UNCHANGED <<leases, transfers, context, executed>>
  <2>1. [NoCall EXCEPT !.pc = next] \in Call
        BY DEF NoCall, Call
  <2>2. calls' \in [Calls -> Call]
        BY <1>2, <2>1 DEF SetStatus, TypeOK
  <2>3. session' \in Session
        BY <1>2 DEF SetStatus, TypeOK, Session
  <2>4. QED BY <1>2, <2>2, <2>3 DEF SetStatus, TypeOK, Session
<1>3. ASSUME NEW c \in Calls, TerminateRead(c)
      PROVE  calls' \in [Calls -> Call] /\ UNCHANGED <<session, leases, transfers, context, executed>>
  <2>1. NoCall \in Call /\ [NoCall EXCEPT !.pc = "terminating"] \in Call
        BY DEF NoCall, Call
  <2>2. QED BY <1>3, <2>1 DEF TerminateRead, TypeOK
<1>4. ASSUME NEW c \in Calls, WorkerTerminate(c)
      PROVE  /\ calls' \in [Calls -> Call]
             /\ context' \in Context /\ context'.lastSeq = context.lastSeq
             /\ UNCHANGED <<session, leases, transfers, executed>>
  <2>1. [NoCall EXCEPT !.pc = "revoking"] \in Call
        BY DEF NoCall, Call
  <2>2. calls' \in [Calls -> Call]
        BY <1>4, <2>1 DEF WorkerTerminate, TypeOK
  <2>3. QED BY <1>4, <2>2 DEF WorkerTerminate, TypeOK, Context
<1>5. ASSUME NEW c \in Calls, RevokeLeases(c)
      PROVE  /\ calls' \in [Calls -> Call]
             /\ leases' = Revoke(leases, LiveLeases)
             /\ UNCHANGED <<session, transfers, context, executed>>
  <2>1. [NoCall EXCEPT !.pc = "closed"] \in Call
        BY DEF NoCall, Call
  <2>2. QED BY <1>5, <2>1 DEF RevokeLeases, TypeOK
<1>6. session \in Session /\ context \in Context
      BY DEF TypeOK
<1>7. ASSUME NEW c \in Calls,
             SetPaused(c) \/ SetResumed(c) \/ SetTerminating(c) \/ SetTerminated(c)
      PROVE  \E from \in {"pausing", "resuming", "terminating", "closed"},
                s \in {"READY", "PAUSED", "TERMINATING", "TERMINATED"},
                next \in {"idle", "closing"} : SetStatus(c, from, s, next)
      BY <1>7, Zenon DEF SetPaused, SetResumed, SetTerminating, SetTerminated
<1>8. QED BY <1>1, <1>2, <1>3, <1>4, <1>5, <1>6, <1>7 DEF LifecycleNext

\* Lifecycle calls keep the types.
LEMMA LifecycleType == TypeOK /\ LifecycleNext => TypeOK'
<1> SUFFICES ASSUME TypeOK, LifecycleNext PROVE TypeOK'
    OBVIOUS
<1>1. leases' \in [Epochs -> Lease]
      BY LifecycleEffect, RevokeType DEF TypeOK
<1>2. QED BY <1>1, LifecycleEffect DEF TypeOK

\* Every step keeps the types.
LEMMA TypeStep == TypeOK /\ [Next]_vars => TypeOK'
<1>1. TypeOK /\ UNCHANGED vars => TypeOK'
      BY DEF TypeOK, vars
<1>2. QED BY <1>1, ControlType, CommandType, LifecycleType DEF Next

-----------------------------------------------------------------------------
\* Only Execute moves the worker's sequence, and it moves it up to a number
\* that had not been run.
LEMMA RunsInOrderStep == TypeOK /\ RunsInOrder /\ [Next]_vars => RunsInOrder'
<1> SUFFICES ASSUME TypeOK, RunsInOrder, [Next]_vars PROVE RunsInOrder'
    OBVIOUS
<1>1. CASE \E c \in Calls : Execute(c)
  <2>1. PICK c \in Calls : Execute(c)
        BY <1>1
  <2>2. PICK n \in Seqs : n = calls[c].seq
        BY DEF TypeOK, Call
  <2>3. n > context.lastSeq /\ context'.lastSeq = n
    <3>1. context \in Context
          BY DEF TypeOK
    <3>2. n > context.lastSeq
          BY <2>1, <2>2 DEF Execute, WorkerAccepts
    <3>3. context'.lastSeq = n
          BY <2>1, <2>2, <3>1 DEF Execute, Context
    <3>4. QED BY <3>2, <3>3
  <2>4. executed' = [executed EXCEPT ![n] = @ + 1] /\ executed[n] = 0
        BY <2>1, <2>2, <2>3 DEF Execute, RunsInOrder
  <2>5. context.lastSeq \in Int /\ executed \in [Seqs -> Nat]
        BY DEF TypeOK, Context
  <2>6. ASSUME NEW s \in Seqs
        PROVE  executed'[s] <= 1 /\ (s > context'.lastSeq => executed'[s] = 0)
    <3>1. CASE s = n
          BY <2>3, <2>4, <2>5, <3>1
    <3>2. CASE s # n
      <4>1. executed'[s] = executed[s]
            BY <2>4, <2>5, <3>2
      <4>2. s > context'.lastSeq => s > context.lastSeq
            BY <2>3, <2>5
      <4>3. executed[s] <= 1 /\ (s > context.lastSeq => executed[s] = 0)
            BY DEF RunsInOrder
      <4>4. QED BY <4>1, <4>2, <4>3
    <3>3. QED BY <3>1, <3>2
  <2>7. QED BY <2>6 DEF RunsInOrder
<1>2. CASE ~\E c \in Calls : Execute(c)
  <2>1. executed' = executed /\ context'.lastSeq = context.lastSeq
    <3>1. CASE LifecycleNext
          BY <3>1, LifecycleEffect
    <3>2. CASE ControlNext
          BY <3>2 DEF ControlNext, RequestControl, ReleaseControl, Snapshot, CommitRequest,
                      CommitRelease, Rollback, ExpireLease
    <3>3. CASE CommandNext
          BY <1>2, <3>3 DEF CommandNext, RunCommand, WriteSequence, Refuse, LoseCommand,
                            RecordResult, LoseContext, TypeOK, Context
    <3>4. CASE UNCHANGED vars
          BY <3>4 DEF vars
    <3>5. QED BY <3>1, <3>2, <3>3, <3>4 DEF Next
  <2>2. QED BY <2>1 DEF RunsInOrder
<1>3. QED BY <1>1, <1>2

\* A control change reads an epoch of at least one and will write its successor.
LEMMA WritesLaterEpochStep == TypeOK /\ WritesLaterEpoch /\ [Next]_vars => WritesLaterEpoch'
<1> SUFFICES ASSUME TypeOK, WritesLaterEpoch, [Next]_vars PROVE WritesLaterEpoch'
    OBVIOUS
<1> USE DEF WritesLaterEpoch
<1>1. CASE ControlNext
  <2>1. session.epoch + 1 # 1
        BY DEF TypeOK, Session
  <2>2. ASSUME NEW t \in Transfers, NEW who \in Systems, RequestControl(t, who)
        PROVE  WritesLaterEpoch'
        BY <2>1, <2>2 DEF RequestControl, TypeOK, TransferCall
  <2>3. ASSUME NEW t \in Transfers, NEW who \in Systems, NEW e \in Epochs,
               ReleaseControl(t, who, e)
        PROVE  WritesLaterEpoch'
        BY <2>1, <2>3 DEF ReleaseControl, TypeOK, TransferCall
  <2>4. ASSUME NEW t \in Transfers, Snapshot(t)
        PROVE  WritesLaterEpoch'
        BY <2>4 DEF Snapshot, TypeOK, TransferCall
  <2>5. ASSUME NEW t \in Transfers, CommitRequest(t) \/ CommitRelease(t) \/ Rollback(t)
        PROVE  WritesLaterEpoch'
    <3>1. transfers' = [transfers EXCEPT ![t] = NoTransfer]
          BY <2>5 DEF CommitRequest, CommitRelease, Rollback
    <3>2. NoTransfer.pc = "idle" /\ transfers \in [Transfers -> TransferCall]
          BY DEF NoTransfer, TypeOK
    <3>3. QED BY <3>1, <3>2
  <2>6. ASSUME NEW e \in Epochs, ExpireLease(e) PROVE WritesLaterEpoch'
        BY <2>6 DEF ExpireLease
  <2>7. QED BY <1>1, <2>2, <2>3, <2>4, <2>5, <2>6 DEF ControlNext
<1>2. CASE CommandNext
      BY <1>2 DEF CommandNext, RunCommand, WriteSequence, Execute, Refuse, LoseCommand,
                  RecordResult, LoseContext
<1>3. CASE LifecycleNext
      BY <1>3, LifecycleEffect
<1>4. CASE UNCHANGED vars
      BY <1>4 DEF vars
<1>5. QED BY <1>1, <1>2, <1>3, <1>4 DEF Next

\* The strengthened invariant holds in every reachable state.
THEOREM BrowserControlInvariant == Spec => []IInv
<1>1. IInv /\ [Next]_vars => IInv'
      BY TypeStep, RunsInOrderStep, WritesLaterEpochStep DEF IInv
<1>2. QED BY InitIInv, <1>1, PTL DEF Spec

\* Rows, calls and the worker's context keep their shape.
THEOREM BrowserControlType == Spec => []TypeOK
<1>1. IInv => TypeOK
      BY DEF IInv
<1>2. QED BY BrowserControlInvariant, <1>1, PTL

\* However commands overlap, the worker runs each sequence number at most once.
THEOREM SequenceOnce == Spec => []SequenceRunsOnce
<1>1. IInv => SequenceRunsOnce
      BY DEF IInv, RunsInOrder, SequenceRunsOnce
<1>2. QED BY BrowserControlInvariant, <1>1, PTL

\* Only the two commits write the epoch.
LEMMA EpochWrites ==
  ASSUME TypeOK, [Next]_vars
  PROVE  \/ session'.epoch = session.epoch
         \/ \E t \in Transfers : transfers[t].pc = "snapshot" /\ session'.epoch = transfers[t].epoch
<1>1. CASE ControlNext
  <2>1. ASSUME NEW t \in Transfers, CommitRequest(t) \/ CommitRelease(t)
        PROVE  transfers[t].pc = "snapshot" /\ session'.epoch = transfers[t].epoch
        BY <2>1 DEF CommitRequest, CommitRelease, TypeOK, Session
  <2>2. QED BY <1>1, <2>1 DEF ControlNext, RequestControl, ReleaseControl, Snapshot, Rollback,
                             ExpireLease
<1>2. CASE CommandNext
      BY <1>2 DEF CommandNext, RunCommand, WriteSequence, Execute, Refuse, LoseCommand,
                  RecordResult, LoseContext, TypeOK, Session
<1>3. CASE LifecycleNext
      BY <1>3, LifecycleEffect
<1>4. CASE UNCHANGED vars
      BY <1>4 DEF vars
<1>5. QED BY <1>1, <1>2, <1>3, <1>4 DEF Next

\* However control changes overlap, the first epoch never comes back.
THEOREM FirstEpochSpent == Spec => FirstEpochIsSpent
<1>1. IInv /\ [Next]_vars => [session.epoch # 1 => session.epoch' # 1]_vars
      BY EpochWrites DEF IInv, WritesLaterEpoch
<1>2. QED BY BrowserControlInvariant, <1>1, PTL DEF Spec, FirstEpochIsSpent

-----------------------------------------------------------------------------
(* An epoch is granted once *)

\* An epoch without a lease row was granted to nobody.
AbsentIsNobody == \A e \in Epochs : leases[e].state = "absent" => leases[e].holder = Nobody

\* Control is asked for on behalf of a system controller.
AskedBySystems == \A t \in Transfers : transfers[t].pc # "idle" => transfers[t].who \in Systems

\* Whoever is in control was granted the session's epoch.
HolderGranted ==
  session.controller # Nobody => leases[session.epoch].holder = session.controller

\* Whoever has an interactive command in flight was granted its epoch.
CommandGranted ==
  \A c \in Calls :
    InFlight(c) => calls[c].who \in Controllers /\ leases[calls[c].epoch].holder = calls[c].who

GInv == AbsentIsNobody /\ AskedBySystems /\ HolderGranted /\ CommandGranted

\* What a grant is over one step: kept.
GrantsKept ==
  \A e \in Epochs : leases[e].holder # Nobody => leases'[e].holder = leases[e].holder

\* The session create() and allocate() leave satisfies the grants' invariant.
LEMMA InitGInv == Init => GInv
BY DEF Init, GInv, AbsentIsNobody, AskedBySystems, HolderGranted, CommandGranted, InFlight,
       NoTransfer, NoCall

\* Commands leave control alone.
LEMMA CommandEffect ==
  ASSUME TypeOK, CommandNext
  PROVE  /\ UNCHANGED <<transfers, leases>>
         /\ session'.controller = session.controller /\ session'.epoch = session.epoch
<1>1. session \in Session
      BY DEF TypeOK
<1>2. UNCHANGED <<transfers, leases>>
      BY DEF CommandNext, RunCommand, WriteSequence, Execute, Refuse, LoseCommand, RecordResult,
             LoseContext
<1>3. \/ session' = session
      \/ \E c \in Calls : session' = [session EXCEPT !.lastSeq = calls[c].seq]
      \/ session' = [session EXCEPT !.status = "ACTIVE"]
      BY DEF CommandNext, RunCommand, WriteSequence, Execute, Refuse, LoseCommand, RecordResult,
             LoseContext
<1>4. QED BY <1>1, <1>2, <1>3 DEF Session

\* A step that inserts no lease: the rows keep their holders, and a lease ends
\* or stays.
LEMMA QuietRows ==
  ASSUME TypeOK, NEW es, leases' = leases \/ leases' = Revoke(leases, es), NEW e \in Epochs
  PROVE  /\ leases'[e].holder = leases[e].holder
         /\ leases'[e].state = "absent" => leases[e].state = "absent"
         /\ leases'[e].state = "live" => leases[e].state = "live"
<1>1. leases \in [Epochs -> Lease]
      BY DEF TypeOK
<1>2. QED BY <1>1, RevokeRows

\* A request's commit writes one row, where there was none.
LEMMA CommitRequestRows ==
  ASSUME TypeOK, NEW t \in Transfers, CommitRequest(t)
  PROVE  \E n \in Epochs :
           /\ n = transfers[t].epoch /\ leases[n].state = "absent"
           /\ leases'[n] = [holder |-> transfers[t].who, state |-> "live"]
           /\ \A e \in Epochs \ {n} : /\ leases'[e].holder = leases[e].holder
                                      /\ leases'[e].state = "absent" => leases[e].state = "absent"
                                      /\ leases'[e].state = "live" => leases[e].state = "live"
<1>1. PICK n \in Epochs : n = transfers[t].epoch
      BY DEF TypeOK, TransferCall
<1>2. leases \in [Epochs -> Lease] /\ Revoke(leases, transfers[t].seen) \in [Epochs -> Lease]
      BY RevokeType DEF TypeOK
<1>3. /\ leases[n].state = "absent"
      /\ leases' = [Revoke(leases, transfers[t].seen) EXCEPT
                      ![n] = [holder |-> transfers[t].who, state |-> "live"]]
      BY <1>1 DEF CommitRequest
<1>4. ASSUME NEW e \in Epochs \ {n}
      PROVE  /\ leases'[e].holder = leases[e].holder
             /\ leases'[e].state = "absent" => leases[e].state = "absent"
             /\ leases'[e].state = "live" => leases[e].state = "live"
  <2>1. leases'[e] = Revoke(leases, transfers[t].seen)[e]
        BY <1>2, <1>3, <1>4
  <2>2. QED BY <1>2, <2>1, RevokeRows
<1>5. leases'[n] = [holder |-> transfers[t].who, state |-> "live"]
      BY <1>2, <1>3
<1>6. QED BY <1>1, <1>3, <1>4, <1>5

\* Every step other than a request's commit inserts no lease.
LEMMA OtherSteps ==
  ASSUME TypeOK, [Next]_vars, ~\E t \in Transfers : CommitRequest(t)
  PROVE  \E es \in SUBSET Epochs : leases' = leases \/ leases' = Revoke(leases, es)
<1>1. ASSUME NEW t \in Transfers, CommitRelease(t)
      PROVE  \E es \in SUBSET Epochs : leases' = Revoke(leases, es)
  <2>1. transfers[t].seen \in SUBSET Epochs
        BY DEF TypeOK, TransferCall
  <2>2. QED BY <1>1, <2>1 DEF CommitRelease
<1>2. ASSUME NEW e \in Epochs, ExpireLease(e)
      PROVE  \E es \in SUBSET Epochs : leases' = Revoke(leases, es)
  <2>1. {e} \in SUBSET Epochs
        OBVIOUS
  <2>2. QED BY <1>2, <2>1 DEF ExpireLease
<1>3. ASSUME NEW t \in Transfers,
             \/ \E who \in Systems : \/ RequestControl(t, who)
                                     \/ \E e \in Epochs : ReleaseControl(t, who, e)
             \/ Snapshot(t) \/ Rollback(t)
      PROVE  leases' = leases
      BY <1>3 DEF RequestControl, ReleaseControl, Snapshot, Rollback
<1>4. {} \in SUBSET Epochs /\ LiveLeases \in SUBSET Epochs
      BY DEF LiveLeases
<1>5. CASE ControlNext
      BY <1>1, <1>2, <1>3, <1>4, <1>5 DEF ControlNext
<1>6. CASE CommandNext
      BY <1>4, <1>6, CommandEffect
<1>7. CASE LifecycleNext
      BY <1>4, <1>7, LifecycleEffect
<1>8. CASE UNCHANGED vars
      BY <1>4, <1>8 DEF vars
<1>9. QED BY <1>5, <1>6, <1>7, <1>8 DEF Next

\* Only system controllers ask, whatever else happens.
LEMMA AskedStep == TypeOK /\ AskedBySystems /\ [Next]_vars => AskedBySystems'
<1> SUFFICES ASSUME TypeOK, AskedBySystems, [Next]_vars PROVE AskedBySystems'
    OBVIOUS
<1> USE DEF AskedBySystems
<1>1. CASE ControlNext
  <2>1. ASSUME NEW t \in Transfers, NEW who \in Systems, RequestControl(t, who)
        PROVE  AskedBySystems'
        BY <2>1 DEF RequestControl, TypeOK
  <2>2. ASSUME NEW t \in Transfers, NEW who \in Systems, NEW e \in Epochs,
               ReleaseControl(t, who, e)
        PROVE  AskedBySystems'
        BY <2>2 DEF ReleaseControl, TypeOK
  <2>3. ASSUME NEW t \in Transfers, Snapshot(t) PROVE AskedBySystems'
        BY <2>3 DEF Snapshot, TypeOK, TransferCall
  <2>4. ASSUME NEW t \in Transfers, CommitRequest(t) \/ CommitRelease(t) \/ Rollback(t)
        PROVE  AskedBySystems'
    <3>1. transfers' = [transfers EXCEPT ![t] = NoTransfer]
          BY <2>4 DEF CommitRequest, CommitRelease, Rollback
    <3>2. NoTransfer.pc = "idle" /\ transfers \in [Transfers -> TransferCall]
          BY DEF NoTransfer, TypeOK
    <3>3. QED BY <3>1, <3>2
  <2>5. ASSUME NEW e \in Epochs, ExpireLease(e) PROVE AskedBySystems'
        BY <2>5 DEF ExpireLease
  <2>6. QED BY <1>1, <2>1, <2>2, <2>3, <2>4, <2>5 DEF ControlNext
<1>2. CASE CommandNext
      BY <1>2, CommandEffect
<1>3. CASE LifecycleNext
      BY <1>3, LifecycleEffect
<1>4. CASE UNCHANGED vars
      BY <1>4 DEF vars
<1>5. QED BY <1>1, <1>2, <1>3, <1>4 DEF Next

\* A grant, once made, is kept, and an epoch without a row stays nobody's.
LEMMA GrantsStep ==
  TypeOK /\ AbsentIsNobody /\ [Next]_vars => GrantsKept /\ AbsentIsNobody'
<1> SUFFICES ASSUME TypeOK, AbsentIsNobody, [Next]_vars PROVE GrantsKept /\ AbsentIsNobody'
    OBVIOUS
<1>1. ASSUME NEW t \in Transfers, CommitRequest(t) PROVE GrantsKept /\ AbsentIsNobody'
  <2>1. PICK n \in Epochs :
           /\ leases[n].state = "absent"
           /\ leases'[n] = [holder |-> transfers[t].who, state |-> "live"]
           /\ \A e \in Epochs \ {n} : /\ leases'[e].holder = leases[e].holder
                                      /\ leases'[e].state = "absent" => leases[e].state = "absent"
        BY <1>1, CommitRequestRows
  <2>2. leases'[n].state = "live" /\ leases[n].holder = Nobody
        BY <2>1 DEF AbsentIsNobody
  <2>3. QED BY <2>1, <2>2 DEF GrantsKept, AbsentIsNobody
<1>2. CASE ~\E t \in Transfers : CommitRequest(t)
  <2>1. PICK es \in SUBSET Epochs : leases' = leases \/ leases' = Revoke(leases, es)
        BY <1>2, OtherSteps
  <2>2. ASSUME NEW e \in Epochs
        PROVE  /\ leases'[e].holder = leases[e].holder
               /\ leases'[e].state = "absent" => leases[e].state = "absent"
        BY <2>1, QuietRows
  <2>3. QED BY <2>2 DEF GrantsKept, AbsentIsNobody
<1>3. QED BY <1>1, <1>2

\* The controller after a step: the one before, nobody, or one just granted.
LEMMA HolderStep ==
  TypeOK /\ GInv /\ [Next]_vars => HolderGranted'
<1> SUFFICES ASSUME TypeOK, GInv, [Next]_vars PROVE HolderGranted'
    OBVIOUS
<1>1. ASSUME NEW t \in Transfers, CommitRequest(t) PROVE HolderGranted'
  <2>1. PICK n \in Epochs :
           /\ n = transfers[t].epoch
           /\ leases'[n] = [holder |-> transfers[t].who, state |-> "live"]
        BY <1>1, CommitRequestRows
  <2>2. session'.epoch = n /\ session'.controller = transfers[t].who
        BY <1>1, <2>1 DEF CommitRequest, TypeOK, Session
  <2>3. QED BY <2>1, <2>2 DEF HolderGranted
<1>2. ASSUME NEW t \in Transfers, CommitRelease(t) PROVE HolderGranted'
  <2>1. session'.controller = Nobody
        BY <1>2 DEF CommitRelease, TypeOK, Session
  <2>2. QED BY <2>1 DEF HolderGranted
<1>3. ASSUME session'.controller = session.controller, session'.epoch = session.epoch
      PROVE  HolderGranted'
  <2>1. PICK n \in Epochs : n = session.epoch
        BY DEF TypeOK, Session
  <2>2. leases[n].holder # Nobody => leases'[n].holder = leases[n].holder
        BY GrantsStep DEF GInv, GrantsKept
  <2>3. QED BY <1>3, <2>1, <2>2 DEF HolderGranted, GInv
<1>4. ASSUME NEW t \in Transfers,
             \/ \E who \in Systems : \/ RequestControl(t, who)
                                     \/ \E e \in Epochs : ReleaseControl(t, who, e)
             \/ Snapshot(t) \/ Rollback(t)
      PROVE  session' = session
      BY <1>4 DEF RequestControl, ReleaseControl, Snapshot, Rollback
<1>5. ASSUME NEW e \in Epochs, ExpireLease(e) PROVE session' = session
      BY <1>5 DEF ExpireLease
<1>6. CASE ControlNext
      BY <1>1, <1>2, <1>3, <1>4, <1>5, <1>6 DEF ControlNext
<1>7. CASE CommandNext
      BY <1>3, <1>7, CommandEffect
<1>8. CASE LifecycleNext
      BY <1>3, <1>8, LifecycleEffect
<1>9. CASE UNCHANGED vars
      BY <1>3, <1>9 DEF vars
<1>10. QED BY <1>6, <1>7, <1>8, <1>9 DEF Next

\* An interactive command in flight after a step was in flight before it, or
\* was admitted by it for whoever is in control.
Admitted(c) ==
  /\ calls'[c].who \in Controllers
  /\ calls'[c].who = session.controller /\ calls'[c].epoch = session.epoch
StaysInFlight(c) ==
  InFlight(c) /\ calls'[c].who = calls[c].who /\ calls'[c].epoch = calls[c].epoch

\* Lifecycle calls put no command in flight.
LEMMA LifecycleFlight ==
  ASSUME TypeOK, LifecycleNext, NEW c \in Calls, InFlight(c)'
  PROVE  calls'[c] = calls[c]
<1>1. calls \in [Calls -> Call]
      BY DEF TypeOK
<1>2. ASSUME NEW d \in Calls, NEW who \in Controllers, NEW e \in Epochs,
             Pause(d, who, e) \/ Resume(d, who, e) \/ End(d, who, e)
      PROVE  \E k : k.pc \notin {"authorised", "dispatched", "answered"}
                    /\ calls' = [calls EXCEPT ![d] = k]
  <2>1. PICK pc \in {"pausing", "resuming", "ending"} :
          calls' = [calls EXCEPT ![d] = [NoCall EXCEPT !.pc = pc, !.who = who, !.epoch = e]]
        BY <1>2 DEF Pause, Resume, End, Begin
  <2>2. [NoCall EXCEPT !.pc = pc, !.who = who, !.epoch = e].pc = pc
        BY DEF NoCall
  <2>3. QED BY <2>1, <2>2
<1>3. ASSUME NEW d \in Calls, NEW from, NEW s, NEW next \in {"idle", "closing"},
             SetStatus(d, from, s, next)
      PROVE  \E k : k.pc \notin {"authorised", "dispatched", "answered"}
                    /\ calls' = [calls EXCEPT ![d] = k]
  <2>1. [NoCall EXCEPT !.pc = next].pc = next
        BY DEF NoCall
  <2>2. QED BY <1>3, <2>1 DEF SetStatus
<1>4. ASSUME NEW d \in Calls, TerminateRead(d) \/ WorkerTerminate(d) \/ RevokeLeases(d)
      PROVE  \E k : k.pc \notin {"authorised", "dispatched", "answered"}
                    /\ calls' = [calls EXCEPT ![d] = k]
  <2>1. PICK pc \in {"idle", "terminating", "revoking", "closed"} :
          calls' = [calls EXCEPT ![d] = [NoCall EXCEPT !.pc = pc]]
    <3>1. [NoCall EXCEPT !.pc = "idle"] = NoCall
          BY DEF NoCall
    <3>2. QED BY <1>4, <3>1 DEF TerminateRead, WorkerTerminate, RevokeLeases
  <2>2. [NoCall EXCEPT !.pc = pc].pc = pc
        BY DEF NoCall
  <2>3. QED BY <2>1, <2>2
<1>5. PICK d \in Calls : \E k : k.pc \notin {"authorised", "dispatched", "answered"}
                                /\ calls' = [calls EXCEPT ![d] = k]
      BY <1>2, <1>3, <1>4
         DEF LifecycleNext, SetPaused, SetResumed, SetTerminating, SetTerminated
<1>6. PICK k : k.pc \notin {"authorised", "dispatched", "answered"}
               /\ calls' = [calls EXCEPT ![d] = k]
      BY <1>5
<1>7. QED BY <1>1, <1>6 DEF InFlight

\* No other step does either, except the admission of a command.
LEMMA FlightStep ==
  ASSUME TypeOK, [Next]_vars, NEW c \in Calls, InFlight(c)'
  PROVE  StaysInFlight(c) \/ (Admitted(c) /\ leases' = leases)
<1>1. calls \in [Calls -> Call] /\ calls[c] \in Call
      BY DEF TypeOK
<1>2. ASSUME calls'[c] = calls[c] PROVE StaysInFlight(c)
      BY <1>2 DEF StaysInFlight, InFlight
<1>3. CASE ControlNext
  <2>1. calls' = calls
        BY <1>3 DEF ControlNext, RequestControl, ReleaseControl, Snapshot, CommitRequest,
                    CommitRelease, Rollback, ExpireLease
  <2>2. QED BY <1>2, <2>1
<1>4. CASE CommandNext
  <2>1. ASSUME NEW d \in Calls, NEW who \in Controllers, NEW e \in Epochs,
               NEW k \in {Interactive, Capture}, RunCommand(d, who, e, k)
        PROVE  StaysInFlight(c) \/ Admitted(c)
    <3> DEFINE new == [NoCall EXCEPT !.pc = "authorised", !.who = who, !.kind = k, !.epoch = e,
                                     !.status = session.status, !.seq = session.lastSeq + 1]
    <3>1. new.kind = k /\ new.who = who /\ new.epoch = e
          BY DEF NoCall
    <3>2. calls' = [calls EXCEPT ![d] = new] /\ e = session.epoch
          BY <2>1 DEF RunCommand
    <3>3. k = Interactive => session.controller = who
          BY <2>1 DEF RunCommand
    <3> HIDE DEF new
    <3>4. CASE c = d
      <4>1. calls'[c] = new
            BY <1>1, <3>2, <3>4
      <4>2. k = Interactive
            BY <3>1, <4>1 DEF InFlight
      <4>3. QED BY <3>1, <3>2, <3>3, <4>1, <4>2 DEF Admitted
    <3>5. CASE c # d
          BY <1>1, <1>2, <3>2, <3>5
    <3>6. QED BY <3>4, <3>5
  <2>2. ASSUME NEW d \in Calls, WriteSequence(d) PROVE StaysInFlight(c)
        BY <1>1, <2>2 DEF WriteSequence, StaysInFlight, InFlight, Call
  <2>3. ASSUME NEW d \in Calls, Execute(d) \/ Refuse(d) PROVE StaysInFlight(c)
    <3>1. calls[d].pc = "dispatched"
          BY <2>3 DEF Execute, Refuse
    <3>2. PICK ok \in {"yes", "no"} : calls' = [calls EXCEPT ![d].pc = "answered", ![d].ok = ok]
          BY <2>3 DEF Execute, Refuse
    <3>3. QED BY <1>1, <3>1, <3>2 DEF StaysInFlight, InFlight, Call
  <2>4. ASSUME NEW d \in Calls, LoseCommand(d) \/ RecordResult(d) PROVE StaysInFlight(c)
    <3>1. calls' = [calls EXCEPT ![d] = NoCall] /\ NoCall.pc = "idle"
          BY <2>4 DEF LoseCommand, RecordResult, NoCall
    <3>2. QED BY <1>1, <1>2, <3>1 DEF InFlight
  <2>5. LoseContext => calls' = calls
        BY DEF LoseContext
  <2>6. leases' = leases
        BY <1>4, CommandEffect
  <2>7. QED BY <1>2, <1>4, <2>1, <2>2, <2>3, <2>4, <2>5, <2>6 DEF CommandNext
<1>5. CASE LifecycleNext
      BY <1>2, <1>5, LifecycleFlight
<1>6. CASE UNCHANGED vars
      BY <1>2, <1>6 DEF vars
<1>7. QED BY <1>3, <1>4, <1>5, <1>6 DEF Next

\* A command in flight keeps the grant it was admitted under.
LEMMA CommandStep == TypeOK /\ GInv /\ [Next]_vars => CommandGranted'
<1> SUFFICES ASSUME TypeOK, GInv, [Next]_vars, NEW c \in Calls, InFlight(c)'
             PROVE  calls'[c].who \in Controllers /\ leases'[calls'[c].epoch].holder = calls'[c].who
    BY DEF CommandGranted
<1>1. CASE StaysInFlight(c)
  <2>1. PICK n \in Epochs : n = calls[c].epoch
        BY DEF TypeOK, Call
  <2>2. calls[c].who \in Controllers /\ leases[n].holder = calls[c].who
        BY <1>1, <2>1 DEF GInv, CommandGranted, StaysInFlight
  <2>3. leases'[n].holder = leases[n].holder
    <3>1. leases[n].holder # Nobody
          BY <2>2
    <3>2. QED BY <3>1, GrantsStep DEF GInv, GrantsKept
  <2>4. QED BY <1>1, <2>1, <2>2, <2>3 DEF StaysInFlight
<1>2. CASE Admitted(c) /\ leases' = leases
      BY <1>2 DEF Admitted, GInv, HolderGranted
<1>3. QED BY <1>1, <1>2, FlightStep

\* Grants are kept in every reachable state.
THEOREM GrantInvariant == Spec => []GInv
<1>1. TypeOK /\ GInv /\ [Next]_vars => GInv'
      BY GrantsStep, AskedStep, HolderStep, CommandStep DEF GInv
<1>2. QED BY BrowserControlType, InitGInv, <1>1, PTL DEF Spec

\* However requests, releases and rollbacks overlap, two interactive commands
\* in flight under one epoch are one controller's.
THEOREM OneControllerEach == Spec => []OneControllerPerEpoch
<1>1. GInv => OneControllerPerEpoch
      BY DEF GInv, CommandGranted, OneControllerPerEpoch
<1>2. QED BY GrantInvariant, <1>1, PTL

-----------------------------------------------------------------------------
(* The lease *)

\* An allocated session is an initial state of ControlLease.
LEMMA RefinesInit == Init => CL!LeaseInit
<1> SUFFICES ASSUME Init PROVE CL!LeaseInit
    OBVIOUS
<1>1. PICK k \in Controllers :
        /\ session.controller = k /\ session.epoch = 1
        /\ leases = [e \in Epochs |-> IF e = 1 THEN [holder |-> k, state |-> "live"]
                                      ELSE [holder |-> Nobody, state |-> "absent"]]
      BY DEF Init
<1>2. \A e \in Epochs : leases[e].holder = IF e = 1 THEN k ELSE Nobody
      BY <1>1
<1>3. [e \in Epochs |-> leases[e].holder] = [e \in Epochs |-> IF e = 1 THEN k ELSE Nobody]
      BY <1>2
<1>4. LiveLeases = {1}
      BY <1>1 DEF LiveLeases
<1>5. QED BY <1>1, <1>3, <1>4 DEF CL!LeaseInit

\* A step that leaves controller, epoch and holders alone lets leases lapse.
LEMMA LapseStep ==
  ASSUME session'.controller = session.controller, session'.epoch = session.epoch,
         \A e \in Epochs : /\ leases'[e].holder = leases[e].holder
                           /\ leases'[e].state = "live" => leases[e].state = "live"
  PROVE  CL!LeaseNext
<1>1. LiveLeases' \subseteq LiveLeases
      BY DEF LiveLeases
<1>2. [e \in Epochs |-> leases[e].holder]' = [e \in Epochs |-> leases[e].holder]
      OBVIOUS
<1>3. CL!Lapse
      BY <1>1, <1>2 DEF CL!Lapse
<1>4. QED BY <1>3 DEF CL!LeaseNext

\* A request's commit grants an epoch nobody had.
LEMMA RequestGrants ==
  ASSUME TypeOK, GInv, NEW t \in Transfers, CommitRequest(t)
  PROVE  CL!LeaseNext
<1>1. PICK n \in Epochs :
         /\ n = transfers[t].epoch /\ leases[n].state = "absent"
         /\ leases'[n] = [holder |-> transfers[t].who, state |-> "live"]
         /\ \A e \in Epochs \ {n} : /\ leases'[e].holder = leases[e].holder
                                    /\ leases'[e].state = "live" => leases[e].state = "live"
      BY CommitRequestRows
<1>2. PICK k \in Systems : k = transfers[t].who
      BY DEF CommitRequest, GInv, AskedBySystems
<1>3. session'.controller = k /\ session'.epoch = n
      BY <1>1, <1>2 DEF CommitRequest, TypeOK, Session
<1>4. leases[n].holder = Nobody
      BY <1>1 DEF GInv, AbsentIsNobody
<1> DEFINE G == [e \in Epochs |-> leases[e].holder]
<1>5. G' = [G EXCEPT ![n] = k]
  <2>1. leases'[n].holder = k
        BY <1>1, <1>2
  <2>2. QED BY <1>1, <2>1
<1>6. n \in LiveLeases' /\ LiveLeases' \subseteq LiveLeases \cup {n}
      BY <1>1 DEF LiveLeases
<1>7. G[n] = Nobody
      BY <1>4
<1>8. CL!Transfer(k, n)
      BY <1>3, <1>5, <1>6, <1>7 DEF CL!Transfer
<1>9. QED BY <1>8 DEF CL!LeaseNext

\* A release's commit leaves control to nobody, past the first epoch.
LEMMA ReleaseGivesUp ==
  ASSUME TypeOK, WritesLaterEpoch, NEW t \in Transfers, CommitRelease(t)
  PROVE  CL!LeaseNext
<1>1. PICK n \in Epochs : n = transfers[t].epoch /\ n # 1
      BY DEF CommitRelease, WritesLaterEpoch, TypeOK, TransferCall
<1>2. session'.controller = Nobody /\ session'.epoch = n
      BY <1>1 DEF CommitRelease, TypeOK, Session
<1>3. ASSUME NEW e \in Epochs
      PROVE  /\ leases'[e].holder = leases[e].holder
             /\ leases'[e].state = "live" => leases[e].state = "live"
      BY <1>3, QuietRows DEF CommitRelease
<1>4. LiveLeases' \subseteq LiveLeases
      BY <1>3 DEF LiveLeases
<1>5. [e \in Epochs |-> leases[e].holder]' = [e \in Epochs |-> leases[e].holder]
      BY <1>3
<1>6. CL!GiveUp(n)
      BY <1>1, <1>2, <1>4, <1>5 DEF CL!GiveUp
<1>7. QED BY <1>6 DEF CL!LeaseNext

\* Every step maps to a step of ControlLease.
LEMMA RefinesNext ==
  ASSUME TypeOK, WritesLaterEpoch, GInv, [Next]_vars
  PROVE  [CL!LeaseNext]_(CL!leaseVars)
<1>1. CASE \E t \in Transfers : CommitRequest(t)
      BY <1>1, RequestGrants
<1>2. CASE \E t \in Transfers : CommitRelease(t)
      BY <1>2, ReleaseGivesUp
<1>3. CASE ~\E t \in Transfers : CommitRequest(t) \/ CommitRelease(t)
  <2>1. PICK es \in SUBSET Epochs : leases' = leases \/ leases' = Revoke(leases, es)
        BY <1>3, OtherSteps
  <2>2. ASSUME NEW e \in Epochs
        PROVE  /\ leases'[e].holder = leases[e].holder
               /\ leases'[e].state = "live" => leases[e].state = "live"
        BY <2>1, QuietRows
  <2>3. session'.controller = session.controller /\ session'.epoch = session.epoch
    <3>1. CASE ControlNext
          BY <1>3, <3>1 DEF ControlNext, RequestControl, ReleaseControl, Snapshot, Rollback,
                            ExpireLease
    <3>2. QED BY <3>1, CommandEffect, LifecycleEffect DEF Next, vars
  <2>4. QED BY <2>2, <2>3, LapseStep
<1>4. QED BY <1>1, <1>2, <1>3

\* With any number of control changes in progress, control of a session
\* implements ControlLease: no epoch is granted twice and no lease comes back.
THEOREM ControlRefinesLease == Spec => RefinesLease
<1>1. IInv => TypeOK /\ WritesLaterEpoch
      BY DEF IInv
<1>2. TypeOK /\ WritesLaterEpoch /\ GInv /\ [Next]_vars => [CL!LeaseNext]_(CL!leaseVars)
      BY RefinesNext
<1>3. QED BY BrowserControlInvariant, GrantInvariant, RefinesInit, <1>1, <1>2, PTL
             DEF Spec, RefinesLease, CL!LeaseSpec
=============================================================================
