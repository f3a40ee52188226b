------------------------ MODULE PublishedServicesProof ------------------------
(* Proofs about PublishedServices, for any services, capabilities and calls,   *)
(* and about ConnectorChannel, the connector the services are published over.  *)
EXTENDS PublishedServices, ConnectorChannel, TLAPS

(* Whoever is about to write a record's end has had its route closed, or the   *)
(* route was registered after that.                                            *)
ClosedBeforeEnd ==
  \A s \in Services :
    Ending(s) \/ svc[s].status \in {"revoked", "expired"} => s \notin carried \/ s \in late

(* A call that is about to sign has a service to sign for.                     *)
SignersHaveAService == \A p \in Calls : calls[p].pc = "sign" => calls[p].todo \subseteq Services

(* The inductive invariant. *)
IInv == TypeOK /\ ClosedBeforeEnd /\ SignersHaveAService

LEMMA InitEstablishes == Init => IInv
BY ServiceConstants
   DEF Init, IInv, TypeOK, ClosedBeforeEnd, SignersHaveAService, Service, Capability, Call, Idle,
       Pending, Ended, Ending, At

-----------------------------------------------------------------------------
(* Steps that leave the invariant's subjects alone *)

Gone == {"revoked", "expired"}
Loud == {"end", "sign"}

(* No call enters one of the places the invariant speaks of, no record ends,   *)
(* and a route appears only where its record is live or the step notes it.     *)
Quiet ==
  /\ \A q \in Calls : calls'[q].pc \in Loud => calls'[q] = calls[q]
  /\ \A s \in Services : svc'[s].status \in Gone => svc[s].status \in Gone
  /\ \A s \in Services : s \in carried' =>
       s \in late' \cup carried \/ (svc[s].status \notin Gone /\ ~Ending(s))
  /\ late \subseteq late'

LEMMA QuietKeeps == ASSUME IInv, TypeOK', Quiet PROVE IInv'
<1> USE DEF IInv, Quiet, Loud, Gone
<1>1. ClosedBeforeEnd'
  <2> SUFFICES ASSUME NEW s \in Services, Ending(s)' \/ svc'[s].status \in Gone, s \in carried'
               PROVE  s \in late'
    BY DEF ClosedBeforeEnd
  <2>1. Ending(s)' => Ending(s)
    BY DEF Ending, At
  <2> QED BY <2>1 DEF ClosedBeforeEnd
<1>2. SignersHaveAService'
  BY DEF SignersHaveAService
<1> QED BY <1>1, <1>2

(* What a step of one call does to the calls. *)
LEMMA OneCall ==
  ASSUME TypeOK, NEW p \in Calls, NEW x \in Call, Set(p, x)
  PROVE  /\ calls' \in [Calls -> Call] /\ calls'[p] = x
         /\ \A q \in Calls : q # p => calls'[q] = calls[q]
BY DEF TypeOK, Set

LEMMA IdleCall == Idle \in Call /\ Idle.pc = "idle"
BY DEF Idle, Call

-----------------------------------------------------------------------------
(* The actions *)

(* A call moves to a place the invariant does not speak of. *)
LEMMA QuietMove ==
  ASSUME IInv, NEW p \in Calls, NEW x \in Call, x.pc \notin Loud, Set(p, x),
         UNCHANGED <<svc, carried, cap, refused, session, withdrawn, late>>,
         faults' \in 0..MaxFaults
  PROVE  IInv'
<1>1. TypeOK'
  BY OneCall DEF IInv, TypeOK
<1>2. Quiet
  BY OneCall DEF IInv, Quiet
<1> QED BY <1>1, <1>2, QuietKeeps

LEMMA RequestKeeps == ASSUME IInv, NEW s \in Services, Request(s) PROVE IInv'
<1>1. TypeOK
  BY DEF IInv
<1>2. TypeOK' /\ Quiet
  BY <1>1 DEF Request, TypeOK, Service, Pending, Ended, Quiet, Gone
<1> QED BY <1>2, QuietKeeps

LEMMA PublicationKeeps ==
  ASSUME IInv, NEW s \in Services, NEW p \in Calls
  PROVE  /\ Create(p, s) => IInv'
         /\ SweepComplete(p, s) => IInv'
         /\ Publish(p, s) => IInv'
         /\ PublishAck(p, s) => IInv'
         /\ PublishRefused(p, s) => IInv'
         /\ GatewayRegister(p, s) => IInv'
         /\ \A heard \in {"no", "yes"} : GatewayRegisterFails(p, s, heard) => IInv'
         /\ MarkReady(p, s) => IInv'
         /\ MarkFailed(p, s) => IInv'
<1> DEFINE begun == [Idle EXCEPT !.pc = "publish", !.kind = "complete", !.at = {s}]
           to(pc) == [calls[p] EXCEPT !.pc = pc]
<1>1. TypeOK
  BY DEF IInv
<1>2. calls[p] \in Call /\ faults \in 0..MaxFaults /\ svc[s] \in Service
  BY <1>1 DEF TypeOK
<1>3. begun \in Call /\ begun.pc = "publish"
  BY DEF Idle, Call
<1>4. \A pc \in {"waiting", "register", "ready", "failing"} : to(pc) \in Call /\ to(pc).pc = pc
  BY <1>2 DEF Call
<1>5. "publish" \notin Loud /\ \A pc \in {"waiting", "register", "ready", "failing"} : pc \notin Loud
  BY DEF Loud
<1>6. Idle \in Call /\ Idle.pc \notin Loud
  BY IdleCall DEF Loud
<1> HIDE DEF begun, to
<1>7. ASSUME Create(p, s) PROVE IInv'
  <2>0. Set(p, begun)
    BY <1>7 DEF Create, begun
  <2>1. TypeOK'
    BY <1>1, <1>3, <1>7, <2>0, OneCall DEF Create, TypeOK, Service, Pending, Ended
  <2>2. \A q \in Calls : calls'[q].pc \in Loud => calls'[q] = calls[q]
    BY <1>1, <1>3, <1>5, <2>0, OneCall
  <2>3. Quiet
    BY <1>1, <1>7, <2>2 DEF Create, TypeOK, Quiet, Gone, Service
  <2> QED BY <2>1, <2>3, QuietKeeps
<1>8. ASSUME SweepComplete(p, s) PROVE IInv'
  BY <1>2, <1>3, <1>5, <1>8, QuietMove DEF SweepComplete, begun
<1>9. ASSUME Publish(p, s) PROVE IInv'
  <2>1. PICK pc \in {"waiting", "failing"} : Set(p, to(pc))
    BY <1>9 DEF Publish, Goto, to
  <2> QED BY <1>2, <1>4, <1>5, <1>9, <2>1, QuietMove DEF Publish
<1>10. ASSUME PublishAck(p, s) PROVE IInv'
  BY <1>2, <1>4, <1>5, <1>10, QuietMove DEF PublishAck, Goto, to
<1>11. ASSUME PublishRefused(p, s) PROVE IInv'
  BY <1>2, <1>4, <1>5, <1>11, QuietMove DEF PublishRefused, Goto, to
<1>12. ASSUME GatewayRegister(p, s) PROVE IInv'
  <2>1. PICK pc \in {"ready", "failing"} : Set(p, to(pc))
    BY <1>12 DEF GatewayRegister, Goto, to
  <2>2. calls' \in [Calls -> Call] /\ \A q \in Calls : calls'[q].pc \in Loud => calls'[q] = calls[q]
    BY <1>1, <1>4, <1>5, <2>1, OneCall
  <2>3. TypeOK'
    BY <1>1, <1>12, <2>2 DEF GatewayRegister, TypeOK, Late
  <2>4. Quiet
    BY <1>1, <1>12, <2>2 DEF GatewayRegister, Late, Quiet, Gone
  <2> QED BY <2>3, <2>4, QuietKeeps
<1>13. ASSUME NEW heard \in {"no", "yes"}, GatewayRegisterFails(p, s, heard) PROVE IInv'
  <2>1. Set(p, to("failing")) /\ faults' \in 0..MaxFaults
    BY <1>2, <1>13, ServiceConstants DEF GatewayRegisterFails, Goto, Fault, to
  <2>2. calls' \in [Calls -> Call] /\ \A q \in Calls : calls'[q].pc \in Loud => calls'[q] = calls[q]
    BY <1>1, <1>4, <1>5, <2>1, OneCall
  <2>3. TypeOK'
    BY <1>1, <1>13, <2>1, <2>2 DEF GatewayRegisterFails, TypeOK, Late
  <2>4. Quiet
    BY <1>1, <1>13, <2>2 DEF GatewayRegisterFails, Late, Quiet, Gone
  <2> QED BY <2>3, <2>4, QuietKeeps
<1>14. ASSUME MarkReady(p, s) PROVE IInv'
  <2>1. PICK x \in {Idle, to("failing")} : Set(p, x)
    BY <1>14 DEF MarkReady, Goto, to
  <2>2. calls' \in [Calls -> Call] /\ \A q \in Calls : calls'[q].pc \in Loud => calls'[q] = calls[q]
    BY <1>1, <1>4, <1>5, <1>6, <2>1, OneCall
  <2>3. TypeOK'
    BY <1>1, <1>14, <2>2 DEF MarkReady, TypeOK, Service, Pending, Ended
  <2>4. Quiet
    BY <1>1, <1>14, <2>2 DEF MarkReady, TypeOK, Quiet, Gone, Service
  <2> QED BY <2>3, <2>4, QuietKeeps
<1>15. ASSUME MarkFailed(p, s) PROVE IInv'
  <2>1. Set(p, Idle)
    BY <1>15 DEF MarkFailed
  <2>2. calls' \in [Calls -> Call] /\ \A q \in Calls : calls'[q].pc \in Loud => calls'[q] = calls[q]
    BY <1>1, <1>6, <2>1, OneCall
  <2>3. TypeOK'
    BY <1>1, <1>15, <2>2 DEF MarkFailed, TypeOK, Service, Pending, Ended
  <2>4. Quiet
    BY <1>1, <1>15, <2>2 DEF MarkFailed, TypeOK, Quiet, Gone, Service, Pending
  <2> QED BY <2>3, <2>4, QuietKeeps
<1> QED BY <1>7, <1>8, <1>9, <1>10, <1>11, <1>12, <1>13, <1>14, <1>15

LEMMA WithdrawalKeeps ==
  ASSUME IInv, NEW s \in Services, NEW p \in Calls
  PROVE  /\ BeginRevoke(p, s) => IInv'
         /\ TellGateway(p, s) => IInv'
         /\ TellGatewayFails(p, s) => IInv'
         /\ EndRecord(p, s) => IInv'
<1>1. TypeOK
  BY DEF IInv
<1>2. calls[p] \in Call /\ faults \in 0..MaxFaults /\ svc[s] \in Service
  BY <1>1 DEF TypeOK
<1>3. Idle \in Call /\ Idle.pc \notin Loud
  BY IdleCall DEF Loud
<1>4. ASSUME BeginRevoke(p, s) PROVE IInv'
  <2> DEFINE x == [Idle EXCEPT !.pc = "ending", !.kind = "revoke", !.todo = {s}]
  <2>1. x \in Call /\ x.pc \notin Loud
    BY DEF Idle, Call, Loud
  <2> HIDE DEF x
  <2> QED BY <1>2, <1>4, <2>1, QuietMove DEF BeginRevoke, x
<1>5. ASSUME TellGateway(p, s) PROVE IInv'
  <2> DEFINE told == [calls[p] EXCEPT !.pc = "end", !.todo = @ \ {s}, !.at = {s}]
  <2>1. told \in Call /\ told.pc = "end" /\ told.at = {s}
    BY <1>2 DEF Call
  <2>2. Set(p, told)
    BY <1>5 DEF TellGateway
  <2> HIDE DEF told
  <2>3. /\ calls' \in [Calls -> Call] /\ calls'[p] = told
        /\ \A q \in Calls : q # p => calls'[q] = calls[q]
    BY <1>1, <2>1, <2>2, OneCall
  <2>4. /\ carried' = carried \ {s} /\ refused' \subseteq Caps
        /\ UNCHANGED <<svc, cap, session, withdrawn, late, faults>>
    BY <1>1, <1>5 DEF TellGateway, GatewayRevoke, TypeOK
  <2>5. TypeOK'
    BY <1>1, <2>3, <2>4 DEF TypeOK
  <2>6. ClosedBeforeEnd'
    <3> SUFFICES ASSUME NEW r \in Services, Ending(r)' \/ svc'[r].status \in Gone, r \in carried'
                 PROVE  r \in late'
      BY DEF ClosedBeforeEnd, Gone
    <3>1. r # s
      BY <2>4
    <3>2. Ending(r)' => Ending(r)
      BY <2>1, <2>3, <3>1 DEF Ending, At
    <3> QED BY <2>4, <3>2 DEF IInv, ClosedBeforeEnd, Gone
  <2>7. SignersHaveAService'
    BY <2>1, <2>3 DEF IInv, SignersHaveAService
  <2> QED BY <2>5, <2>6, <2>7 DEF IInv
<1>6. ASSUME TellGatewayFails(p, s) PROVE IInv'
  BY <1>2, <1>3, <1>6, ServiceConstants, QuietMove DEF TellGatewayFails, Fault
<1>7. ASSUME EndRecord(p, s) PROVE IInv'
  <2> DEFINE back == [calls[p] EXCEPT !.pc = "ending", !.at = {}]
  <2>1. back \in Call /\ back.pc = "ending" /\ back.pc \notin Loud
    BY <1>2 DEF Call, Loud
  <2>2. Set(p, back)
    BY <1>7 DEF EndRecord
  <2> HIDE DEF back
  <2>3. /\ calls' \in [Calls -> Call]
        /\ \A q \in Calls : calls'[q].pc \in Loud => calls'[q] = calls[q]
    BY <1>1, <2>1, <2>2, OneCall
  <2>4. UNCHANGED <<carried, refused, session, withdrawn, late, faults>>
    BY <1>7 DEF EndRecord
  <2>5. CASE svc[s].status \notin Pending
    <3>1. TypeOK' /\ Quiet
      BY <1>1, <1>7, <2>3, <2>4, <2>5 DEF EndRecord, TypeOK, Quiet
    <3> QED BY <3>1, QuietKeeps
  <2>6. CASE svc[s].status \in Pending
    <3>1. /\ svc' \in [Services -> Service] /\ svc'[s].status \in Gone
          /\ \A r \in Services : r # s => svc'[r] = svc[r]
      BY <1>1, <1>7, <2>6 DEF EndRecord, TypeOK, Service, Ended, Gone
    <3>2. cap' = [c \in Caps |-> IF cap[c].of = {s} /\ cap[c].row = "live"
                                 THEN [cap[c] EXCEPT !.row = "revoked"] ELSE cap[c]]
      BY <1>7, <2>6 DEF EndRecord
    <3>3. \A c \in Caps : cap'[c] \in Capability
      BY <1>1, <3>2 DEF TypeOK, Capability
    <3>4. TypeOK'
      BY <1>1, <2>3, <2>4, <3>1, <3>2, <3>3 DEF TypeOK
    <3>5. ClosedBeforeEnd'
      <4> SUFFICES ASSUME NEW r \in Services, Ending(r)' \/ svc'[r].status \in Gone, r \in carried'
                   PROVE  r \in late'
        BY DEF ClosedBeforeEnd, Gone
      <4>1. Ending(r)' => Ending(r)
        BY <2>3 DEF Ending, At, Loud
      <4>2. Ending(s)
        BY <1>7 DEF EndRecord, Ending
      <4> QED BY <2>4, <3>1, <4>1, <4>2 DEF IInv, ClosedBeforeEnd, Gone
    <3>6. SignersHaveAService'
      BY <2>3 DEF IInv, SignersHaveAService, Loud
    <3> QED BY <3>4, <3>5, <3>6 DEF IInv
  <2> QED BY <2>5, <2>6
<1> QED BY <1>4, <1>5, <1>6, <1>7

LEMMA WithdrawalListsKeep ==
  ASSUME IInv, NEW p \in Calls
  PROVE  /\ BeginExpire(p) => IInv'
         /\ BeginRevokeConnector(p) => IInv'
         /\ EndingDone(p) => IInv'
         /\ \A claimed \in SUBSET Services : BeginReconcile(p, claimed) => IInv'
<1>1. TypeOK
  BY DEF IInv
<1>2. calls[p] \in Call /\ faults \in 0..MaxFaults
  BY <1>1 DEF TypeOK
<1>3. Idle \in Call /\ Idle.pc \notin Loud
  BY IdleCall DEF Loud
<1>4. ASSUME BeginExpire(p) PROVE IInv'
  <2> DEFINE x == [Idle EXCEPT !.pc = "ending", !.kind = "expire", !.todo = Due, !.lapsed = Due]
  <2>1. x \in Call /\ x.pc \notin Loud
    BY DEF Idle, Call, Loud, Due
  <2> HIDE DEF x
  <2> QED BY <1>2, <1>4, <2>1, QuietMove DEF BeginExpire, x
<1>5. ASSUME BeginRevokeConnector(p) PROVE IInv'
  <2> DEFINE live == {r \in Services : svc[r].status \in Pending}
             x == [Idle EXCEPT !.pc = "ending", !.kind = "connector", !.todo = live]
  <2>1. x \in Call /\ x.pc \notin Loud
    BY DEF Idle, Call, Loud
  <2>2. Set(p, x)
    BY <1>5 DEF BeginRevokeConnector
  <2> HIDE DEF live, x
  <2> QED BY <1>2, <1>5, <2>1, <2>2, QuietMove DEF BeginRevokeConnector
<1>6. ASSUME EndingDone(p) PROVE IInv'
  <2>1. Set(p, Idle)
    BY <1>6 DEF EndingDone
  <2>2. calls' \in [Calls -> Call] /\ \A q \in Calls : calls'[q].pc \in Loud => calls'[q] = calls[q]
    BY <1>1, <1>3, <2>1, OneCall
  <2>3. session' \in {"live", "degraded", "ended"} /\ (session' = "ended" <=> session = "ended")
    BY <1>1, <1>6 DEF EndingDone, TypeOK
  <2>4. TypeOK' /\ Quiet
    BY <1>1, <1>6, <2>2, <2>3 DEF EndingDone, TypeOK, Quiet
  <2> QED BY <2>4, QuietKeeps
<1>7. ASSUME NEW claimed \in SUBSET Services, BeginReconcile(p, claimed) PROVE IInv'
  <2> DEFINE continued == {r \in Services : svc[r].status = "ready"} \ Closed(claimed)
             x == [Idle EXCEPT !.pc = "ending", !.todo = Closed(claimed), !.lapsed = Lapsed,
                     !.kind = IF continued = {} THEN "reconcile" ELSE "resume"]
  <2>1. Closed(claimed) \in SUBSET Services /\ Lapsed \in SUBSET Services
    BY DEF Closed, Lapsed
  <2>2. x \in Call /\ x.pc \notin Loud
    BY <2>1 DEF Idle, Call, Loud
  <2>3. Set(p, x)
    BY <1>7 DEF BeginReconcile
  <2> HIDE DEF continued, x
  <2> QED BY <1>2, <1>7, <2>2, <2>3, QuietMove DEF BeginReconcile
<1> QED BY <1>4, <1>5, <1>6, <1>7

LEMMA MintingKeeps ==
  ASSUME IInv, NEW c \in Caps, NEW p \in Calls
  PROVE  /\ \A s \in Services : MintRead(p, s, c) => IInv'
         /\ MintSign(p, c) => IInv'
         /\ MintInsert(p, c) => IInv'
         /\ MintCommit(p, c) => IInv'
<1>1. TypeOK
  BY DEF IInv
<1>2. calls[p] \in Call /\ cap[c] \in Capability
  BY <1>1 DEF TypeOK
<1>3. ASSUME NEW s \in Services, MintRead(p, s, c) PROVE IInv'
  <2> DEFINE x == [Idle EXCEPT !.pc = "sign", !.kind = "mint", !.at = {c}, !.todo = {s}]
  <2>1. x \in Call /\ x.pc = "sign" /\ x.at = {c} /\ x.todo = {s}
    BY DEF Idle, Call
  <2>2. Set(p, x)
    BY <1>3 DEF MintRead
  <2> HIDE DEF x
  <2>3. /\ calls' \in [Calls -> Call] /\ calls'[p] = x
        /\ \A q \in Calls : q # p => calls'[q] = calls[q]
    BY <1>1, <2>1, <2>2, OneCall
  <2>4. UNCHANGED <<svc, carried, cap, refused, session, withdrawn, late, faults>>
    BY <1>3 DEF MintRead
  <2>5. TypeOK'
    BY <1>1, <2>3, <2>4 DEF TypeOK
  <2>6. ClosedBeforeEnd'
    <3>1. \A r \in Services : Ending(r)' => Ending(r)
      BY <2>1, <2>3 DEF Ending, At
    <3> QED BY <2>4, <3>1 DEF IInv, ClosedBeforeEnd
  <2>7. SignersHaveAService'
    BY <2>1, <2>3 DEF IInv, SignersHaveAService
  <2> QED BY <2>5, <2>6, <2>7 DEF IInv
<1>4. ASSUME NEW x \in Call, Set(p, x), x.pc \notin Loud, cap' \in [Caps -> Capability],
             UNCHANGED <<svc, carried, refused, session, withdrawn, late, faults>>
      PROVE  IInv'
  <2>1. TypeOK'
    BY <1>1, <1>4, OneCall DEF TypeOK
  <2>2. Quiet
    BY <1>1, <1>4, OneCall DEF Quiet
  <2> QED BY <2>1, <2>2, QuietKeeps
<1>5. Idle \in Call /\ Idle.pc \notin Loud
  BY IdleCall DEF Loud
<1>6. \A pc \in {"insert", "commit"} :
        LET x == [calls[p] EXCEPT !.pc = pc] IN x \in Call /\ x.pc \notin Loud
  BY <1>2 DEF Call, Loud
<1>7. ASSUME MintSign(p, c) PROVE IInv'
  <2> DEFINE x == [calls[p] EXCEPT !.pc = "insert"]
  <2>1. x \in Call /\ x.pc \notin Loud /\ Set(p, x)
    BY <1>6, <1>7 DEF MintSign, Goto
  <2>2. calls[p].todo \subseteq Services
    BY <1>7 DEF MintSign, At, IInv, SignersHaveAService
  <2>3. cap' \in [Caps -> Capability]
    BY <1>1, <1>7, <2>2 DEF MintSign, TypeOK, Capability
  <2> HIDE DEF x
  <2> QED BY <1>4, <1>7, <2>1, <2>3 DEF MintSign
<1>8. ASSUME MintInsert(p, c) PROVE IInv'
  <2> DEFINE x == [calls[p] EXCEPT !.pc = "commit"]
  <2>1. cap' \in [Caps -> Capability]
    BY <1>1, <1>8 DEF MintInsert, TypeOK, Capability
  <2>2. Set(p, x) \/ Set(p, Idle)
    BY <1>8 DEF MintInsert, Goto
  <2>3. x \in Call /\ x.pc \notin Loud
    BY <1>6
  <2> HIDE DEF x
  <2> QED BY <1>4, <1>5, <1>8, <2>1, <2>2, <2>3 DEF MintInsert
<1>9. ASSUME MintCommit(p, c) PROVE IInv'
  <2>1. cap' \in [Caps -> Capability]
    BY <1>1, <1>9 DEF MintCommit, TypeOK, Capability
  <2> QED BY <1>4, <1>5, <1>9, <2>1 DEF MintCommit
<1> QED BY <1>3, <1>7, <1>8, <1>9

LEMMA SessionEndKeeps ==
  ASSUME IInv, NEW p \in Calls
  PROVE  /\ \A c \in Caps, heard \in {"no", "yes"} : WithdrawOne(p, c, heard) => IInv'
         /\ BeginWithdraw(p) => IInv'
         /\ WithdrawRows(p) => IInv'
<1>1. TypeOK
  BY DEF IInv
<1>2. calls[p] \in Call /\ faults \in 0..MaxFaults
  BY <1>1 DEF TypeOK
<1>3. ASSUME NEW x \in Call, Set(p, x), x.pc \notin Loud, UNCHANGED <<svc, carried, session, late>>,
             cap' \in [Caps -> Capability], refused' \subseteq Caps, withdrawn' \in {"no", "yes"},
             faults' \in 0..MaxFaults
      PROVE  IInv'
  <2>1. TypeOK'
    BY <1>1, <1>3, OneCall DEF TypeOK
  <2>2. Quiet
    BY <1>1, <1>3, OneCall DEF Quiet
  <2> QED BY <2>1, <2>2, QuietKeeps
<1>4. ASSUME NEW c \in Caps, NEW heard \in {"no", "yes"}, WithdrawOne(p, c, heard) PROVE IInv'
  <2> DEFINE x == [calls[p] EXCEPT !.todo = @ \ {c}]
  <2>1. x \in Call /\ x.pc \notin Loud /\ Set(p, x)
    BY <1>2, <1>4 DEF WithdrawOne, Call, Loud
  <2> HIDE DEF x
  <2>2. /\ UNCHANGED <<svc, carried, cap, session, withdrawn, late>>
        /\ refused' \subseteq Caps /\ faults' \in 0..MaxFaults
    BY <1>1, <1>4, ServiceConstants DEF WithdrawOne, Fault, TypeOK
  <2>3. cap' \in [Caps -> Capability] /\ withdrawn' \in {"no", "yes"}
    BY <1>1, <2>2 DEF TypeOK
  <2> QED BY <1>3, <2>1, <2>2, <2>3
<1>5. ASSUME BeginWithdraw(p) PROVE IInv'
  <2> DEFINE live == {c \in Caps : cap[c].row = "live"}
             x == [Idle EXCEPT !.pc = "withdraw", !.kind = "session", !.todo = live]
  <2>1. x \in Call /\ x.pc \notin Loud
    BY DEF Idle, Call, Loud
  <2>2. Set(p, x)
    BY <1>5 DEF BeginWithdraw
  <2> HIDE DEF live, x
  <2> QED BY <1>2, <1>5, <2>1, <2>2, QuietMove DEF BeginWithdraw
<1>6. ASSUME WithdrawRows(p) PROVE IInv'
  <2>1. cap' \in [Caps -> Capability] /\ refused' \subseteq Caps
    BY <1>1, <1>6 DEF WithdrawRows, TypeOK, Capability
  <2>2. Idle \in Call /\ Idle.pc \notin Loud
    BY IdleCall DEF Loud
  <2> QED BY <1>2, <1>3, <1>6, <2>1, <2>2 DEF WithdrawRows
<1> QED BY <1>4, <1>5, <1>6

LEMMA SessionEndsKeeps == ASSUME IInv, SessionEnds PROVE IInv'
<1>1. TypeOK' /\ Quiet
  BY DEF IInv, SessionEnds, TypeOK, Quiet
<1> QED BY <1>1, QuietKeeps

LEMMA TimeKeeps ==
  ASSUME IInv, NEW s \in Services, Age(s) \/ Expires(s) \/ GatewayExpires(s)
  PROVE  IInv'
<1>1. TypeOK
  BY DEF IInv
<1>2. CASE Age(s) \/ Expires(s)
  <2>1. TypeOK' /\ Quiet
    BY <1>1, <1>2 DEF Age, Expires, TypeOK, Service, Quiet
  <2> QED BY <2>1, QuietKeeps
<1>3. CASE GatewayExpires(s)
  <2>1. TypeOK' /\ Quiet
    BY <1>1, <1>3 DEF GatewayExpires, GatewayRevoke, TypeOK, Quiet
  <2> QED BY <2>1, QuietKeeps
<1> QED BY <1>2, <1>3

LEMMA ConnectionsKeep == ASSUME IInv, Disconnect \/ GatewayRestart PROVE IInv'
<1>1. TypeOK
  BY DEF IInv
<1>2. CASE Disconnect
  <2>1. TypeOK' /\ Quiet
    BY <1>1, <1>2 DEF Disconnect, TypeOK, Quiet
  <2> QED BY <2>1, QuietKeeps
<1>3. CASE GatewayRestart
  <2>1. TypeOK' /\ Quiet
    BY <1>1, <1>3, ServiceConstants DEF GatewayRestart, Fault, TypeOK, Quiet
  <2> QED BY <2>1, QuietKeeps
<1> QED BY <1>2, <1>3

LEMMA DeathKeeps == ASSUME IInv, NEW p \in Calls, CallDies(p) PROVE IInv'
<1>1. TypeOK /\ faults' \in 0..MaxFaults
  BY ServiceConstants DEF IInv, TypeOK, CallDies, Fault
<1>2. /\ calls' \in [Calls -> Call] /\ calls'[p].pc = "idle"
      /\ \A q \in Calls : q # p => calls'[q] = calls[q]
  BY <1>1, IdleCall, OneCall DEF CallDies
<1>3. cap' \in [Caps -> Capability]
  BY <1>1 DEF CallDies, TypeOK, Capability
<1>4. TypeOK' /\ Quiet
  BY <1>1, <1>2, <1>3 DEF CallDies, TypeOK, Quiet, Loud
<1> QED BY <1>4, QuietKeeps

LEMMA NextKeeps == IInv /\ [Next]_vars => IInv'
<1> SUFFICES ASSUME IInv, [Next]_vars PROVE IInv'
  OBVIOUS
<1>1. CASE Publication
  BY <1>1, RequestKeeps, PublicationKeeps DEF Publication
<1>2. CASE Withdrawal
  <2>1. PICK p \in Calls :
          \/ \E s \in Services :
               BeginRevoke(p, s) \/ TellGateway(p, s) \/ TellGatewayFails(p, s) \/ EndRecord(p, s)
          \/ BeginExpire(p) \/ BeginRevokeConnector(p) \/ EndingDone(p)
          \/ \E claimed \in SUBSET Services : BeginReconcile(p, claimed)
    BY <1>2 DEF Withdrawal
  <2> QED BY <2>1, WithdrawalKeeps, WithdrawalListsKeep
<1>3. CASE Minting
  BY <1>3, MintingKeeps, SessionEndKeeps DEF Minting
<1>4. CASE Environment
  BY <1>4, TimeKeeps, SessionEndsKeeps, ConnectionsKeep, DeathKeeps DEF Environment
<1>5. CASE UNCHANGED vars
  BY <1>5 DEF vars, IInv, TypeOK, ClosedBeforeEnd, SignersHaveAService, Ending, At
<1> QED BY <1>1, <1>2, <1>3, <1>4, <1>5 DEF Next

-----------------------------------------------------------------------------
(* Theorems *)

(* Whatever the services, the capabilities and the calls at work on them, the
   inductive invariant holds in every reachable state (modules/published-services). *)
THEOREM PublishedInvariance == Spec => []IInv
BY InitEstablishes, NextKeeps, PTL DEF Spec

(* Type correctness of the records, the routes, the capabilities and the calls. *)
THEOREM PublishedType == Spec => []TypeOK
<1>1. IInv => TypeOK
  BY DEF IInv
<1> QED BY <1>1, PublishedInvariance, PTL

(* A record that was revoked or has expired is a route the gateway no longer
   carries, unless the route was registered once its ending had begun: revoke,
   expireDue and reconcile tell the gateway before they write. *)
THEOREM RevocationCloses == Spec => []RevokedMeansClosed
<1>1. IInv => RevokedMeansClosed
  BY DEF IInv, ClosedBeforeEnd, RevokedMeansClosed
<1> QED BY <1>1, PublishedInvariance, PTL

(* An ended record never changes again: markReady, markFailed and markEnded ask
   for its status in the statement that writes it. *)
THEOREM EndedStays == Spec => EndedIsFinal
<1> DEFINE Stays == \A s \in Services : svc[s].status \in Ended => svc'[s].status = svc[s].status
<1>1. ASSUME TypeOK, [Next]_vars PROVE Stays
  <2> SUFFICES ASSUME NEW s \in Services, svc[s].status \in Ended
               PROVE  svc'[s].status = svc[s].status
    OBVIOUS
  <2>1. svc \in [Services -> Service]
    BY <1>1 DEF TypeOK
  <2> USE <2>1 DEF Service, Pending, Ended
  <2>2. CASE Publication
    BY <2>2 DEF Publication, Request, Create, SweepComplete, Publish, PublishAck, PublishRefused,
                GatewayRegister, GatewayRegisterFails, MarkReady, MarkFailed
  <2>3. CASE Withdrawal
    <3>1. ASSUME NEW p \in Calls, NEW t \in Services, EndRecord(p, t)
          PROVE  svc'[s].status = svc[s].status
      BY <3>1 DEF EndRecord
    <3>2. CASE svc' = svc
      BY <3>2
    <3> QED
      BY <2>3, <3>1, <3>2 DEF Withdrawal, BeginRevoke, TellGateway, TellGatewayFails, BeginExpire,
                              BeginRevokeConnector, EndingDone, BeginReconcile
  <2>4. CASE Minting
    BY <2>4 DEF Minting, MintRead, MintSign, MintInsert, MintCommit, WithdrawOne, BeginWithdraw,
                WithdrawRows
  <2>5. CASE Environment
    BY <2>5 DEF Environment, Age, Expires, GatewayExpires, SessionEnds, Disconnect,
                GatewayRestart, CallDies
  <2>6. CASE UNCHANGED vars
    BY <2>6 DEF vars
  <2> QED BY <1>1, <2>2, <2>3, <2>4, <2>5, <2>6 DEF Next
<1>2. ASSUME TypeOK, [Next]_vars PROVE [Stays]_vars
  BY <1>1, <1>2
<1> QED BY <1>2, PublishedType, PTL DEF Spec, EndedIsFinal

-----------------------------------------------------------------------------
(***************************************************************************)
(* The connector behind the services: proofs about ConnectorChannel, for   *)
(* any sockets, routes and credentials.                                    *)
(***************************************************************************)

(* A revocation is of an enrolled connector, and from its fourth step on the   *)
(* record says so.                                                             *)
RevokesEnrolled ==
  /\ revoker.pc # "idle" => status # "NONE"
  /\ revoker.pc \in {"close", "done"} => status = "REVOKED"

(* Whoever may still hold the channel once the record says REVOKED was past    *)
(* the guard before.                                                           *)
HoldersAreEarly ==
  revoker.pc \in {"close", "done"} =>
    \A k \in Sockets : sock[k].pc \in {"upgraded", "connected", "marked"} \/ k \in current => k \in early

(* What the sweep did not revoke it did not find; what is not being issued     *)
(* when the record says REVOKED never will be.                                 *)
CredentialsAreEarly ==
  /\ revoker.pc \in {"detach", "flip"} =>
       \A c \in Credentials : cred[c] # "revoked" => c \in early
  /\ revoker.pc \in {"close", "done"} =>
       \A c \in Credentials : cred[c] \in {"resolved", "live"} => c \in early

(* The inductive invariant. *)
ChannelIInv == ChannelTypeOK /\ RevokesEnrolled /\ HoldersAreEarly /\ CredentialsAreEarly

LEMMA ChannelInitEstablishes == ChannelInit => ChannelIInv
BY DEF ChannelInit, ChannelIInv, ChannelTypeOK, RevokesEnrolled, HoldersAreEarly, CredentialsAreEarly,
       Statuses, Socket, NoSocket

-----------------------------------------------------------------------------
LEMMA SocketKeeps ==
  ASSUME ChannelIInv, NEW k \in Sockets, Channel(k)
  PROVE  ChannelIInv'
<1> USE DEF ChannelIInv, ChannelTypeOK, RevokesEnrolled, HoldersAreEarly, CredentialsAreEarly,
            Statuses, Socket, SetSock, Transition, RecordHeartbeat
<1>1. CASE Upgrade(k)
  <2> DEFINE up == [NoSocket EXCEPT !.pc = "upgraded", !.link = "up"]
  <2>1. up \in Socket /\ up.pc = "upgraded"
    BY DEF NoSocket
  <2>2. /\ status \notin {"NONE", "REVOKED"} /\ early' = early \ {k}
        /\ sock' = [sock EXCEPT ![k] = up]
        /\ UNCHANGED <<status, beat, current, pending, cred, monitor, revoker>>
    BY <1>1 DEF Upgrade, Admit
  <2> HIDE DEF up
  <2>3. ChannelTypeOK' /\ RevokesEnrolled' /\ HoldersAreEarly'
    BY <2>1, <2>2
  <2>4. CredentialsAreEarly'
    BY <2>2, IdentifiersAssumption
  <2> QED BY <2>3, <2>4
<1>2. CASE MarkConnected(k) \/ MarkBeat(k)
  BY <1>2 DEF MarkConnected, MarkBeat
<1>3. CASE Register(k)
  BY <1>3 DEF Register
<1>10. CASE RegisterOverflowed(k)
  <2> DEFINE over == [sock[k] EXCEPT !.pc = "refused", !.link = "down"]
  <2>0. sock[k] \in Socket
    OBVIOUS
  <2>1. over \in Socket /\ over.pc = "refused" /\ sock[k].pc = "marked"
    BY ONLY <1>10, <2>0 DEF RegisterOverflowed, Socket
  <2>2. /\ sock' = [sock EXCEPT ![k] = over] /\ current' = {k}
        /\ UNCHANGED <<status, beat, pending, cred, monitor, revoker, early>>
    BY <1>10 DEF RegisterOverflowed
  <2> HIDE DEF over
  <2>3. ChannelTypeOK' /\ RevokesEnrolled' /\ CredentialsAreEarly'
    BY <2>1, <2>2
  <2>4. HoldersAreEarly'
    BY <2>1, <2>2
  <2> QED BY <2>3, <2>4
<1>4. CASE Drop(k)
  BY <1>4 DEF Drop
<1>5. CASE Heartbeat(k)
  BY <1>5 DEF Heartbeat
<1>6. CASE HeartbeatRecovers(k)
  BY <1>6 DEF HeartbeatRecovers, Recoverable
<1>7. CASE \E r \in Routes : Acknowledge(k, r)
  BY <1>7 DEF Acknowledge
<1>8. CASE Unregister(k)
  BY <1>8 DEF Unregister, AfterClose
<1>9. CASE RecordClose(k)
  BY <1>9 DEF RecordClose
<1> QED BY <1>1, <1>2, <1>3, <1>4, <1>5, <1>6, <1>7, <1>8, <1>9, <1>10 DEF Channel

LEMMA RevocationKeeps ==
  ASSUME ChannelIInv, Revocation
  PROVE  ChannelIInv'
<1> USE DEF ChannelIInv, ChannelTypeOK, RevokesEnrolled, HoldersAreEarly, CredentialsAreEarly,
            Statuses
<1>1. CASE RevokeRoutes
  BY <1>1 DEF RevokeRoutes
<1>2. CASE RevokeCredentials
  BY <1>2 DEF RevokeCredentials, RevokedCredentials
<1>3. CASE RevokeDetach
  BY <1>3 DEF RevokeDetach
<1>4. CASE RevokeFlip
  BY <1>4 DEF RevokeFlip, Transition
<1>5. CASE RevokeClose
  BY <1>5 DEF RevokeClose, Socket
<1>6. CASE \E c \in Credentials : ExchangeResolve(c) \/ ExchangeIssue(c)
  BY <1>6 DEF ExchangeResolve, ExchangeIssue
<1> QED BY <1>1, <1>2, <1>3, <1>4, <1>5, <1>6 DEF Revocation

LEMMA ChannelNextKeeps == ChannelIInv /\ [ChannelNext]_channelVars => ChannelIInv'
<1> SUFFICES ASSUME ChannelIInv, [ChannelNext]_channelVars PROVE ChannelIInv'
  OBVIOUS
<1>1. CASE \E k \in Sockets : Channel(k)
  BY <1>1, SocketKeeps
<1>2. CASE Revocation
  BY <1>2, RevocationKeeps
<1> USE DEF ChannelIInv, ChannelTypeOK, RevokesEnrolled, HoldersAreEarly, CredentialsAreEarly,
            Statuses
<1>3. CASE Enrol
  BY <1>3 DEF Enrol
<1>4. CASE \E r \in Routes : PublishFrame(r) \/ PublishTimeout(r)
  BY <1>4 DEF PublishFrame, PublishTimeout
<1>5. CASE Silence
  BY <1>5 DEF Silence
<1>6. CASE Monitor
  BY <1>6 DEF Monitor, SweepBegin, SweepDisconnect, SweepDegradeList, SweepDegrade, Transition
<1>7. CASE UNCHANGED channelVars
  BY <1>7 DEF channelVars
<1> QED BY <1>1, <1>2, <1>3, <1>4, <1>5, <1>6, <1>7 DEF ChannelNext

-----------------------------------------------------------------------------
(* The inductive invariant holds in every reachable state.                     *)
THEOREM ConnectorInvariance == ChannelSpec => []ChannelIInv
BY ChannelInitEstablishes, ChannelNextKeeps, PTL DEF ChannelSpec

(* The types, with at most one channel in the registry.                        *)
THEOREM ConnectorType == ChannelSpec => []ChannelTypeOK
<1>1. ChannelIInv => ChannelTypeOK BY DEF ChannelIInv
<1> QED BY <1>1, ConnectorInvariance, PTL

(* A revocation that is through leaves neither channel nor credential, outside *)
(* the two windows (revocation.ts).                                            *)
THEOREM RevocationIsComplete == ChannelSpec => []RevokedHoldsNothing
<1>1. ChannelIInv => RevokedHoldsNothing
  BY DEF ChannelIInv, ChannelTypeOK, HoldersAreEarly, CredentialsAreEarly, RevokedHoldsNothing,
         RevokedHoldsNoChannel, RevokedHoldsNoCredential
<1> QED BY <1>1, ConnectorInvariance, PTL

(* No transition leads out of REVOKED (repository.ts, transitionConnector).    *)
THEOREM RevocationIsFinal == ChannelSpec => RevokedIsFinal
<1>1. [ChannelNext]_channelVars => [status = "REVOKED" => status' = "REVOKED"]_channelVars
  BY DEF ChannelNext, channelVars, Channel, Revocation, Monitor, Enrol, Upgrade,
         MarkConnected, MarkBeat, Register, RegisterOverflowed, Drop, Heartbeat, HeartbeatRecovers, Recoverable,
         Acknowledge, Unregister, RecordClose,
         PublishFrame, PublishTimeout, Silence, SweepBegin, SweepDisconnect, SweepDegradeList,
         SweepDegrade, RevokeRoutes, RevokeCredentials, RevokeDetach, RevokeFlip, RevokeClose,
         ExchangeResolve, ExchangeIssue, Transition
<1> QED BY <1>1, PTL DEF ChannelSpec, RevokedIsFinal

(* A socket whose link is up leaves the registry only for a newer one or for a *)
(* revocation (publication.ts, unregister).                                    *)
THEOREM ChannelStays == ChannelSpec => ChannelIsKept
<1> DEFINE A == \A k \in current :
                  sock[k].link = "up" /\ k \notin current' => current' # {} \/ revoker' # revoker
<1>1. ChannelIInv /\ [ChannelNext]_channelVars => [A]_channelVars
  <2> SUFFICES ASSUME ChannelIInv, ChannelNext, NEW k \in current,
                      sock[k].link = "up", k \notin current'
               PROVE  current' # {} \/ revoker' # revoker
    OBVIOUS
  <2>1. CASE \E j \in Sockets : Register(j) \/ RegisterOverflowed(j) \/ Unregister(j)
    BY <2>1 DEF Register, RegisterOverflowed, Unregister
  <2>2. CASE RevokeDetach
    BY <2>2 DEF RevokeDetach
  <2>3. CASE current' = current
    BY <2>3
  <2> QED
    BY <2>1, <2>2, <2>3
    DEF ChannelNext, Channel, Revocation, Monitor, Enrol, Upgrade, MarkConnected, MarkBeat, Drop, Heartbeat,
        HeartbeatRecovers, Acknowledge, RecordClose, PublishFrame, PublishTimeout, Silence,
        SweepBegin, SweepDisconnect, SweepDegradeList, SweepDegrade, RevokeRoutes,
        RevokeCredentials, RevokeFlip, RevokeClose, ExchangeResolve, ExchangeIssue
<1> QED BY <1>1, ConnectorInvariance, PTL DEF ChannelSpec, ChannelIsKept

=============================================================================
