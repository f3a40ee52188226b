------------------------ MODULE BrowserLifecycleProof ------------------------
(***************************************************************************)
(* For every set of sessions and of concurrent calls, every capacity and   *)
(* any number of faults: a reservation costs at most one browser and one   *)
(* capability.  The argument is that only the call whose guarded write     *)
(* took the row out of REQUESTED is between the claim and the worker, that *)
(* no row returns to REQUESTED, and that the worker is asked by that call  *)
(* alone.  Nearly every step leaves those facts alone: it is `quiet`.      *)
(***************************************************************************)
EXTENDS BrowserLifecycle, TLAPS

\* The statuses of a reservation nobody has claimed.
Unclaimed == {"ABSENT", "REQUESTED"}
\* Where a call is between its claim and the worker.
Holding == {"binding", "writing", "dispatching"}

Holds(c, s) == calls[c].pc \in Holding /\ calls[c].session = s

\* A call past its first read works on a session.
CallHasSession ==
  \A c \in Calls : calls[c].pc \notin {"idle", "creating"} => calls[c].session \in Sessions

\* Nothing was done for a reservation nobody claimed.
UnclaimedIsUntouched ==
  \A s \in Sessions : row[s].status \in Unclaimed =>
    /\ opened[s] = 0 /\ minted[s] = 0
    /\ \A c \in Calls : ~Holds(c, s)

\* One call holds a reservation; until it has asked the worker there is no
\* browser, and until it has bound the route no capability.
OneHolder ==
  \A c \in Calls, s \in Sessions : Holds(c, s) =>
    /\ \A d \in Calls : Holds(d, s) => d = c
    /\ opened[s] = 0 /\ worker.launching[s] = 0
    /\ calls[c].pc = "binding" => minted[s] = 0

\* The worker launches the first browser of a session, or none.
LaunchIsFirst ==
  \A s \in Sessions : worker.launching[s] <= 1 /\ (worker.launching[s] > 0 => opened[s] = 0)

IInv ==
  /\ TypeOK
  /\ CallHasSession
  /\ UnclaimedIsUntouched
  /\ OneHolder
  /\ LaunchIsFirst
  /\ OneBrowserPerReservation

USE LifecycleConstants

-----------------------------------------------------------------------------
(* Quiet steps *)

\* The rows keep their shape and none becomes unclaimed again.
RowsQuiet ==
  /\ row' \in [Sessions -> Row]
  /\ \A s \in Sessions :
       /\ row'[s].status \in Terminal => row'[s].ended = "yes"
       /\ row'[s].status \in Unclaimed => row[s].status \in Unclaimed

\* The calls keep their shape and none comes to hold a reservation.
CallsQuiet ==
  /\ calls' \in [Calls -> Call]
  /\ \A c \in Calls :
       /\ calls'[c].pc \notin {"idle", "creating"} => calls'[c].session \in Sessions
       /\ calls'[c].pc \in Holding =>
            /\ calls[c].pc \in Holding /\ calls[c].session = calls'[c].session
            /\ calls'[c].pc = "binding" => calls[c].pc = "binding"

\* The worker may close what it has and begins nothing.
WorkerQuiet ==
  /\ worker' \in Worker
  /\ \A s \in Sessions : worker'.launching[s] <= worker.launching[s]
  /\ worker'.contexts \subseteq worker.contexts

OthersTyped == reports' \subseteq Report /\ monitor' \in Monitor

Quiet ==
  /\ RowsQuiet /\ CallsQuiet /\ WorkerQuiet /\ OthersTyped
  /\ UNCHANGED <<opened, minted>>

\* A quiet step keeps the invariant.
LEMMA QuietIInv == IInv /\ Quiet => IInv'
<1> SUFFICES ASSUME IInv, Quiet PROVE IInv'
    OBVIOUS
<1>1. TypeOK'
  <2>1. ASSUME NEW s \in Sessions, worker'.launching[s] > 0 \/ s \in worker'.contexts
        PROVE  row'[s].status \notin {"ABSENT", "REQUESTED"}
    <3>1. worker.launching[s] > 0 \/ s \in worker.contexts
          BY <2>1 DEF Quiet, WorkerQuiet, IInv, TypeOK, Worker
    <3>2. row[s].status \notin {"ABSENT", "REQUESTED"}
          BY <3>1 DEF IInv, TypeOK
    <3>3. QED BY <3>2 DEF Quiet, RowsQuiet, Unclaimed
  <2>2. QED BY <2>1 DEF Quiet, RowsQuiet, CallsQuiet, WorkerQuiet, OthersTyped, IInv, TypeOK
<1>2. CallHasSession'
      BY DEF Quiet, CallsQuiet, CallHasSession
<1>3. ASSUME NEW c \in Calls, NEW s \in Sessions, Holds(c, s)'
      PROVE  Holds(c, s) /\ (calls'[c].pc = "binding" => calls[c].pc = "binding")
      BY <1>3 DEF Quiet, CallsQuiet, Holds
<1>4. UnclaimedIsUntouched'
      BY <1>3 DEF Quiet, RowsQuiet, IInv, UnclaimedIsUntouched
<1>5. OneHolder'
  <2>1. ASSUME NEW s \in Sessions, worker.launching[s] = 0 PROVE worker'.launching[s] = 0
        BY <2>1 DEF Quiet, WorkerQuiet, Worker
  <2>2. QED BY <1>3, <2>1 DEF Quiet, IInv, OneHolder
<1>6. LaunchIsFirst'
      BY DEF Quiet, WorkerQuiet, IInv, TypeOK, Worker, LaunchIsFirst
<1>7. OneBrowserPerReservation'
      BY DEF Quiet, IInv, OneBrowserPerReservation
<1>8. QED BY <1>1, <1>2, <1>4, <1>5, <1>6, <1>7 DEF IInv

\* What a step leaves alone is quiet.
LEMMA Unchanged ==
  ASSUME IInv
  PROVE  /\ UNCHANGED row => RowsQuiet
         /\ UNCHANGED calls => CallsQuiet
         /\ UNCHANGED worker => WorkerQuiet
         /\ UNCHANGED reports => reports' \subseteq Report
         /\ UNCHANGED monitor => monitor' \in Monitor
<1>1. UNCHANGED row => RowsQuiet
      BY DEF IInv, TypeOK, RowsQuiet
<1>2. UNCHANGED calls => CallsQuiet
      BY DEF IInv, TypeOK, CallHasSession, CallsQuiet
<1>3. UNCHANGED worker => WorkerQuiet
      BY DEF IInv, TypeOK, Worker, WorkerQuiet
<1>4. QED BY <1>1, <1>2, <1>3 DEF IInv, TypeOK

\* Writing one row is quiet when the new one is well formed and claimed.
LEMMA WriteRow ==
  ASSUME IInv, NEW s, NEW r \in Row,
         r.status \in Terminal => r.ended = "yes",
         r.status \in Unclaimed => row[s].status \in Unclaimed,
         row' = [row EXCEPT ![s] = r]
  PROVE  RowsQuiet
<1>1. row \in [Sessions -> Row] /\ row' \in [Sessions -> Row]
      BY DEF IInv, TypeOK
<1>2. ASSUME NEW x \in Sessions
      PROVE  /\ row'[x].status \in Terminal => row'[x].ended = "yes"
             /\ row'[x].status \in Unclaimed => row[x].status \in Unclaimed
      BY <1>1, <1>2 DEF IInv, TypeOK
<1>3. QED BY <1>1, <1>2 DEF RowsQuiet

\* #setStatus, with or without #revokeLeases, of anything but an unclaimed
\* status is quiet.
LEMMA SetStatusRow ==
  ASSUME IInv, NEW s \in Sessions, NEW st \in Statuses \ Unclaimed,
         NEW r, r = row[s] \/ r = Released(row[s]),
         row' = [row EXCEPT ![s] = WithStatus(r, st)]
  PROVE  RowsQuiet
<1>1. row[s] \in Row
      BY DEF IInv, TypeOK
<1>2. r \in Row
      BY <1>1 DEF Released, Row
<1>3. st \in Statuses /\ st \notin Unclaimed
      OBVIOUS
<1>4. WithStatus(r, st) \in Row /\ WithStatus(r, st).status = st
      BY <1>2, <1>3 DEF WithStatus, Row
<1>5. st \in Terminal => WithStatus(r, st).ended = "yes"
      BY <1>2 DEF WithStatus, Row
<1>6. QED BY <1>3, <1>4, <1>5, WriteRow

\* A call that goes anywhere but into the claimed steps is quiet.
LEMMA StepCall ==
  ASSUME IInv, NEW c \in Calls, NEW k \in Call, k.pc \notin Holding,
         k.pc \notin {"idle", "creating"} => k.session \in Sessions,
         calls' = [calls EXCEPT ![c] = k]
  PROVE  CallsQuiet
<1>1. calls \in [Calls -> Call] /\ calls' \in [Calls -> Call]
      BY DEF IInv, TypeOK
<1>2. ASSUME NEW d \in Calls
      PROVE  /\ calls'[d].pc \notin {"idle", "creating"} => calls'[d].session \in Sessions
             /\ calls'[d].pc \in Holding =>
                  /\ calls[d].pc \in Holding /\ calls[d].session = calls'[d].session
                  /\ calls'[d].pc = "binding" => calls[d].pc = "binding"
      BY <1>1, <1>2 DEF IInv, CallHasSession
<1>3. QED BY <1>1, <1>2 DEF CallsQuiet

\* A call that returns is quiet.
LEMMA ReturnCall ==
  ASSUME IInv, NEW c \in Calls, Return(c)
  PROVE  CallsQuiet
<1>1. NoCall \in Call /\ NoCall.pc = "idle"
      BY DEF NoCall, Call
<1>2. QED BY <1>1, StepCall DEF Return, Holding

\* A call that goes on at a step past the worker is quiet.
LEMMA StepOn ==
  ASSUME IInv, NEW c \in Calls, NEW s \in Sessions,
         NEW pc \in {"claiming", "waiting", "answered", "refused", "failing", "dropping",
                     "terminating", "closing", "closed"},
         NEW arg \in {"none", "route"} \cup Statuses,
         Step(c, pc, s, arg)
  PROVE  CallsQuiet
<1> DEFINE k == [pc |-> pc, session |-> s, arg |-> arg]
<1>1. k \in Call /\ k.pc \notin Holding /\ k.session \in Sessions
      BY DEF Call, Holding
<1>2. calls' = [calls EXCEPT ![c] = k]
      BY DEF Step
<1> HIDE DEF k
<1>3. QED BY <1>1, <1>2, StepCall

\* Asking the worker to terminate is quiet.
LEMMA AskQuiet ==
  ASSUME IInv, NEW s \in Sessions, AskTerminate(s)
  PROVE  WorkerQuiet /\ reports' \subseteq Report
<1>1. worker \in Worker /\ reports \subseteq Report
      BY DEF IInv, TypeOK
<1>2. CASE WorkerTerminates(s)
  <2>1. WorkerQuiet
        BY <1>1, <1>2 DEF WorkerTerminates, WorkerQuiet, Worker
  <2>2. [session |-> s, status |-> "TERMINATED"] \in Report
        BY DEF Report
  <2>3. QED BY <1>1, <1>2, <2>1, <2>2 DEF WorkerTerminates
<1>3. CASE UNCHANGED <<worker, reports>>
      BY <1>3, Unchanged
<1>4. QED BY <1>2, <1>3 DEF AskTerminate

-----------------------------------------------------------------------------
(* The steps that are not quiet *)

\* The guarded claim makes its call the only holder.
LEMMA ClaimIInv ==
  ASSUME IInv, NEW c \in Calls, ClaimForAllocation(c)
  PROVE  IInv'
<1> DEFINE s == calls[c].session
           pc == IF calls[c].arg = "route" THEN "binding" ELSE "dispatching"
<1>0. s \in Sessions /\ calls \in [Calls -> Call] /\ row \in [Sessions -> Row]
      BY DEF IInv, CallHasSession, ClaimForAllocation, TypeOK
<1>1. UNCHANGED <<worker, reports, monitor, opened, minted>>
      BY DEF ClaimForAllocation
<1>2. CASE row[s].status # "REQUESTED"
  <2>1. UNCHANGED row /\ Return(c)
        BY <1>2 DEF ClaimForAllocation
  <2>2. QED BY <1>1, <2>1, Unchanged, ReturnCall, QuietIInv DEF Quiet, OthersTyped
<1>3. CASE row[s].status = "REQUESTED"
  <2>1. /\ row' = [row EXCEPT ![s].status = "ALLOCATING"]
        /\ calls' = [calls EXCEPT ![c] = [pc |-> pc, session |-> s, arg |-> "none"]]
        BY <1>3 DEF ClaimForAllocation, Step
  <2>2. opened[s] = 0 /\ minted[s] = 0 /\ worker.launching[s] = 0
        BY <1>0, <1>3 DEF IInv, UnclaimedIsUntouched, Unclaimed, TypeOK, Worker
  <2>3. \A d \in Calls : ~Holds(d, s)
        BY <1>0, <1>3 DEF IInv, UnclaimedIsUntouched, Unclaimed
  <2>4. [pc |-> pc, session |-> s, arg |-> "none"] \in Call /\ pc \in Holding
        BY <1>0 DEF Call, Holding
  <2>5. row[s] \in Row /\ [row[s] EXCEPT !.status = "ALLOCATING"] \in Row
        BY <1>0 DEF Row, Statuses
  <2>6. RowsQuiet
    <3>1. row' = [row EXCEPT ![s] = [row[s] EXCEPT !.status = "ALLOCATING"]]
          BY <2>1
    <3>2. [row[s] EXCEPT !.status = "ALLOCATING"].status = "ALLOCATING"
          BY <2>5 DEF Row
    <3>3. QED BY <2>5, <3>1, <3>2, WriteRow DEF Terminal, Unclaimed
  <2>7. calls' \in [Calls -> Call]
        BY <1>0, <2>1, <2>4
  <2>8. calls'[c].pc = pc /\ calls'[c].session = s
        BY <1>0, <2>1
  <2> HIDE DEF s, pc
  <2>9. \A d \in Calls : d # c => calls'[d] = calls[d]
        BY <1>0, <2>1
  <2>10. row'[s].status = "ALLOCATING" /\ \A x \in Sessions : x # s => row'[x] = row[x]
        BY <1>0, <2>1, <2>5 DEF Row
  <2>11. TypeOK'
    <3>1. ASSUME NEW x \in Sessions, worker.launching[x] > 0 \/ x \in worker.contexts
          PROVE  row'[x].status \notin {"ABSENT", "REQUESTED"}
          BY <2>10, <3>1 DEF IInv, TypeOK
    <3>2. QED BY <1>1, <2>6, <2>7, <3>1 DEF RowsQuiet, IInv, TypeOK
  <2>12. CallHasSession'
        BY <1>0, <2>8, <2>9 DEF IInv, CallHasSession
  <2>13. \A d \in Calls, x \in Sessions :
          Holds(d, x)' => (d = c /\ x = s) \/ (d # c /\ x # s /\ Holds(d, x))
        BY <2>3, <2>8, <2>9 DEF Holds
  <2>14. UnclaimedIsUntouched'
        BY <1>1, <2>10, <2>13 DEF IInv, UnclaimedIsUntouched, Unclaimed
  <2>15. OneHolder'
        BY <1>1, <2>2, <2>9, <2>13 DEF IInv, OneHolder
  <2>16. QED BY <1>1, <2>11, <2>12, <2>14, <2>15 DEF IInv, LaunchIsFirst, OneBrowserPerReservation
<1>4. QED BY <1>2, <1>3

\* The holder mints the session's first capability.
LEMMA BindIInv ==
  ASSUME IInv, NEW c \in Calls, Bind(c)
  PROVE  IInv'
<1> DEFINE s == calls[c].session
<1>0. s \in Sessions /\ calls \in [Calls -> Call] /\ minted \in [Sessions -> Nat]
      BY DEF IInv, CallHasSession, Bind, TypeOK
<1>1. /\ calls[c].pc = "binding"
      /\ minted' = [minted EXCEPT ![s] = @ + 1]
      /\ calls' = [calls EXCEPT ![c] = [pc |-> "writing", session |-> s, arg |-> "none"]]
      /\ UNCHANGED <<row, worker, reports, monitor, opened>>
      BY DEF Bind, Step
<1>2. Holds(c, s)
      BY <1>1 DEF Holds, Holding
<1>3. minted[s] = 0 /\ \A d \in Calls : Holds(d, s) => d = c
      BY <1>0, <1>1, <1>2 DEF IInv, OneHolder
<1>4. calls' \in [Calls -> Call]
  <2>1. [pc |-> "writing", session |-> s, arg |-> "none"] \in Call
        BY <1>0 DEF Call
  <2>2. QED BY <1>0, <1>1, <2>1
<1> HIDE DEF s
<1>5. /\ calls'[c].pc = "writing" /\ calls'[c].session = s
      /\ \A d \in Calls : d # c => calls'[d] = calls[d]
      BY <1>0, <1>1
<1>6. /\ minted' \in [Sessions -> Nat] /\ minted'[s] = 1
      /\ \A x \in Sessions : x # s => minted'[x] = minted[x]
      BY <1>0, <1>1, <1>3
<1>7. \A d \in Calls, x \in Sessions : Holds(d, x)' => Holds(d, x) /\ (x = s => d = c)
      BY <1>2, <1>3, <1>5 DEF Holds
<1>8. TypeOK'
      BY <1>1, <1>4, <1>6 DEF IInv, TypeOK
<1>9. CallHasSession'
      BY <1>0, <1>5 DEF IInv, CallHasSession
<1>10. UnclaimedIsUntouched'
      BY <1>0, <1>1, <1>2, <1>6, <1>7 DEF IInv, UnclaimedIsUntouched
<1>11. OneHolder'
  <2>1. ASSUME NEW d \in Calls, NEW x \in Sessions, Holds(d, x)'
        PROVE  /\ \A e \in Calls : Holds(e, x)' => e = d
               /\ opened'[x] = 0 /\ worker'.launching[x] = 0
               /\ calls'[d].pc = "binding" => minted'[x] = 0
    <3>1. Holds(d, x) /\ \A e \in Calls : Holds(e, x)' => Holds(e, x)
          BY <1>7, <2>1
    <3>2. /\ \A e \in Calls : Holds(e, x) => e = d
          /\ opened[x] = 0 /\ worker.launching[x] = 0
          /\ calls[d].pc = "binding" => minted[x] = 0
          BY <3>1 DEF IInv, OneHolder
    <3>3. calls'[d].pc = "binding" => minted'[x] = 0
          BY <1>5, <1>6, <1>7, <2>1, <3>2
    <3>4. QED BY <1>1, <3>1, <3>2, <3>3
  <2>2. QED BY <2>1 DEF OneHolder
<1>12. LaunchIsFirst'
      BY <1>1 DEF IInv, LaunchIsFirst
<1>13. OneBrowserPerReservation'
      BY <1>1, <1>6 DEF IInv, OneBrowserPerReservation
<1>14. QED BY <1>8, <1>9, <1>10, <1>11, <1>12, <1>13 DEF IInv

\* The worker begins to launch for the holder, which holds no longer.
LEMMA AdmitIInv ==
  ASSUME IInv, NEW c \in Calls, WorkerAdmits(c)
  PROVE  IInv'
<1> DEFINE s == calls[c].session
<1>0. s \in Sessions /\ calls \in [Calls -> Call] /\ worker \in Worker
      BY DEF IInv, CallHasSession, WorkerAdmits, TypeOK
<1>1. calls[c].pc = "dispatching" /\ UNCHANGED <<row, reports, monitor, opened, minted>>
      BY DEF WorkerAdmits
<1>2. CASE /\ worker' = [worker EXCEPT !.launching[s] = @ + 1]
           /\ Step(c, "waiting", s, "none")
  <2>2. Holds(c, s)
        BY <1>1 DEF Holds, Holding
  <2>3. /\ opened[s] = 0 /\ worker.launching[s] = 0
        /\ \A d \in Calls : Holds(d, s) => d = c
        /\ row[s].status \notin Unclaimed
        BY <1>0, <2>2 DEF IInv, OneHolder, UnclaimedIsUntouched
  <2>4. CallsQuiet
        BY <1>0, <1>2, StepOn
  <2>5. /\ worker' \in Worker /\ worker'.contexts = worker.contexts
        /\ worker'.launching[s] = 1
        /\ \A x \in Sessions : x # s => worker'.launching[x] = worker.launching[x]
        BY <1>0, <1>2, <2>3 DEF Worker
  <2>6. calls'[c].pc = "waiting"
        BY <1>0, <1>2 DEF Step
  <2> HIDE DEF s
  <2>7. \A d \in Calls, x \in Sessions :
          Holds(d, x)' => /\ Holds(d, x) /\ x # s
                          /\ calls'[d].pc = "binding" => calls[d].pc = "binding"
        BY <2>3, <2>4, <2>6 DEF CallsQuiet, Holds, Holding
  <2>8. TypeOK'
    <3>1. ASSUME NEW x \in Sessions, worker'.launching[x] > 0 \/ x \in worker'.contexts
          PROVE  row'[x].status \notin {"ABSENT", "REQUESTED"}
          BY <1>1, <2>3, <2>5, <3>1 DEF IInv, TypeOK, Unclaimed
    <3>2. QED BY <1>1, <2>4, <2>5, <3>1 DEF CallsQuiet, IInv, TypeOK
  <2>9. CallHasSession'
        BY <2>4 DEF CallsQuiet, CallHasSession
  <2>10. UnclaimedIsUntouched'
        BY <1>1, <2>7 DEF IInv, UnclaimedIsUntouched
  <2>11. OneHolder'
        BY <1>1, <2>5, <2>7 DEF IInv, OneHolder
  <2>12. LaunchIsFirst'
        BY <1>1, <2>3, <2>5 DEF IInv, LaunchIsFirst
  <2>13. QED BY <1>1, <2>8, <2>9, <2>10, <2>11, <2>12 DEF IInv, OneBrowserPerReservation
<1>3. CASE UNCHANGED worker /\ (Step(c, "answered", s, "none") \/ Step(c, "refused", s, "none"))
  <2>1. CallsQuiet
        BY <1>0, <1>3, StepOn
  <2>2. QED BY <1>1, <1>3, <2>1, Unchanged, QuietIInv DEF Quiet, OthersTyped
<1>4. QED BY <1>2, <1>3 DEF WorkerAdmits

\* Answering who waits is quiet.
LEMMA AnswerQuiet ==
  ASSUME IInv, NEW s \in Sessions, NEW pc \in {"answered", "refused"}, Answer(s, pc)
  PROVE  CallsQuiet
<1>1. UNCHANGED calls \/ \E c \in Calls : Step(c, pc, s, "none")
      BY DEF Answer
<1>2. QED BY <1>1, Unchanged, StepOn

\* The browser that opens is the session's first.
LEMMA OpenIInv ==
  ASSUME IInv, NEW s \in Sessions, WorkerOpens(s)
  PROVE  IInv'
<1>0. opened \in [Sessions -> Nat] /\ worker \in Worker /\ worker.launching[s] > 0
      BY DEF IInv, TypeOK, WorkerOpens
<1>1. /\ opened[s] = 0 /\ worker.launching[s] = 1
      /\ \A c \in Calls : ~Holds(c, s)
      BY <1>0 DEF IInv, LaunchIsFirst, OneHolder, Worker
<1>2. /\ opened' \in [Sessions -> Nat] /\ opened'[s] = 1
      /\ \A x \in Sessions : x # s => opened'[x] = opened[x]
      BY <1>0, <1>1 DEF WorkerOpens
<1>3. /\ worker' \in Worker /\ worker'.launching[s] = 0
      /\ \A x \in Sessions : x # s => worker'.launching[x] = worker.launching[x]
      /\ worker'.contexts = worker.contexts \cup {s}
  <2> DEFINE f == [worker.launching EXCEPT ![s] = worker.launching[s] - 1]
  <2>1. /\ worker.launching \in [Sessions -> Nat] /\ f \in [Sessions -> Nat] /\ f[s] = 0
        /\ \A x \in Sessions : x # s => f[x] = worker.launching[x]
        BY <1>0, <1>1 DEF Worker
  <2>2. worker' = [worker EXCEPT !.launching = f, !.contexts = @ \cup {s}]
        BY DEF WorkerOpens
  <2> HIDE DEF f
  <2>3. QED BY <1>0, <2>1, <2>2 DEF Worker
<1>4. CallsQuiet
      BY AnswerQuiet DEF WorkerOpens
<1>5. reports' \subseteq Report
  <2>1. [session |-> s, status |-> "READY"] \in Report
        BY DEF Report
  <2>2. QED BY <2>1 DEF WorkerOpens, IInv, TypeOK
<1>6. UNCHANGED <<row, monitor, minted>>
      BY DEF WorkerOpens
<1>7. \A d \in Calls, x \in Sessions :
        Holds(d, x)' => /\ Holds(d, x) /\ x # s
                        /\ calls'[d].pc = "binding" => calls[d].pc = "binding"
      BY <1>1, <1>4 DEF CallsQuiet, Holds
<1>8. TypeOK'
  <2>1. ASSUME NEW x \in Sessions, worker'.launching[x] > 0 \/ x \in worker'.contexts
        PROVE  row'[x].status \notin {"ABSENT", "REQUESTED"}
        BY <1>0, <1>3, <1>6, <2>1 DEF IInv, TypeOK
  <2>2. QED BY <1>2, <1>3, <1>4, <1>5, <1>6, <2>1 DEF CallsQuiet, IInv, TypeOK
<1>9. CallHasSession'
      BY <1>4 DEF CallsQuiet, CallHasSession
<1>10. UnclaimedIsUntouched'
  <2>1. row[s].status \notin Unclaimed
        BY <1>0 DEF IInv, TypeOK, Unclaimed
  <2>2. QED BY <1>2, <1>6, <1>7, <2>1 DEF IInv, UnclaimedIsUntouched
<1>11. OneHolder'
      BY <1>2, <1>3, <1>6, <1>7 DEF IInv, OneHolder
<1>12. LaunchIsFirst'
      BY <1>2, <1>3 DEF IInv, LaunchIsFirst, Worker, TypeOK
<1>13. OneBrowserPerReservation'
      BY <1>2, <1>6 DEF IInv, OneBrowserPerReservation
<1>14. QED BY <1>8, <1>9, <1>10, <1>11, <1>12, <1>13 DEF IInv

-----------------------------------------------------------------------------
(* Every step *)

\* Reservation keeps the invariant.
LEMMA ReserveIInv == IInv /\ ReserveNext => IInv'
<1> SUFFICES ASSUME IInv, ReserveNext PROVE IInv'
    OBVIOUS
<1>1. ASSUME NEW c \in Calls, CreateCount(c) PROVE IInv'
  <2> DEFINE k == [pc |-> "creating", session |-> NoSession, arg |-> "none"]
  <2>1. k \in Call /\ k.pc = "creating" /\ calls' = [calls EXCEPT ![c] = k]
        BY <1>1 DEF CreateCount, Step, Call
  <2> HIDE DEF k
  <2>2. CallsQuiet
        BY <2>1, StepCall DEF Holding
  <2>3. QED BY <1>1, <2>2, Unchanged, QuietIInv DEF CreateCount, Quiet, OthersTyped
<1>2. ASSUME NEW c \in Calls, NEW s \in Sessions, CreateInsert(c, s) PROVE IInv'
  <2> DEFINE r == [row[s] EXCEPT !.status = "REQUESTED", !.lease = "live"]
  <2>1. row[s] \in Row /\ row[s].status = "ABSENT"
        BY <1>2 DEF IInv, TypeOK, CreateInsert
  <2>2. r \in Row /\ r.status = "REQUESTED"
        BY <2>1 DEF Row, Statuses
  <2>3. row' = [row EXCEPT ![s] = r]
        BY <1>2, <2>1 DEF CreateInsert, IInv, TypeOK, Row
  <2> HIDE DEF r
  <2>4. RowsQuiet
        BY <2>1, <2>2, <2>3, WriteRow DEF Unclaimed, Terminal
  <2>5. CallsQuiet
        BY <1>2, ReturnCall DEF CreateInsert
  <2>6. QED BY <1>2, <2>4, <2>5, Unchanged, QuietIInv DEF CreateInsert, Quiet, OthersTyped
<1>3. ASSUME NEW s \in Sessions, RequestAllocation(s) PROVE IInv'
  <2> DEFINE r == [row[s] EXCEPT !.route = "requested"]
  <2>1. row[s] \in Row /\ row[s].status = "REQUESTED"
        BY <1>3 DEF IInv, TypeOK, RequestAllocation
  <2>2. r \in Row /\ r.status = "REQUESTED" /\ row' = [row EXCEPT ![s] = r]
        BY <1>3, <2>1 DEF Row, RequestAllocation
  <2> HIDE DEF r
  <2>3. RowsQuiet
        BY <2>1, <2>2, WriteRow DEF Unclaimed, Terminal
  <2>4. QED BY <1>3, <2>3, Unchanged, QuietIInv DEF RequestAllocation, Quiet, OthersTyped
<1>4. QED BY <1>1, <1>2, <1>3 DEF ReserveNext

\* The reads that start a call and the steps that only move it on.
LEMMA ReadIInv ==
  ASSUME IInv, NEW c \in Calls, NEW s \in Sessions,
         NEW pc \in {"claiming", "waiting", "answered", "refused", "failing", "dropping",
                     "terminating", "closing", "closed"},
         NEW arg \in {"none", "route"} \cup Statuses,
         Step(c, pc, s, arg),
         UNCHANGED <<row, worker, reports, monitor, opened, minted>>
  PROVE  IInv'
BY StepOn, Unchanged, QuietIInv DEF Quiet, OthersTyped

\* Allocation keeps the invariant.
LEMMA AllocateIInv == IInv /\ AllocateNext => IInv'
<1> SUFFICES ASSUME IInv, AllocateNext PROVE IInv'
    OBVIOUS
<1>0. \A c \in Calls : calls[c].pc \notin {"idle", "creating"} => calls[c].session \in Sessions
      BY DEF IInv, CallHasSession
<1>1. ASSUME NEW c \in Calls, NEW s \in Sessions, NEW arg \in {"none", "route"},
             AllocateRead(c, s, arg) PROVE IInv'
      BY <1>1, ReadIInv DEF AllocateRead
<1>2. ASSUME NEW c \in Calls, NEW s \in Sessions, CompletePending(c, s) PROVE IInv'
      BY <1>1, <1>2 DEF CompletePending
<1>3. ASSUME NEW c \in Calls, NEW s \in Sessions, OverdueRead(c, s) PROVE IInv'
  <2>1. row[s].status \in Statuses
        BY DEF IInv, TypeOK, Row
  <2>2. QED BY <1>3, <2>1, ReadIInv DEF OverdueRead
<1>4. ASSUME NEW c \in Calls, BindRefused(c) \/ WorkerRefusesProject(c) \/ AllocateLost(c)
      PROVE  IInv'
      BY <1>0, <1>4, ReadIInv DEF BindRefused, WorkerRefusesProject, AllocateLost
<1>5. ASSUME NEW c \in Calls, WriteBinding(c) PROVE IInv'
  <2> DEFINE s == calls[c].session
             r == [row[s] EXCEPT !.route = "bound"]
             k == [pc |-> "dispatching", session |-> s, arg |-> "none"]
  <2>1. s \in Sessions /\ calls \in [Calls -> Call] /\ calls[c].pc = "writing"
        BY <1>0, <1>5 DEF IInv, TypeOK, WriteBinding
  <2>2. row[s] \in Row /\ (row[s].status \in Terminal => row[s].ended = "yes")
        BY <2>1 DEF IInv, TypeOK
  <2>3. /\ r \in Row /\ r.status = row[s].status /\ r.ended = row[s].ended
        /\ row' = [row EXCEPT ![s] = r]
        BY <1>5, <2>2 DEF Row, WriteBinding
  <2>4. k \in Call /\ calls' = [calls EXCEPT ![c] = k]
        BY <1>5, <2>1 DEF Call, WriteBinding, Step
  <2>5. RowsQuiet
    <3> HIDE DEF r
    <3>1. QED BY <2>2, <2>3, WriteRow
  <2>6. CallsQuiet
    <3>1. calls' \in [Calls -> Call]
          BY <2>1, <2>4
    <3>2. calls'[c].pc = "dispatching" /\ calls'[c].session = calls[c].session
          BY <2>1, <2>4
    <3>3. \A d \in Calls : d # c => calls'[d] = calls[d]
          BY <2>1, <2>4
    <3>4. QED BY <1>0, <2>1, <3>1, <3>2, <3>3 DEF CallsQuiet, Holding
  <2>7. QED BY <1>5, <2>5, <2>6, Unchanged, QuietIInv DEF WriteBinding, Quiet, OthersTyped
<1>6. ASSUME NEW c \in Calls, SetReady(c) \/ WorkerRefused(c) PROVE IInv'
  <2> DEFINE s == calls[c].session
  <2>1. s \in Sessions
        BY <1>0, <1>6 DEF SetReady, WorkerRefused
  <2>2. PICK st \in {"READY", "FAILED"} : row' = [row EXCEPT ![s] = WithStatus(row[s], st)]
        BY <1>6 DEF SetReady, WorkerRefused
  <2>3. st \in Statuses \ Unclaimed
        BY DEF Statuses, Unclaimed
  <2>4. RowsQuiet
        BY <2>1, <2>2, <2>3, SetStatusRow
  <2>5. CallsQuiet
        BY <1>6, ReturnCall DEF SetReady, WorkerRefused
  <2>6. UNCHANGED <<worker, reports, monitor, opened, minted>>
        BY <1>6 DEF SetReady, WorkerRefused
  <2>7. QED BY <2>4, <2>5, <2>6, Unchanged, QuietIInv DEF Quiet, OthersTyped
<1>7. ASSUME NEW c \in Calls, FailReservation(c) PROVE IInv'
  <2> DEFINE s == calls[c].session
  <2>1. s \in Sessions /\ "FAILED" \in Statuses \ Unclaimed
        BY <1>0, <1>7 DEF FailReservation, Statuses, Unclaimed
  <2>2. row' = [row EXCEPT ![s] = WithStatus(Released(row[s]), "FAILED")]
        BY <1>7 DEF FailReservation
  <2>3. RowsQuiet
        BY <2>1, <2>2, SetStatusRow
  <2>4. CallsQuiet
        BY <1>7, <2>1, ReturnCall, StepOn DEF FailReservation
  <2>5. QED BY <1>7, <2>3, <2>4, Unchanged, QuietIInv DEF FailReservation, Quiet, OthersTyped
<1>8. ASSUME NEW c \in Calls, DropContext(c) PROVE IInv'
  <2>1. WorkerQuiet /\ reports' \subseteq Report
        BY <1>0, <1>8, AskQuiet DEF DropContext
  <2>2. CallsQuiet
        BY <1>8, ReturnCall DEF DropContext
  <2>3. QED BY <1>8, <2>1, <2>2, Unchanged, QuietIInv DEF DropContext, Quiet, OthersTyped
<1>9. QED BY <1>1, <1>2, <1>3, <1>4, <1>5, <1>6, <1>7, <1>8, ClaimIInv, BindIInv, AdmitIInv
         DEF AllocateNext

\* Termination, reports and route changes keep the invariant.
LEMMA EndIInv == IInv /\ EndNext => IInv'
<1> SUFFICES ASSUME IInv, EndNext PROVE IInv'
    OBVIOUS
<1>0. \A c \in Calls : calls[c].pc \notin {"idle", "creating"} => calls[c].session \in Sessions
      BY DEF IInv, CallHasSession
<1>1. ASSUME NEW c \in Calls, NEW s \in Sessions, Terminate(c, s) PROVE IInv'
      BY <1>1, ReadIInv DEF Terminate
<1>2. ASSUME NEW c \in Calls, SetTerminating(c) PROVE IInv'
  <2>1. calls[c].session \in Sessions /\ "TERMINATING" \in Statuses \ Unclaimed
        BY <1>0, <1>2 DEF SetTerminating, Statuses, Unclaimed
  <2>2. row' = [row EXCEPT ![calls[c].session] = WithStatus(row[calls[c].session], "TERMINATING")]
        BY <1>2 DEF SetTerminating
  <2>3. RowsQuiet
        BY <2>1, <2>2, SetStatusRow
  <2>4. CallsQuiet
        BY <1>2, <2>1, StepOn DEF SetTerminating
  <2>5. QED BY <1>2, <2>3, <2>4, Unchanged, QuietIInv DEF SetTerminating, Quiet, OthersTyped
<1>3. ASSUME NEW c \in Calls, CloseContext(c) PROVE IInv'
  <2>1. calls[c].session \in Sessions
        BY <1>0, <1>3 DEF CloseContext
  <2>2. WorkerQuiet /\ reports' \subseteq Report
        BY <1>3, <2>1, AskQuiet DEF CloseContext
  <2>3. CallsQuiet
        BY <1>3, <2>1, StepOn DEF CloseContext
  <2>4. QED BY <1>3, <2>2, <2>3, Unchanged, QuietIInv DEF CloseContext, Quiet, OthersTyped
<1>4. ASSUME NEW c \in Calls, SetTerminated(c) PROVE IInv'
  <2>1. calls[c].session \in Sessions /\ "TERMINATED" \in Statuses \ Unclaimed
        BY <1>0, <1>4 DEF SetTerminated, Statuses, Unclaimed
  <2>2. row' = [row EXCEPT ![calls[c].session] =
                  WithStatus(Released(row[calls[c].session]), "TERMINATED")]
        BY <1>4 DEF SetTerminated
  <2>3. RowsQuiet
        BY <2>1, <2>2, SetStatusRow
  <2>4. CallsQuiet
        BY <1>4, ReturnCall DEF SetTerminated
  <2>5. QED BY <1>4, <2>3, <2>4, Unchanged, QuietIInv DEF SetTerminated, Quiet, OthersTyped
<1>5. ASSUME NEW c \in Calls, CrashCall(c) PROVE IInv'
      BY <1>5, ReturnCall, Unchanged, QuietIInv DEF CrashCall, Quiet, OthersTyped
<1>6. ASSUME NEW r \in reports, ApplyWorkerReport(r) PROVE IInv'
  <2>1. r \in Report /\ reports' \subseteq Report
        BY <1>6 DEF ApplyWorkerReport, IInv, TypeOK
  <2>2. r.session \in Sessions /\ r.status \in Statuses \ Unclaimed
        BY <2>1 DEF Report, Statuses, Unclaimed
  <2>3. PICK x : /\ x = row[r.session] \/ x = Released(row[r.session])
                 /\ row' = [row EXCEPT ![r.session] = WithStatus(x, r.status)]
        BY <1>6 DEF ApplyWorkerReport
  <2>4. RowsQuiet
        BY <2>2, <2>3, SetStatusRow
  <2>5. QED BY <1>6, <2>1, <2>4, Unchanged, QuietIInv DEF ApplyWorkerReport, Quiet, OthersTyped
<1>7. ASSUME NEW r \in reports, LoseReport(r) PROVE IInv'
  <2>1. reports' \subseteq Report
        BY <1>7 DEF LoseReport, IInv, TypeOK
  <2>2. QED BY <1>7, <2>1, Unchanged, QuietIInv DEF LoseReport, Quiet, OthersTyped
<1>8. ASSUME NEW s \in Sessions, RouteLost(s) \/ RouteContinued(s) PROVE IInv'
  <2>1. PICK st \in {"DEGRADED", "READY"} : row' = [row EXCEPT ![s].status = st]
        BY <1>8 DEF RouteLost, RouteContinued
  <2> DEFINE r == [row[s] EXCEPT !.status = st]
  <2>2. row[s] \in Row
        BY DEF IInv, TypeOK
  <2>3. r \in Row /\ r.status = st /\ row' = [row EXCEPT ![s] = r]
        BY <2>1, <2>2 DEF Row, Statuses
  <2>4. RowsQuiet
    <3> HIDE DEF r
    <3>1. st \notin Terminal /\ st \notin Unclaimed
          BY DEF Terminal, Unclaimed
    <3>2. QED BY <2>3, <3>1, WriteRow
  <2>5. UNCHANGED <<calls, worker, reports, monitor, opened, minted>>
        BY <1>8 DEF RouteLost, RouteContinued
  <2>6. QED BY <2>4, <2>5, Unchanged, QuietIInv DEF Quiet, OthersTyped
<1>9. QED BY <1>1, <1>2, <1>3, <1>4, <1>5, <1>6, <1>7, <1>8 DEF EndNext

\* The worker's own steps keep the invariant.
LEMMA WorkerIInv == IInv /\ WorkerNext => IInv'
<1> SUFFICES ASSUME IInv, WorkerNext PROVE IInv'
    OBVIOUS
<1>0. worker \in Worker /\ reports \subseteq Report
      BY DEF IInv, TypeOK
<1>1. ASSUME NEW s \in Sessions, LaunchFails(s) PROVE IInv'
  <2>1. WorkerQuiet
    <3>1. worker.launching[s] > 0 /\ worker.launching \in [Sessions -> Nat]
          BY <1>0, <1>1 DEF LaunchFails, Worker
    <3>2. QED BY <1>0, <1>1, <3>1 DEF LaunchFails, WorkerQuiet, Worker
  <2>2. CallsQuiet
        BY <1>1, AnswerQuiet DEF LaunchFails
  <2>3. QED BY <1>1, <2>1, <2>2, Unchanged, QuietIInv DEF LaunchFails, Quiet, OthersTyped
<1>2. ASSUME NEW s \in Sessions, Navigated(s) PROVE IInv'
  <2>1. [session |-> s, status |-> "READY"] \in Report
        BY DEF Report
  <2>2. reports' \subseteq Report
        BY <1>0, <1>2, <2>1 DEF Navigated
  <2>3. QED BY <1>2, <2>2, Unchanged, QuietIInv DEF Navigated, Quiet, OthersTyped
<1>3. ASSUME NEW s \in Sessions, NEW st \in Terminal, ContextEnds(s, st) PROVE IInv'
  <2>1. [session |-> s, status |-> st] \in Report
        BY DEF Report, Terminal
  <2>2. reports' \subseteq Report /\ WorkerQuiet
        BY <1>0, <1>3, <2>1 DEF ContextEnds, WorkerQuiet, Worker
  <2>3. QED BY <1>3, <2>2, Unchanged, QuietIInv DEF ContextEnds, Quiet, OthersTyped
<1>4. ASSUME WorkerStops PROVE IInv'
  <2>1. /\ worker' \in Worker /\ worker'.contexts = {}
        /\ \A s \in Sessions : worker'.launching[s] = 0
        BY <1>0, <1>4 DEF WorkerStops, NoLaunch, Worker
  <2>2. \A s \in Sessions : worker.launching[s] \in Nat
        BY <1>0 DEF Worker
  <2>3. WorkerQuiet
        BY <2>1, <2>2 DEF WorkerQuiet
  <2>4. QED BY <1>4, <2>3, Unchanged, QuietIInv DEF WorkerStops, Quiet, OthersTyped
<1>5. ASSUME WorkerStarts \/ Heartbeat \/ Silence PROVE IInv'
  <2>1. WorkerQuiet
    <3>1. /\ worker' \in Worker /\ worker'.contexts = worker.contexts
          /\ worker'.launching = worker.launching
          BY <1>0, <1>5 DEF WorkerStarts, Heartbeat, Silence, Worker
    <3>2. \A s \in Sessions : worker.launching[s] \in Nat
          BY <1>0 DEF Worker
    <3>3. QED BY <3>1, <3>2 DEF WorkerQuiet
  <2>2. UNCHANGED <<row, calls, reports, monitor, opened, minted>>
        BY <1>5 DEF WorkerStarts, Heartbeat, Silence
  <2>3. QED BY <2>1, <2>2, Unchanged, QuietIInv DEF Quiet, OthersTyped
<1>6. QED BY <1>1, <1>2, <1>3, <1>4, <1>5, OpenIInv DEF WorkerNext

\* A step of the monitor that only moves its pass on keeps the invariant.
LEMMA PassIInv ==
  ASSUME IInv, monitor' \in Monitor, UNCHANGED <<row, calls, worker, reports, opened, minted>>
  PROVE  IInv'
BY Unchanged, QuietIInv DEF Quiet, OthersTyped

\* What is left to do after an item is done.
LEMMA PassShrinks ==
  ASSUME IInv, NEW x, monitor' = [monitor EXCEPT !.todo = @ \ {x}]
  PROVE  monitor' \in Monitor
<1>1. monitor \in Monitor
      BY DEF IInv, TypeOK
<1>2. QED BY <1>1 DEF Monitor

\* The monitor's passes keep the invariant.
LEMMA MonitorIInv == IInv /\ MonitorNext => IInv'
<1> SUFFICES ASSUME IInv, MonitorNext PROVE IInv'
    OBVIOUS
<1>0. monitor \in Monitor /\ worker \in Worker /\ row \in [Sessions -> Row]
      BY DEF IInv, TypeOK
<1>1. NoPass \in Monitor
      BY DEF NoPass, NothingSeen, Monitor
<1>2. ASSUME BeginPass PROVE IInv'
  <2>1. [s \in Sessions |-> SeenLive(s)] \in [Sessions -> {"ABSENT"} \cup LiveStatuses]
        BY DEF SeenLive
  <2>2. monitor' \in Monitor
        BY <1>2, <2>1 DEF BeginPass, Monitor
  <2>3. WorkerQuiet
        BY <1>0, <1>2 DEF BeginPass, WorkerQuiet, Worker
  <2>4. QED BY <1>2, <2>2, <2>3, Unchanged, QuietIInv DEF BeginPass, Quiet, OthersTyped
<1>3. ASSUME ReadWorkers PROVE IInv'
  <2> DEFINE todo == {s \in Seen : Verdict = "DEGRADED" => monitor.seen[s] # "DEGRADED"} \X {Verdict}
  <2>1. todo \in SUBSET (Sessions \X {"orphan", "FAILED", "DEGRADED"})
        BY DEF Seen, Verdict
  <2>2. monitor' = IF worker.row = "live" THEN [monitor EXCEPT !.pc = "asking"]
                   ELSE [monitor EXCEPT !.pc = "acting", !.todo = todo]
        BY <1>3 DEF ReadWorkers
  <2> HIDE DEF todo
  <2>3. monitor' \in Monitor
        BY <1>0, <2>1, <2>2 DEF Monitor
  <2>4. QED BY <1>3, <2>3, PassIInv DEF ReadWorkers
<1>4. ASSUME ReadContexts PROVE IInv'
  <2> DEFINE todo == (Orphans \X {"orphan"}) \cup (Missing \X {"DEGRADED"})
  <2>1. Orphans \in SUBSET Sessions /\ Missing \in SUBSET Sessions
        BY <1>0 DEF Orphans, Missing, Seen, Worker
  <2>2. todo \in SUBSET (Sessions \X {"orphan", "FAILED", "DEGRADED"})
        BY <2>1
  <2>3. monitor' = [monitor EXCEPT !.pc = "acting", !.todo = todo]
        BY <1>4 DEF ReadContexts
  <2> HIDE DEF todo
  <2>4. monitor' \in Monitor
        BY <1>0, <2>2, <2>3 DEF Monitor
  <2>5. QED BY <1>4, <2>4, PassIInv DEF ReadContexts
<1>5. ASSUME ContextsUnread PROVE IInv'
  <2>1. monitor' \in Monitor
        BY <1>0, <1>5 DEF ContextsUnread, Monitor
  <2>2. QED BY <1>5, <2>1, PassIInv DEF ContextsUnread
<1>6. ASSUME NEW s \in Sessions, TerminateOrphan(s) PROVE IInv'
  <2>1. WorkerQuiet /\ reports' \subseteq Report
        BY <1>6, AskQuiet DEF TerminateOrphan
  <2>2. monitor' \in Monitor
        BY <1>6, PassShrinks DEF TerminateOrphan
  <2>3. QED BY <1>6, <2>1, <2>2, Unchanged, QuietIInv DEF TerminateOrphan, Quiet, OthersTyped
<1>7. ASSUME NEW s \in Sessions, LeaseRunsOut(s) PROVE IInv'
  <2> DEFINE r == [row[s] EXCEPT !.lease = "expired"]
  <2>1. row[s] \in Row /\ (row[s].status \in Terminal => row[s].ended = "yes")
        BY DEF IInv, TypeOK
  <2>2. /\ r \in Row /\ r.status = row[s].status /\ r.ended = row[s].ended
        /\ row' = [row EXCEPT ![s] = r]
        BY <1>7, <2>1 DEF Row, LeaseRunsOut
  <2>3. RowsQuiet
    <3> HIDE DEF r
    <3>1. QED BY <2>1, <2>2, WriteRow
  <2>4. QED BY <1>7, <2>3, Unchanged, QuietIInv DEF LeaseRunsOut, Quiet, OthersTyped
<1>8. ASSUME NEW s \in Sessions, NEW st \in {"FAILED", "DEGRADED"}, MarkReconciled(s, st) PROVE IInv'
  <2>1. st \in Statuses \ Unclaimed
        BY DEF Statuses, Unclaimed
  <2>2. RowsQuiet
    <3>1. CASE UNCHANGED row
          BY <3>1, Unchanged
    <3>2. CASE ~UNCHANGED row
      <4>1. PICK x : /\ x = row[s] \/ x = Released(row[s])
                     /\ row' = [row EXCEPT ![s] = WithStatus(x, st)]
            BY <1>8, <3>2 DEF MarkReconciled
      <4>2. QED BY <2>1, <4>1, SetStatusRow
    <3>3. QED BY <3>1, <3>2
  <2>3. monitor' \in Monitor
        BY <1>8, PassShrinks DEF MarkReconciled
  <2>4. QED BY <1>8, <2>2, <2>3, Unchanged, QuietIInv DEF MarkReconciled, Quiet, OthersTyped
<1>9. ASSUME ExpireStaleLeases PROVE IInv'
  <2>1. ASSUME NEW s \in Sessions
        PROVE  /\ row[s] \in Row /\ Released(row[s]) \in Row
               /\ Released(row[s]).status = row[s].status /\ Released(row[s]).ended = row[s].ended
    <3>1. row[s] \in Row
          BY <1>0
    <3>2. QED BY <3>1 DEF Released, Row
  <2>2. row' \in [Sessions -> Row]
        BY <1>9, <2>1 DEF ExpireStaleLeases
  <2>3. \A s \in Sessions : row'[s].status = row[s].status /\ row'[s].ended = row[s].ended
        BY <1>9, <2>1 DEF ExpireStaleLeases
  <2>4. RowsQuiet
        BY <2>2, <2>3 DEF RowsQuiet, IInv, TypeOK
  <2>5. QED BY <1>1, <1>9, <2>4, Unchanged, QuietIInv DEF ExpireStaleLeases, Quiet, OthersTyped
<1>10. ASSUME CrashPass PROVE IInv'
      BY <1>1, <1>10, PassIInv DEF CrashPass
<1>11. QED BY <1>2, <1>3, <1>4, <1>5, <1>6, <1>7, <1>8, <1>9, <1>10 DEF MonitorNext

-----------------------------------------------------------------------------
(* The theorems *)

\* The invariant holds of the database and the worker at the start, and every
\* step of service.ts, monitor.ts and manager.ts keeps it.
THEOREM LifecycleInductive == Spec => []IInv
<1>1. Init => IInv
  <2> SUFFICES ASSUME Init PROVE IInv
      OBVIOUS
  <2>1. NoCall \in Call /\ NoPass \in Monitor
        BY DEF NoCall, Call, NoPass, NothingSeen, Monitor
  <2>2. TypeOK
        BY <2>1 DEF Init, TypeOK, Row, Statuses, Terminal, Worker, NoLaunch
  <2>3. \A c \in Calls : calls[c].pc = "idle"
        BY DEF Init, NoCall
  <2>4. QED BY <2>2, <2>3 DEF Init, IInv, CallHasSession, UnclaimedIsUntouched, OneHolder,
              LaunchIsFirst, OneBrowserPerReservation, Holds, Holding, NoLaunch
<1>2. IInv /\ [Next]_vars => IInv'
  <2> SUFFICES ASSUME IInv, [Next]_vars PROVE IInv'
      OBVIOUS
  <2>1. CASE UNCHANGED vars
        BY <2>1, Unchanged, QuietIInv DEF vars, Quiet, OthersTyped
  <2>2. QED BY <2>1, ReserveIInv, AllocateIInv, EndIInv, WorkerIInv, MonitorIInv DEF Next
<1>3. QED BY <1>1, <1>2, PTL DEF Spec

\* The rows, calls, worker and passes keep their shapes; an ended status is
\* stamped and the worker holds nothing for an unclaimed reservation.
THEOREM LifecycleType == Spec => []TypeOK
<1>1. IInv => TypeOK
      BY DEF IInv
<1>2. QED BY <1>1, LifecycleInductive, PTL

\* #claimForAllocation costs one browser and one capability however many
\* replicas and sweeps take up a reservation.
THEOREM OneBrowser == Spec => []OneBrowserPerReservation
<1>1. IInv => OneBrowserPerReservation
      BY DEF IInv
<1>2. QED BY <1>1, LifecycleInductive, PTL
=============================================================================
