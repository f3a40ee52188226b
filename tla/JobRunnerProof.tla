--------------------------- MODULE JobRunnerProof ---------------------------
(***************************************************************************)
(* For every set of jobs and runners and every bound: the shape of the     *)
(* queue, exclusive attempts, unique live keys, honest outcomes, the       *)
(* finality of an outcome while no live runner has overrun its lease, and  *)
(* that an attempt recorded as failed left nothing behind.                 *)
(***************************************************************************)
EXTENDS JobRunner, TLAPS

\* What a busy runner knows about its row.  The row has used at least the
\* attempts the runner was given, and, until a lease runs out under a live
\* runner, the row is still running on an unexpired lease.
HoldsRow ==
  \A r \in Runners : Busy(r) =>
    /\ runners[r].job \in Jobs
    /\ jobs[runners[r].job].status # "absent"
    /\ runners[r].attempts <= jobs[runners[r].job].attempts
    /\ stalls = 0 => jobs[runners[r].job].status = "running"
                       /\ jobs[runners[r].job].lease = "held"

\* Between the handler's commit and #succeed the effect is there.
SucceedingHasEffect ==
  \A r \in Runners : runners[r].pc = "succeeding" => Attempt(r) \in effects

IInv ==
  /\ TableOK
  /\ HoldsRow
  /\ SucceedingHasEffect
  /\ OneRunnerPerJob
  /\ OneLiveJobPerKey
  /\ SuccessHasEffect
  /\ GivenUpOnlyWhenExhausted

USE JobConstants DEF Attempts

\* The empty table and idle runners satisfy the invariant.
LEMMA InitIInv == Init => IInv
BY DEF Init, IInv, TableOK, Row, Runner, Idle, HoldsRow, Busy, SucceedingHasEffect,
       OneRunnerPerJob, Working, OneLiveJobPerKey, Live, SuccessHasEffect,
       GivenUpOnlyWhenExhausted

\* The type invariant is inductive once a busy runner is known to work on a
\* job: #succeed and #fail write the row they claimed.
LEMMA TypeStep == TableOK /\ HoldsRow /\ [Next]_vars => TableOK'
<1> SUFFICES ASSUME TableOK, HoldsRow, [Next]_vars PROVE TableOK'
    OBVIOUS
<1> USE DEF TableOK, Row, Runner, Idle
<1>1. ASSUME NEW j \in Jobs, BecomeDue(j) PROVE TableOK'
      BY <1>1 DEF BecomeDue
<1>1a. ASSUME NEW j \in Jobs, LeaseExpires(j) PROVE TableOK'
  <2>1. stalls' \in Nat
        BY <1>1a DEF LeaseExpires
  <2>2. QED BY <1>1a, <2>1 DEF LeaseExpires
<1>2. ASSUME NEW j \in Jobs, NEW k \in Keys \cup {NoKey}, Enqueue(j, k) PROVE TableOK'
      BY <1>2 DEF Enqueue
<1>3. ASSUME NEW r \in Runners, NEW j \in Jobs, Claim(r, j) PROVE TableOK'
      BY <1>3 DEF Claim
<1>3a. ASSUME NEW r \in Runners, NEW j \in Jobs, ClaimBreaksBound(r, j) PROVE TableOK'
      BY <1>3a DEF ClaimBreaksBound
<1>4. ASSUME NEW r \in Runners, HandlerCommits(r) PROVE TableOK'
  <2>1. Attempt(r) \in Jobs \X Attempts
        BY <1>4 DEF HandlerCommits, Attempt, HoldsRow, Busy
  <2>2. QED BY <1>4, <2>1 DEF HandlerCommits
<1>5. ASSUME NEW r \in Runners, HandlerThrows(r) PROVE TableOK'
      BY <1>5 DEF HandlerThrows
<1>6. ASSUME NEW r \in Runners, AttemptTimesOut(r) PROVE TableOK'
  <2>1. Attempt(r) \in Jobs \X Attempts
        BY <1>6 DEF AttemptTimesOut, Attempt, HoldsRow, Busy
  <2>2. timeouts' \in Nat
        BY <1>6 DEF AttemptTimesOut
  <2>3. runners' \in [Runners -> Runner]
        BY <1>6 DEF AttemptTimesOut
  <2>4. QED BY <1>6, <2>1, <2>2, <2>3 DEF AttemptTimesOut
<1>7. ASSUME NEW r \in Runners, Succeed(r) PROVE TableOK'
  <2>1. PICK j \in Jobs : j = runners[r].job
        BY <1>7 DEF Succeed, HoldsRow, Busy
  <2>2. jobs' = [jobs EXCEPT ![j].status = "succeeded", ![j].lease = "none"]
        BY <1>7, <2>1 DEF Succeed
  <2>3. jobs' \in [Jobs -> Row]
    <3>1. jobs[j] \in Row
          BY TableOK
    <3>2. [jobs[j] EXCEPT !.status = "succeeded", !.lease = "none"] \in Row
          BY <3>1
    <3>3. QED BY <2>2, <3>2
  <2>4. QED BY <1>7, <2>3 DEF Succeed
<1>8. ASSUME NEW r \in Runners, Fail(r) PROVE TableOK'
  <2>1. Attempt(r) \in Jobs \X Attempts
        BY <1>8 DEF Fail, Attempt, HoldsRow, Busy
  <2>2. PICK j \in Jobs : j = runners[r].job
        BY <1>8 DEF Fail, HoldsRow, Busy
  <2> DEFINE x == Exhausted(runners[r].attempts)
  <2>a. \/ jobs' = [jobs EXCEPT ![j].status = IF x THEN "failed" ELSE "pending",
                               ![j].lease = "none"]
        \/ jobs' = jobs
        BY <1>8, <2>2 DEF Fail
  <2>3. jobs' \in [Jobs -> Row]
    <3>1. CASE x
          BY <2>a, <3>1
    <3>2. CASE ~x
          BY <2>a, <3>2
    <3>3. QED BY <3>1, <3>2
  <2>4. failures' \subseteq Jobs \X Attempts
        BY <1>8, <2>1 DEF Fail
  <2>5. QED BY <1>8, <2>3, <2>4 DEF Fail
<1>9. ASSUME NEW r \in Runners, Crash(r) \/ Restart(r) \/ ClaimAborts(r) PROVE TableOK'
      BY <1>9 DEF Crash, Restart, ClaimAborts
<1>10. ASSUME NEW a \in limbo, LimboCommits(a) \/ LimboRollsBack(a) PROVE TableOK'
      BY <1>10 DEF LimboCommits, LimboRollsBack
<1>11. CASE UNCHANGED vars
      BY <1>11 DEF vars
<1>12. QED BY <1>1, <1>1a, <1>2, <1>3, <1>3a, <1>4, <1>5, <1>6, <1>7, <1>8, <1>9, <1>10, <1>11 DEF Next

-----------------------------------------------------------------------------
(* One lemma per action that writes a row: what it does to the rows and to   *)
(* the runner, with the row named by a constant.                            *)

\* #succeed writes one row and frees the runner.
LEMMA SucceedWrites ==
  ASSUME NEW r \in Runners, TableOK, HoldsRow, Succeed(r)
  PROVE  \E j \in Jobs :
           /\ j = runners[r].job
           /\ runners[r].pc = "succeeding"
           /\ jobs[j].status # "absent"
           /\ runners' = [runners EXCEPT ![r] = Idle]
           /\ UNCHANGED <<effects, limbo, failures, crashes, stalls, timeouts>>
           /\ \A i \in Jobs \ {j} : jobs'[i] = jobs[i]
           /\ jobs'[j].status = "succeeded"
           /\ jobs'[j].key = jobs[j].key
           /\ jobs'[j].attempts = jobs[j].attempts
<1>1. PICK j \in Jobs : j = runners[r].job /\ jobs[j].status # "absent"
      BY DEF Succeed, HoldsRow, Busy
<1>2. jobs' = [jobs EXCEPT ![j].status = "succeeded", ![j].lease = "none"]
      BY <1>1 DEF Succeed
<1>3. /\ \A i \in Jobs \ {j} : jobs'[i] = jobs[i]
      /\ jobs'[j].status = "succeeded"
      /\ jobs'[j].key = jobs[j].key
      /\ jobs'[j].attempts = jobs[j].attempts
      BY <1>2 DEF TableOK, Row
<1>4. QED BY <1>1, <1>3 DEF Succeed

\* #fail either writes one row, or (the unique index) only frees the runner.
LEMMA FailWrites ==
  ASSUME NEW r \in Runners, TableOK, HoldsRow, Fail(r)
  PROVE  \E j \in Jobs :
           /\ j = runners[r].job
           /\ runners[r].pc = "failing"
           /\ jobs[j].status # "absent"
           /\ runners[r].attempts <= jobs[j].attempts
           /\ runners' = [runners EXCEPT ![r] = Idle]
           /\ UNCHANGED <<effects, limbo, crashes, stalls, timeouts>>
           /\ \/ jobs' = jobs
              \/ /\ \A i \in Jobs \ {j} : jobs'[i] = jobs[i]
                 /\ jobs'[j].key = jobs[j].key
                 /\ jobs'[j].attempts = jobs[j].attempts
                 /\ \/ /\ jobs'[j].status = "failed"
                       /\ runners[r].attempts >= MaxAttempts
                    \/ /\ jobs'[j].status = "pending"
                       /\ jobs[j].status \in Live \/ KeyFree(j, jobs[j].key)
<1>1. PICK j \in Jobs : j = runners[r].job /\ jobs[j].status # "absent"
                         /\ runners[r].attempts <= jobs[j].attempts
      BY DEF Fail, HoldsRow, Busy
<1> DEFINE x == Exhausted(runners[r].attempts)
<1>2. CASE jobs' = jobs
      BY <1>1, <1>2 DEF Fail
<1>3. CASE jobs' # jobs
  <2>1. jobs' = [jobs EXCEPT ![j].status = IF x THEN "failed" ELSE "pending",
                             ![j].lease = "none"]
        /\ (x \/ jobs[j].status \in Live \/ KeyFree(j, jobs[j].key))
        BY <1>1, <1>3 DEF Fail
  <2>2. /\ \A i \in Jobs \ {j} : jobs'[i] = jobs[i]
        /\ jobs'[j].key = jobs[j].key
        /\ jobs'[j].attempts = jobs[j].attempts
        /\ jobs'[j].status = IF x THEN "failed" ELSE "pending"
        BY <2>1 DEF TableOK, Row
  <2>3. x => runners[r].attempts >= MaxAttempts
        BY DEF Exhausted
  <2>4. QED BY <1>1, <2>1, <2>2, <2>3 DEF Fail
<1>4. QED BY <1>2, <1>3

\* A runner that settles its own job does not disturb what the others hold:
\* a second runner on the same job exists only after a stall.
LEMMA SettlingKeepsHolds ==
  ASSUME TableOK, HoldsRow, OneRunnerPerJob,
         NEW r \in Runners, NEW j \in Jobs, Busy(r), j = runners[r].job,
         runners' = [runners EXCEPT ![r] = Idle], stalls' = stalls,
         \A i \in Jobs \ {j} : jobs'[i] = jobs[i],
         jobs'[j].status # "absent", jobs'[j].attempts = jobs[j].attempts
  PROVE  HoldsRow'
<1> SUFFICES ASSUME NEW s \in Runners, Busy(s)'
             PROVE  /\ runners'[s].job \in Jobs
                    /\ jobs'[runners'[s].job].status # "absent"
                    /\ runners'[s].attempts <= jobs'[runners'[s].job].attempts
                    /\ stalls' = 0 => jobs'[runners'[s].job].status = "running"
                                       /\ jobs'[runners'[s].job].lease = "held"
    BY DEF HoldsRow
<1>1. s # r /\ runners'[s] = runners[s] /\ Busy(s)
      BY DEF TableOK, Busy, Idle
<1>2. CASE runners[s].job = j
  <2>1. stalls # 0
        BY <1>1, <1>2 DEF OneRunnerPerJob, Working
  <2>2. QED BY <1>1, <1>2, <2>1 DEF HoldsRow
<1>3. CASE runners[s].job # j
      BY <1>1, <1>3 DEF HoldsRow
<1>4. QED BY <1>2, <1>3

\* A runner's claim of an unexpired row outlives every step of the others: a
\* take-over needs an expired lease, and a lease that expires under a live
\* runner is counted in `stalls`.
LEMMA HoldsRowStep == IInv /\ [Next]_vars => HoldsRow'
<1> SUFFICES ASSUME IInv, [Next]_vars PROVE HoldsRow'
    OBVIOUS
<1>0. TableOK /\ HoldsRow /\ OneRunnerPerJob
      BY DEF IInv
<1> USE DEF TableOK, Row, Runner, Idle, HoldsRow, Busy
<1>1. ASSUME NEW j \in Jobs, BecomeDue(j) PROVE HoldsRow'
      BY <1>0, <1>1 DEF BecomeDue
<1>2. ASSUME NEW j \in Jobs, LeaseExpires(j) PROVE HoldsRow'
      BY <1>0, <1>2 DEF LeaseExpires, Working
<1>3. ASSUME NEW j \in Jobs, NEW k \in Keys \cup {NoKey}, Enqueue(j, k) PROVE HoldsRow'
      BY <1>0, <1>3 DEF Enqueue
<1>4. ASSUME NEW r \in Runners, NEW j \in Jobs, Claim(r, j) PROVE HoldsRow'
      BY <1>0, <1>4 DEF Claim, Selected, Claimable
<1>4a. ASSUME NEW r \in Runners, NEW j \in Jobs, ClaimBreaksBound(r, j) PROVE HoldsRow'
      BY <1>0, <1>4a DEF ClaimBreaksBound
<1>5. ASSUME NEW r \in Runners, HandlerCommits(r) \/ HandlerThrows(r) \/ AttemptTimesOut(r)
      PROVE HoldsRow'
      BY <1>0, <1>5 DEF HandlerCommits, HandlerThrows, AttemptTimesOut
<1>6. ASSUME NEW r \in Runners, Succeed(r) PROVE HoldsRow'
      BY <1>0, <1>6, SucceedWrites, SettlingKeepsHolds
<1>7. ASSUME NEW r \in Runners, Fail(r) PROVE HoldsRow'
      BY <1>0, <1>7, FailWrites, SettlingKeepsHolds
<1>8. ASSUME NEW r \in Runners, Crash(r) \/ Restart(r) \/ ClaimAborts(r) PROVE HoldsRow'
      BY <1>0, <1>8 DEF Crash, Restart, ClaimAborts
<1>9. ASSUME NEW a \in limbo, LimboCommits(a) \/ LimboRollsBack(a) PROVE HoldsRow'
      BY <1>0, <1>9 DEF LimboCommits, LimboRollsBack
<1>10. CASE UNCHANGED vars
      BY <1>0, <1>10 DEF vars
<1>11. QED BY <1>1, <1>2, <1>3, <1>4, <1>4a, <1>5, <1>6, <1>7, <1>8, <1>9, <1>10 DEF Next

\* A claim needs an expired lease or a pending row, and neither has a worker
\* while nothing has stalled.
LEMMA OneRunnerStep == IInv /\ [Next]_vars => OneRunnerPerJob'
<1> SUFFICES ASSUME IInv, [Next]_vars PROVE OneRunnerPerJob'
    OBVIOUS
<1>0. TableOK /\ HoldsRow /\ OneRunnerPerJob
      BY DEF IInv
<1> USE DEF OneRunnerPerJob, Working, Busy, TableOK, Idle
<1>1. ASSUME NEW j \in Jobs, BecomeDue(j) \/ LeaseExpires(j) PROVE OneRunnerPerJob'
      BY <1>0, <1>1 DEF BecomeDue, LeaseExpires
<1>2. ASSUME NEW j \in Jobs, NEW k \in Keys \cup {NoKey}, Enqueue(j, k) PROVE OneRunnerPerJob'
      BY <1>0, <1>2 DEF Enqueue
<1>3. ASSUME NEW r \in Runners, NEW j \in Jobs, Claim(r, j) PROVE OneRunnerPerJob'
  <2>1. stalls = 0 => \A s \in Runners : ~Working(s, j)
        BY <1>0, <1>3 DEF Claim, Selected, Claimable, HoldsRow
  <2>2. QED BY <1>0, <1>3, <2>1 DEF Claim
<1>3a. ASSUME NEW r \in Runners, NEW j \in Jobs, ClaimBreaksBound(r, j) PROVE OneRunnerPerJob'
      BY <1>0, <1>3a DEF ClaimBreaksBound
<1>4. ASSUME NEW r \in Runners, HandlerCommits(r) \/ HandlerThrows(r) \/ AttemptTimesOut(r)
      PROVE OneRunnerPerJob'
  <2>1. /\ stalls' = stalls
        /\ \A s \in Runners : Busy(s)' = Busy(s) /\ runners'[s].job = runners[s].job
        BY <1>0, <1>4 DEF HandlerCommits, HandlerThrows, AttemptTimesOut, Runner
  <2>2. QED BY <1>0, <2>1
<1>5. ASSUME NEW r \in Runners, Succeed(r) \/ Fail(r) PROVE OneRunnerPerJob'
  <2>1. runners' = [runners EXCEPT ![r] = Idle] /\ stalls' = stalls
        BY <1>5 DEF Succeed, Fail
  <2>2. QED BY <1>0, <2>1
<1>6. ASSUME NEW r \in Runners, Crash(r) \/ Restart(r) \/ ClaimAborts(r) PROVE OneRunnerPerJob'
      BY <1>0, <1>6 DEF Crash, Restart, ClaimAborts
<1>7. ASSUME NEW a \in limbo, LimboCommits(a) \/ LimboRollsBack(a) PROVE OneRunnerPerJob'
      BY <1>0, <1>7 DEF LimboCommits, LimboRollsBack
<1>8. CASE UNCHANGED vars
      BY <1>0, <1>8 DEF vars
<1>9. QED BY <1>1, <1>2, <1>3, <1>3a, <1>4, <1>5, <1>6, <1>7, <1>8 DEF Next

\* Every step that makes a row live checks the index or keeps it live.
LEMMA KeyStep == IInv /\ [Next]_vars => OneLiveJobPerKey'
<1> SUFFICES ASSUME IInv, [Next]_vars PROVE OneLiveJobPerKey'
    OBVIOUS
<1>0. TableOK /\ HoldsRow /\ OneLiveJobPerKey
      BY DEF IInv
<1> USE DEF OneLiveJobPerKey, Live, TableOK, Row
<1>1. ASSUME NEW j \in Jobs, BecomeDue(j) \/ LeaseExpires(j) PROVE OneLiveJobPerKey'
      BY <1>0, <1>1 DEF BecomeDue, LeaseExpires
<1>2. ASSUME NEW j \in Jobs, NEW k \in Keys \cup {NoKey}, Enqueue(j, k) PROVE OneLiveJobPerKey'
      BY <1>0, <1>2 DEF Enqueue, KeyFree
<1>3. ASSUME NEW r \in Runners, NEW j \in Jobs, Claim(r, j) PROVE OneLiveJobPerKey'
      BY <1>0, <1>3 DEF Claim, Selected, Claimable
<1>4. ASSUME NEW r \in Runners, Succeed(r) PROVE OneLiveJobPerKey'
      BY <1>0, <1>4, SucceedWrites
<1>5. ASSUME NEW r \in Runners, Fail(r) PROVE OneLiveJobPerKey'
      BY <1>0, <1>5, FailWrites DEF KeyFree
<1>6. CASE UNCHANGED jobs
      BY <1>0, <1>6
<1>7. QED BY <1>1, <1>2, <1>3, <1>4, <1>5, <1>6
          DEF Next, ClaimBreaksBound, ClaimAborts, HandlerCommits, HandlerThrows,
              AttemptTimesOut, Crash, Restart, LimboCommits, LimboRollsBack, vars

\* Effects are never undone, so what a runner or a row relies on stays.
LEMMA EffectsGrow ==
  ASSUME SucceedingHasEffect, SuccessHasEffect,
         effects \subseteq effects',
         \A j \in Jobs : jobs'[j].status = "succeeded" =>
            jobs[j].status = "succeeded" \/ \E n \in Attempts : <<j, n>> \in effects',
         \A r \in Runners : runners'[r].pc = "succeeding" =>
            \/ runners[r].pc = "succeeding" /\ runners'[r] = runners[r]
            \/ <<runners'[r].job, runners'[r].attempts>> \in effects'
  PROVE  SucceedingHasEffect' /\ SuccessHasEffect'
<1>1. SucceedingHasEffect'
      BY DEF SucceedingHasEffect, Attempt
<1>2. SuccessHasEffect'
      BY DEF SuccessHasEffect
<1>3. QED BY <1>1, <1>2

\* Success is recorded only by a runner whose handler has committed.
LEMMA EffectStep == IInv /\ [Next]_vars => SucceedingHasEffect' /\ SuccessHasEffect'
<1> SUFFICES ASSUME IInv, [Next]_vars PROVE SucceedingHasEffect' /\ SuccessHasEffect'
    OBVIOUS
<1>0. TableOK /\ HoldsRow /\ SucceedingHasEffect /\ SuccessHasEffect
      BY DEF IInv
<1> DEFINE Rows == \A j \in Jobs : jobs'[j].status = "succeeded" =>
                     jobs[j].status = "succeeded" \/ \E n \in Attempts : <<j, n>> \in effects'
           Pcs == \A r \in Runners : runners'[r].pc = "succeeding" =>
                     \/ runners[r].pc = "succeeding" /\ runners'[r] = runners[r]
                     \/ <<runners'[r].job, runners'[r].attempts>> \in effects'
           Grow == effects \subseteq effects'
<1> SUFFICES Rows /\ Pcs /\ Grow
    BY <1>0, EffectsGrow
<1> USE DEF TableOK, Row, Runner, Idle
<1>1. ASSUME NEW j \in Jobs, BecomeDue(j) \/ LeaseExpires(j) PROVE Rows /\ Pcs /\ Grow
  <2>1. \A i \in Jobs : jobs'[i].status = jobs[i].status
        BY <1>0, <1>1 DEF BecomeDue, LeaseExpires
  <2>2. QED BY <1>0, <1>1, <2>1 DEF BecomeDue, LeaseExpires
<1>2. ASSUME NEW j \in Jobs, NEW k \in Keys \cup {NoKey}, Enqueue(j, k) PROVE Rows /\ Pcs /\ Grow
      BY <1>0, <1>2 DEF Enqueue
<1>3. ASSUME NEW r \in Runners, NEW j \in Jobs, Claim(r, j) PROVE Rows /\ Pcs /\ Grow
      BY <1>0, <1>3 DEF Claim
<1>4. ASSUME NEW r \in Runners, HandlerCommits(r) PROVE Rows /\ Pcs /\ Grow
  <2>1. Pcs
        BY <1>0, <1>4 DEF HandlerCommits, Attempt
  <2>2. QED BY <2>1, <1>4 DEF HandlerCommits
<1>5. ASSUME NEW r \in Runners, HandlerThrows(r) \/ AttemptTimesOut(r) PROVE Rows /\ Pcs /\ Grow
      BY <1>0, <1>5 DEF HandlerThrows, AttemptTimesOut
<1>6. ASSUME NEW r \in Runners, Succeed(r) PROVE Rows /\ Pcs /\ Grow
  <2>1. PICK j \in Jobs :
           /\ j = runners[r].job /\ runners[r].pc = "succeeding"
           /\ runners' = [runners EXCEPT ![r] = Idle] /\ effects' = effects
           /\ \A i \in Jobs \ {j} : jobs'[i] = jobs[i]
        BY <1>0, <1>6, SucceedWrites
  <2>2. runners[r].attempts \in Attempts /\ <<j, runners[r].attempts>> \in effects'
        BY <1>0, <2>1 DEF SucceedingHasEffect, Attempt
  <2>3. QED BY <1>0, <2>1, <2>2
<1>7. ASSUME NEW r \in Runners, Fail(r) PROVE Rows /\ Pcs /\ Grow
  <2>1. PICK j \in Jobs :
           /\ runners' = [runners EXCEPT ![r] = Idle] /\ effects' = effects
           /\ \/ jobs' = jobs
              \/ /\ \A i \in Jobs \ {j} : jobs'[i] = jobs[i]
                 /\ jobs'[j].status \in {"failed", "pending"}
        BY <1>0, <1>7, FailWrites
  <2>2. QED BY <1>0, <2>1
<1>8. ASSUME NEW r \in Runners, Crash(r) \/ Restart(r) \/ ClaimAborts(r)
      PROVE Rows /\ Pcs /\ Grow
      BY <1>0, <1>8 DEF Crash, Restart, ClaimAborts
<1>8a. ASSUME NEW r \in Runners, NEW j \in Jobs, ClaimBreaksBound(r, j) PROVE Rows /\ Pcs /\ Grow
      BY <1>0, <1>8a DEF ClaimBreaksBound
<1>9. ASSUME NEW a \in limbo, LimboCommits(a) \/ LimboRollsBack(a) PROVE Rows /\ Pcs /\ Grow
      BY <1>0, <1>9 DEF LimboCommits, LimboRollsBack
<1>10. CASE UNCHANGED vars
      BY <1>0, <1>10 DEF vars
<1>11. QED BY <1>1, <1>2, <1>3, <1>4, <1>5, <1>6, <1>7, <1>8, <1>8a, <1>9, <1>10 DEF Next

\* A row's counter never falls below what a busy runner was given, so the
\* runner's own exhaustion is the row's.
LEMMA GivenUpStep == IInv /\ [Next]_vars => GivenUpOnlyWhenExhausted'
<1> SUFFICES ASSUME IInv, [Next]_vars PROVE GivenUpOnlyWhenExhausted'
    OBVIOUS
<1>0. TableOK /\ HoldsRow /\ GivenUpOnlyWhenExhausted
      BY DEF IInv
<1> USE DEF GivenUpOnlyWhenExhausted, TableOK, Row, Runner
<1>1. ASSUME NEW j \in Jobs, BecomeDue(j) \/ LeaseExpires(j) PROVE GivenUpOnlyWhenExhausted'
      BY <1>0, <1>1 DEF BecomeDue, LeaseExpires
<1>2. ASSUME NEW j \in Jobs, NEW k \in Keys \cup {NoKey}, Enqueue(j, k)
      PROVE GivenUpOnlyWhenExhausted'
      BY <1>0, <1>2 DEF Enqueue
<1>3. ASSUME NEW r \in Runners, NEW j \in Jobs, Claim(r, j) PROVE GivenUpOnlyWhenExhausted'
      BY <1>0, <1>3 DEF Claim
<1>4. ASSUME NEW r \in Runners, Succeed(r) PROVE GivenUpOnlyWhenExhausted'
      BY <1>0, <1>4, SucceedWrites
<1>5. ASSUME NEW r \in Runners, Fail(r) PROVE GivenUpOnlyWhenExhausted'
  <2>1. PICK j \in Jobs :
           /\ runners[r].attempts <= jobs[j].attempts
           /\ \/ jobs' = jobs
              \/ /\ \A i \in Jobs \ {j} : jobs'[i] = jobs[i]
                 /\ jobs'[j].attempts = jobs[j].attempts
                 /\ jobs'[j].status = "failed" => runners[r].attempts >= MaxAttempts
        BY <1>0, <1>5, FailWrites
  <2>2. runners[r].attempts \in Nat /\ jobs[j].attempts \in 0..MaxAttempts
        BY <1>0
  <2>3. ASSUME NEW i \in Jobs, jobs'[i].status = "failed" PROVE jobs'[i].attempts = MaxAttempts
    <3>1. CASE jobs' = jobs \/ i # j
          BY <1>0, <2>1, <2>3, <3>1
    <3>2. CASE jobs' # jobs /\ i = j
          BY <2>1, <2>2, <2>3, <3>2
    <3>3. QED BY <3>1, <3>2
  <2>4. QED BY <2>3
<1>6. CASE UNCHANGED jobs
      BY <1>0, <1>6
<1>7. QED BY <1>1, <1>2, <1>3, <1>4, <1>5, <1>6
          DEF Next, ClaimBreaksBound, ClaimAborts, HandlerCommits, HandlerThrows,
              AttemptTimesOut, Crash, Restart, LimboCommits, LimboRollsBack, vars

-----------------------------------------------------------------------------
\* The invariant is inductive.
LEMMA NextIInv == IInv /\ [Next]_vars => IInv'
BY TypeStep, HoldsRowStep, OneRunnerStep, KeyStep, EffectStep, GivenUpStep DEF IInv

\* Every reachable state of the queue satisfies the inductive invariant.
THEOREM JobRunnerInvariant == Spec => []IInv
BY InitIInv, NextIInv, PTL DEF Spec

\* The due order stays a sequence of jobs.
LEMMA DueStep == DueOK /\ [Next]_vars => DueOK'
<1> SUFFICES ASSUME due \in Seq(Jobs), [Next]_vars PROVE due' \in Seq(Jobs)
    BY DEF DueOK
<1>1. ASSUME NEW j \in Jobs, NEW k \in Keys \cup {NoKey}, Enqueue(j, k) PROVE due' \in Seq(Jobs)
  <2>1. ASSUME NEW i \in 0..Len(due)
        PROVE  SubSeq(due, 1, i) \o <<j>> \o SubSeq(due, i + 1, Len(due)) \in Seq(Jobs)
    <3>1. SubSeq(due, 1, i) \in Seq(Jobs) /\ SubSeq(due, i + 1, Len(due)) \in Seq(Jobs)
          OBVIOUS
    <3>2. <<j>> \in Seq(Jobs)
          OBVIOUS
    <3>3. QED BY <3>1, <3>2
  <2>2. QED BY <1>1, <2>1 DEF Enqueue
<1>2. ASSUME NEW j \in Jobs, BecomeDue(j) PROVE due' \in Seq(Jobs)
      BY <1>2 DEF BecomeDue
<1>3. ASSUME NEW j, NotDue(j) PROVE due' \in Seq(Jobs)
  <2>1. ASSUME NEW i \in DOMAIN due
        PROVE  SubSeq(due, 1, i - 1) \o SubSeq(due, i + 1, Len(due)) \in Seq(Jobs)
    <3>1. i \in 1..Len(due)
          BY <2>1
    <3>2. SubSeq(due, 1, i - 1) \in Seq(Jobs) /\ SubSeq(due, i + 1, Len(due)) \in Seq(Jobs)
          BY <3>1
    <3>3. QED BY <3>2
  <2>2. QED BY <1>3, <2>1 DEF NotDue
<1>4. CASE due' = due
      BY <1>4
<1>5. QED BY <1>1, <1>2, <1>3, <1>4
          DEF Next, vars, LeaseExpires, Claim, ClaimBreaksBound, ClaimAborts, HandlerCommits,
              HandlerThrows, AttemptTimesOut, Succeed, Fail, Crash, Restart, LimboCommits,
              LimboRollsBack

\* The table, the due order and the runners keep their shapes.
THEOREM JobRunnerType == Spec => []TypeOK
<1>1. Init => DueOK
      BY DEF Init, DueOK
<1>2. Spec => []DueOK
      BY <1>1, DueStep, PTL DEF Spec
<1>3. IInv /\ DueOK => TypeOK
      BY DEF IInv, TypeOK
<1>4. QED BY <1>2, <1>3, JobRunnerInvariant, PTL

\* Claims are exclusive until a lease runs out under a live runner (#claim).
THEOREM JobRunnerExclusive == Spec => []OneRunnerPerJob
<1>1. IInv => OneRunnerPerJob
      BY DEF IInv
<1>2. QED BY <1>1, JobRunnerInvariant, PTL

\* Deduplication holds through enqueues, retries and late failures (enqueueJob).
THEOREM JobRunnerKeys == Spec => []OneLiveJobPerKey
<1>1. IInv => OneLiveJobPerKey
      BY DEF IInv
<1>2. QED BY <1>1, JobRunnerInvariant, PTL

\* A row reads succeeded only with a committed handler behind it (#succeed).
THEOREM JobRunnerOutcomes == Spec => []SuccessHasEffect
<1>1. IInv => SuccessHasEffect
      BY DEF IInv
<1>2. QED BY <1>1, JobRunnerInvariant, PTL

\* A row reads failed only with every attempt used, also when the runner that
\* gives it up lost its lease and others have attempted the job since (#fail).
THEOREM JobRunnerGivesUpLast == Spec => []GivenUpOnlyWhenExhausted
<1>1. IInv => GivenUpOnlyWhenExhausted
      BY DEF IInv
<1>2. QED BY <1>1, JobRunnerInvariant, PTL

\* Until a stall, no step changes a terminal status (#succeed, #fail, #claim).
THEOREM JobRunnerFinal == Spec => OutcomeIsFinal
<1>1. ASSUME IInv, [Next]_vars
      PROVE  [\A j \in Jobs :
                stalls = 0 /\ jobs[j].status \in {"succeeded", "failed"}
                  => jobs'[j].status = jobs[j].status]_vars
  <2> SUFFICES ASSUME Next, NEW j \in Jobs, stalls = 0,
                      jobs[j].status \in {"succeeded", "failed"}
               PROVE  jobs'[j].status = jobs[j].status
      BY <1>1
  <2>0. TableOK /\ HoldsRow
        BY <1>1 DEF IInv
  <2> USE DEF TableOK, Row
  <2>1. ASSUME NEW i \in Jobs, BecomeDue(i) \/ LeaseExpires(i) PROVE jobs'[j].status = jobs[j].status
        BY <2>0, <2>1 DEF BecomeDue, LeaseExpires
  <2>2. ASSUME NEW i \in Jobs, NEW k \in Keys \cup {NoKey}, Enqueue(i, k)
        PROVE jobs'[j].status = jobs[j].status
        BY <2>0, <2>2 DEF Enqueue
  <2>3. ASSUME NEW r \in Runners, NEW i \in Jobs, Claim(r, i)
        PROVE jobs'[j].status = jobs[j].status
        BY <2>0, <2>3 DEF Claim, Selected, Claimable
  <2>4. ASSUME NEW r \in Runners, Succeed(r) PROVE jobs'[j].status = jobs[j].status
        BY <2>0, <2>4, SucceedWrites DEF HoldsRow, Busy
  <2>5. ASSUME NEW r \in Runners, Fail(r) PROVE jobs'[j].status = jobs[j].status
        BY <2>0, <2>5, FailWrites DEF HoldsRow, Busy
  <2>6. CASE UNCHANGED jobs
        BY <2>6
  <2>7. QED BY <2>1, <2>2, <2>3, <2>4, <2>5, <2>6
            DEF Next, ClaimBreaksBound, ClaimAborts, HandlerCommits, HandlerThrows,
                AttemptTimesOut, Crash, Restart, LimboCommits, LimboRollsBack
<1>2. QED BY <1>1, JobRunnerInvariant, PTL DEF Spec, OutcomeIsFinal

-----------------------------------------------------------------------------
(* What an attempt left behind.  Attempt numbers are handed out once, also   *)
(* when a stalled runner and its successor work on one row.                 *)

\* A row that was never inserted has no attempts, and nothing is recorded of
\* an attempt the row has not counted yet.
RecordedIsCounted ==
  /\ \A j \in Jobs : jobs[j].status = "absent" => jobs[j].attempts = 0
  /\ \A j \in Jobs, n \in Attempts :
       <<j, n>> \in effects \cup failures \cup limbo => n <= jobs[j].attempts

\* Two runners never carry the same attempt of a job.
AttemptsApart ==
  \A r, s \in Runners : Busy(r) /\ Busy(s) /\ Attempt(r) = Attempt(s) => r = s

\* An attempt still being handled, or whose handler committed, is not recorded
\* as failed.  Until a timeout no transaction is left open, and an attempt that
\* is being handled or about to be recorded as failed has no effect.
UnsettledIsUnrecorded ==
  /\ \A r \in Runners :
       /\ runners[r].pc \in {"handling", "succeeding"} => Attempt(r) \notin failures
       /\ runners[r].pc \in {"handling", "failing"} /\ timeouts = 0 => Attempt(r) \notin effects
  /\ timeouts = 0 => limbo = {}

AInv == RecordedIsCounted /\ AttemptsApart /\ UnsettledIsUnrecorded /\ FailedAttemptLeavesNoEffect

LEMMA InitAInv == Init => AInv
BY DEF Init, AInv, RecordedIsCounted, AttemptsApart, UnsettledIsUnrecorded,
       FailedAttemptLeavesNoEffect, Busy, Idle

\* Only a claim raises a row's counter, and no step lowers it or brings a row
\* back to "absent".
LEMMA CounterStep ==
  ASSUME IInv, RecordedIsCounted, [Next]_vars
  PROVE  \A j \in Jobs :
           /\ jobs[j].attempts <= jobs'[j].attempts
           /\ jobs'[j].status = "absent" => jobs[j].status = "absent"
                                             /\ jobs'[j].attempts = jobs[j].attempts
<1>0. TableOK /\ HoldsRow
      BY DEF IInv
<1> USE DEF TableOK, Row, RecordedIsCounted
<1>1. ASSUME NEW j \in Jobs, BecomeDue(j) \/ LeaseExpires(j)
      PROVE  \A i \in Jobs : jobs'[i].attempts = jobs[i].attempts
                             /\ jobs'[i].status = jobs[i].status
      BY <1>0, <1>1 DEF BecomeDue, LeaseExpires
<1>2. ASSUME NEW j \in Jobs, NEW k \in Keys \cup {NoKey}, Enqueue(j, k)
      PROVE  \A i \in Jobs : /\ jobs'[i].attempts = jobs[i].attempts
                             /\ jobs'[i].status = "absent" => jobs[i].status = "absent"
      BY <1>0, <1>2 DEF Enqueue
<1>3. ASSUME NEW r \in Runners, NEW j \in Jobs, Claim(r, j)
      PROVE  \A i \in Jobs : /\ jobs[i].attempts <= jobs'[i].attempts
                             /\ jobs'[i].status = "absent" => jobs'[i] = jobs[i]
      BY <1>0, <1>3 DEF Claim
<1>4. ASSUME NEW r \in Runners, Succeed(r)
      PROVE  \A i \in Jobs : /\ jobs'[i].attempts = jobs[i].attempts
                             /\ jobs'[i].status = "absent" => jobs[i].status = "absent"
      BY <1>0, <1>4, SucceedWrites
<1>5. ASSUME NEW r \in Runners, Fail(r)
      PROVE  \A i \in Jobs : /\ jobs'[i].attempts = jobs[i].attempts
                             /\ jobs'[i].status = "absent" => jobs[i].status = "absent"
      BY <1>0, <1>5, FailWrites
<1>6. \A j \in Jobs : jobs[j].attempts \in Nat
      BY <1>0
<1>7. CASE UNCHANGED jobs
      BY <1>6, <1>7
<1>8. QED BY <1>1, <1>2, <1>3, <1>4, <1>5, <1>6, <1>7
          DEF Next, ClaimBreaksBound, ClaimAborts, HandlerCommits, HandlerThrows,
              AttemptTimesOut, Crash, Restart, LimboCommits, LimboRollsBack, vars

\* What a busy runner carries was counted on its row.
LEMMA CarriedIsCounted ==
  ASSUME IInv, NEW r \in Runners, Busy(r)
  PROVE  /\ runners[r].job \in Jobs /\ runners[r].attempts \in Attempts
         /\ runners[r].attempts <= jobs[runners[r].job].attempts
BY DEF IInv, HoldsRow, TableOK, Runner

\* Everything recorded comes from a busy runner or from an open transaction.
LEMMA RecordedStep == IInv /\ AInv /\ [Next]_vars => RecordedIsCounted'
<1> SUFFICES ASSUME IInv, AInv, [Next]_vars PROVE RecordedIsCounted'
    OBVIOUS
<1>0. TableOK /\ RecordedIsCounted /\ TableOK'
      BY TypeStep DEF IInv, AInv
<1>1. ASSUME NEW j \in Jobs, NEW n \in Attempts,
             <<j, n>> \in (effects \cup failures \cup limbo)'
      PROVE  n <= jobs[j].attempts
  <2>1. CASE <<j, n>> \in effects \cup failures \cup limbo
        BY <2>1, <1>0 DEF RecordedIsCounted
  <2>2. CASE \E r \in Runners : Busy(r) /\ <<j, n>> = Attempt(r)
        BY <2>2, CarriedIsCounted DEF Attempt
  <2>3. QED
        BY <2>1, <2>2, <1>1
        DEF Next, vars, BecomeDue, LeaseExpires, Enqueue, Claim, ClaimBreaksBound, ClaimAborts,
            HandlerCommits, HandlerThrows,
            AttemptTimesOut, Succeed, Fail, Crash, Restart, LimboCommits, LimboRollsBack, Busy
<1>2. \A j \in Jobs : /\ jobs[j].attempts <= jobs'[j].attempts
                      /\ jobs'[j].status = "absent" => jobs'[j].attempts = 0
      BY <1>0, CounterStep DEF RecordedIsCounted
<1>3. \A j \in Jobs : jobs[j].attempts \in Nat /\ jobs'[j].attempts \in Nat
      BY <1>0 DEF TableOK, Row
<1>4. QED BY <1>1, <1>2, <1>3 DEF RecordedIsCounted

\* A claim hands out a number above every number the row has counted.
LEMMA ClaimIsFresh ==
  ASSUME IInv, AInv, NEW r \in Runners, NEW j \in Jobs, Claim(r, j)
  PROVE  /\ Attempt(r)' \notin effects \cup failures
         /\ \A s \in Runners : Busy(s) => Attempt(s) # Attempt(r)'
<1>1. Attempt(r)' = <<j, jobs[j].attempts + 1>> /\ jobs[j].attempts + 1 \in Attempts
      BY DEF Claim, Attempt, IInv, TableOK, Row
<1>2. jobs[j].attempts \in Nat
      BY DEF IInv, TableOK, Row
<1>3. <<j, jobs[j].attempts + 1>> \notin effects \cup failures
      BY <1>1, <1>2 DEF AInv, RecordedIsCounted
<1>4. ASSUME NEW s \in Runners, Busy(s) PROVE Attempt(s) # <<j, jobs[j].attempts + 1>>
      BY <1>2, <1>4, CarriedIsCounted DEF Attempt
<1>5. QED BY <1>1, <1>3, <1>4

LEMMA ApartStep == IInv /\ AInv /\ [Next]_vars => AttemptsApart'
<1> SUFFICES ASSUME IInv, AInv, [Next]_vars PROVE AttemptsApart'
    OBVIOUS
<1>0. TableOK /\ AttemptsApart
      BY DEF IInv, AInv
<1>1. ASSUME NEW r \in Runners, NEW j \in Jobs, Claim(r, j) PROVE AttemptsApart'
  <2>1. \A s \in Runners \ {r} : Busy(s)' = Busy(s) /\ Attempt(s)' = Attempt(s)
        BY <1>0, <1>1 DEF Claim, Busy, Attempt, TableOK
  <2>2. QED BY <1>0, <1>1, <2>1, ClaimIsFresh DEF AttemptsApart
<1>2. CASE \A s \in Runners : Busy(s)' => Busy(s) /\ Attempt(s)' = Attempt(s)
      BY <1>0, <1>2 DEF AttemptsApart
<1>3. ASSUME NEW r \in Runners, HandlerCommits(r) \/ HandlerThrows(r) \/ AttemptTimesOut(r)
      PROVE  \A s \in Runners : Busy(s)' => Busy(s) /\ Attempt(s)' = Attempt(s)
      BY <1>0, <1>3 DEF HandlerCommits, HandlerThrows, AttemptTimesOut, Busy, Attempt, TableOK, Runner
<1>4. ASSUME NEW r \in Runners,
             \/ Succeed(r) \/ Fail(r) \/ Crash(r) \/ Restart(r) \/ ClaimAborts(r)
             \/ \E j \in Jobs : ClaimBreaksBound(r, j)
      PROVE  \A s \in Runners : Busy(s)' => Busy(s) /\ Attempt(s)' = Attempt(s)
  <2>1. \E x \in {Idle, [Idle EXCEPT !.pc = "dead"]}
                  \cup {[pc |-> "refused", job |-> j, attempts |-> 0] : j \in Jobs} :
          runners' = [runners EXCEPT ![r] = x]
        BY <1>4 DEF Succeed, Fail, Crash, Restart, ClaimAborts, ClaimBreaksBound
  <2>2. QED BY <1>0, <2>1 DEF Busy, Attempt, Idle, TableOK
<1>5. CASE runners' = runners
      BY <1>2, <1>5 DEF Busy, Attempt
<1>6. QED BY <1>1, <1>2, <1>3, <1>4, <1>5
          DEF Next, BecomeDue, LeaseExpires, Enqueue, LimboCommits, LimboRollsBack, vars

\* The attempt a runner carries is settled by that runner alone, and by an open
\* transaction only after a timeout.
LEMMA UnsettledStep ==
  IInv /\ AInv /\ [Next]_vars => UnsettledIsUnrecorded' /\ FailedAttemptLeavesNoEffect'
<1> SUFFICES ASSUME IInv, AInv, [Next]_vars
             PROVE  UnsettledIsUnrecorded' /\ FailedAttemptLeavesNoEffect'
    OBVIOUS
<1> DEFINE Goal == UnsettledIsUnrecorded' /\ FailedAttemptLeavesNoEffect'
<1>0. /\ TableOK /\ AttemptsApart /\ UnsettledIsUnrecorded /\ FailedAttemptLeavesNoEffect
      /\ timeouts \in Nat
      BY DEF IInv, AInv, TableOK
<1> USE DEF UnsettledIsUnrecorded, FailedAttemptLeavesNoEffect
<1>1. ASSUME NEW r \in Runners, NEW j \in Jobs, Claim(r, j) PROVE Goal
  <2>1. \A s \in Runners \ {r} : runners'[s] = runners[s]
        BY <1>0, <1>1 DEF Claim, TableOK
  <2>2. runners'[r].pc = "handling"
        BY <1>0, <1>1 DEF Claim, TableOK
  <2>3. UNCHANGED <<effects, failures, limbo, timeouts>>
        BY <1>1 DEF Claim
  <2>4. Attempt(r)' \notin effects \cup failures
        BY <1>1, ClaimIsFresh
  <2>5. \A s \in Runners \ {r} : Attempt(s)' = Attempt(s)
        BY <2>1 DEF Attempt
  <2>6. QED BY <1>0, <2>1, <2>2, <2>3, <2>4, <2>5
<1>2. ASSUME NEW r \in Runners, HandlerCommits(r) PROVE Goal
  <2>1. \A s \in Runners \ {r} : runners'[s] = runners[s]
        BY <1>0, <1>2 DEF HandlerCommits, TableOK
  <2>2. runners'[r].pc = "succeeding" /\ Attempt(r)' = Attempt(r)
        BY <1>0, <1>2 DEF HandlerCommits, TableOK, Runner, Attempt
  <2>3. \A s \in Runners \ {r} : Busy(s) => Attempt(s) # Attempt(r)
        BY <1>0, <1>2 DEF HandlerCommits, AttemptsApart, Busy
  <2>4. effects' = effects \cup {Attempt(r)} /\ UNCHANGED <<failures, limbo, timeouts>>
        /\ Attempt(r) \notin failures
        BY <1>0, <1>2 DEF HandlerCommits
  <2>5. QED BY <1>0, <2>1, <2>2, <2>3, <2>4 DEF Attempt, Busy
<1>3. ASSUME NEW r \in Runners, HandlerThrows(r) \/ AttemptTimesOut(r) PROVE Goal
  <2>1. \A s \in Runners \ {r} : runners'[s] = runners[s]
        BY <1>0, <1>3 DEF HandlerThrows, AttemptTimesOut, TableOK
  <2>2. runners'[r].pc = "failing" /\ Attempt(r)' = Attempt(r)
        BY <1>0, <1>3 DEF HandlerThrows, AttemptTimesOut, TableOK, Runner, Attempt
  <2>3. /\ UNCHANGED <<effects, failures>>
        /\ timeouts' = 0 => timeouts = 0 /\ limbo' = limbo /\ Attempt(r) \notin effects
        BY <1>0, <1>3 DEF HandlerThrows, AttemptTimesOut
  <2>4. QED BY <1>0, <2>1, <2>2, <2>3 DEF Attempt
<1>4. ASSUME NEW r \in Runners, Fail(r) PROVE Goal
  <2>1. /\ \A s \in Runners \ {r} : runners'[s] = runners[s]
        /\ runners'[r].pc = "idle"
        BY <1>0, <1>4 DEF Fail, Idle, TableOK
  <2>2. \A s \in Runners \ {r} : Busy(s) => Attempt(s) # Attempt(r)
        BY <1>0, <1>4 DEF Fail, AttemptsApart, Busy
  <2>3. /\ failures' = failures \/ failures' = failures \cup {Attempt(r)}
        /\ UNCHANGED <<effects, limbo, timeouts>>
        /\ timeouts = 0 => Attempt(r) \notin effects
        BY <1>0, <1>4 DEF Fail
  <2>4. QED BY <1>0, <2>1, <2>2, <2>3 DEF Attempt, Busy
<1>5. ASSUME NEW r \in Runners,
             \/ Succeed(r) \/ Crash(r) \/ Restart(r) \/ ClaimAborts(r)
             \/ \E j \in Jobs : ClaimBreaksBound(r, j)
      PROVE  Goal
  <2>1. /\ \A s \in Runners \ {r} : runners'[s] = runners[s]
        /\ runners'[r].pc \in {"idle", "dead", "refused"}
        BY <1>0, <1>5 DEF Succeed, Crash, Restart, ClaimAborts, ClaimBreaksBound, Idle, TableOK
  <2>2. UNCHANGED <<effects, failures, limbo, timeouts>>
        BY <1>5 DEF Succeed, Crash, Restart, ClaimAborts, ClaimBreaksBound
  <2>3. QED BY <1>0, <2>1, <2>2 DEF Attempt
<1>6. ASSUME NEW a \in limbo, LimboCommits(a) \/ LimboRollsBack(a) PROVE Goal
  <2>1. timeouts # 0 /\ timeouts' = timeouts /\ UNCHANGED <<runners, failures>>
        BY <1>0, <1>6 DEF LimboCommits, LimboRollsBack
  <2>2. QED BY <1>0, <2>1 DEF Attempt
<1>7. CASE UNCHANGED <<runners, effects, failures, limbo, timeouts>>
      BY <1>0, <1>7 DEF Attempt
<1>8. QED BY <1>1, <1>2, <1>3, <1>4, <1>5, <1>6, <1>7
          DEF Next, BecomeDue, LeaseExpires, Enqueue, vars

\* The attempts of the jobs are kept apart in every reachable state.
THEOREM JobRunnerAttempts == Spec => []AInv
<1>1. IInv /\ AInv /\ [Next]_vars => AInv'
      BY RecordedStep, ApartStep, UnsettledStep DEF AInv
<1>2. QED BY <1>1, InitAInv, JobRunnerInvariant, PTL DEF Spec

\* Until a timeout abandons a handler, an attempt recorded as failed left
\* nothing behind, through crashes, stalls and late outcomes (#attempt, #fail).
THEOREM JobRunnerFailsClean == Spec => []FailedAttemptLeavesNoEffect
<1>1. AInv => FailedAttemptLeavesNoEffect
      BY DEF AInv
<1>2. QED BY <1>1, JobRunnerAttempts, PTL
=============================================================================
