------------------------------ MODULE JobRunner ------------------------------
(***************************************************************************)
(* The durable job queue of apps/server/src/jobs/runner.ts on the `jobs`   *)
(* table of migration 0057: several runner processes, each working on at   *)
(* most one job (`#inFlight`), claim rows, run the handler in a            *)
(* transaction of its own and record the outcome in a third transaction.   *)
(*                                                                         *)
(* Time is abstracted to what the SQL tests and sorts by: `due` holds the  *)
(* rows whose `run_after` has passed, in the order of the claim query      *)
(* (`run_after`, then `created_at`), and `lease` says whether              *)
(* `locked_until` has passed.                                              *)
(***************************************************************************)
EXTENDS Naturals, FiniteSets, Sequences

CONSTANTS
  Jobs,         \* job identifiers
  Keys,         \* idempotency keys (with the job kind)
  NoKey,        \* the null idempotency_key
  NoJob,        \* what an idle runner works on
  Runners,      \* runner processes
  MaxAttempts,  \* jobs.max_attempts
  MaxCrashes,   \* how many times a runner process may die
  MaxStalls,    \* how many leases may run out under a runner that is alive
  MaxTimeouts   \* how many attempts may reach DEFAULT_ATTEMPT_TIMEOUT_MS

ASSUME JobConstants ==
  /\ MaxAttempts \in Nat \ {0}
  /\ MaxCrashes \in Nat /\ MaxStalls \in Nat /\ MaxTimeouts \in Nat
  /\ NoKey \notin Keys
  /\ NoJob \notin Jobs

VARIABLES
  jobs,      \* the jobs table
  due,       \* the jobs whose run_after has passed, first due first
  runners,   \* what each runner process is doing
  effects,   \* <<job, attempt>> whose handler transaction committed
  limbo,     \* <<job, attempt>> whose handler outlived its attempt's timeout
  failures,  \* <<job, attempt>> a committed job.failed event names
  crashes, stalls, timeouts

vars == <<jobs, due, runners, effects, limbo, failures, crashes, stalls, timeouts>>

Attempts == 0..MaxAttempts
Live == {"pending", "running"}

\* Columns of a row the runner reads or writes; "absent" is no row.
Row == [status : {"absent", "pending", "running", "succeeded", "failed"},
        attempts : Attempts,
        lease : {"none", "held", "expired"},
        key : Keys \cup {NoKey}]

\* A runner's local state: the JobRecord it claimed and how far it has got.
Runner == [pc : {"idle", "refused", "handling", "succeeding", "failing", "dead"},
           job : Jobs \cup {NoJob},
           attempts : Attempts]

Idle == [pc |-> "idle", job |-> NoJob, attempts |-> 0]
Busy(r) == runners[r].pc \in {"handling", "succeeding", "failing"}

\* Mutant: the unique index covers pending rows only.
KeyFreeAmongPending(j, k) ==
  k = NoKey \/ \A i \in Jobs \ {j} : jobs[i].key = k => jobs[i].status # "pending"

\* jobs_idempotency_key_unique: no live row other than j carries j's key.
KeyFree(j, k) ==
  \/ k = NoKey
  \/ \A i \in Jobs \ {j} : jobs[i].key = k => jobs[i].status \notin Live

Init ==
  /\ jobs = [j \in Jobs |-> [status |-> "absent", attempts |-> 0,
                             lease |-> "none", key |-> NoKey]]
  /\ due = <<>>
  /\ runners = [r \in Runners |-> Idle]
  /\ effects = {} /\ limbo = {} /\ failures = {}
  /\ crashes = 0 /\ stalls = 0 /\ timeouts = 0

-----------------------------------------------------------------------------
(* Scheduling and time *)

\* Whether run_after <= now() holds of j's row.
Due(j) == \E i \in DOMAIN due : due[i] = j

\* enqueueJob: the insert, when the deduplication index admits it.  run_after is
\* the caller's clock, or a later moment it chose: the row may come before rows
\* that are already due, or be due later.  A refused insert only reads, so it
\* is a stuttering step.
Enqueue(j, k) ==
  /\ jobs[j].status = "absent"
  /\ KeyFree(j, k)
  /\ jobs' = [jobs EXCEPT ![j] = [status |-> "pending", attempts |-> 0,
                                  lease |-> "none", key |-> k]]
  /\ \/ due' = due
     \/ \E i \in 0..Len(due) :
          due' = SubSeq(due, 1, i) \o <<j>> \o SubSeq(due, i + 1, Len(due))
  /\ UNCHANGED <<runners, effects, limbo, failures, crashes, stalls, timeouts>>

\* run_after passes, after that of every row already due.
BecomeDue(j) ==
  /\ jobs[j].status = "pending" /\ ~Due(j)
  /\ due' = Append(due, j)
  /\ UNCHANGED <<jobs, runners, effects, limbo, failures, crashes, stalls, timeouts>>

\* The claim query reads run_after of live rows only, and whatever makes a
\* settled row live again moves it, so a settled row leaves the order.
NotDue(j) ==
  \/ ~Due(j) /\ due' = due
  \/ \E i \in DOMAIN due :
       due[i] = j /\ due' = SubSeq(due, 1, i - 1) \o SubSeq(due, i + 1, Len(due))

Working(r, j) == Busy(r) /\ runners[r].job = j

\* locked_until passes.  A lease of 60 s outlives an attempt of 55 s, so a
\* lease that runs out under a live runner is a stall, and stalls are counted.
LeaseExpires(j) ==
  /\ jobs[j].status = "running" /\ jobs[j].lease = "held"
  /\ jobs' = [jobs EXCEPT ![j].lease = "expired"]
  /\ IF \E r \in Runners : Working(r, j)
       THEN stalls < MaxStalls /\ stalls' = stalls + 1
       ELSE stalls' = stalls
  /\ UNCHANGED <<due, runners, effects, limbo, failures, crashes, timeouts>>

-----------------------------------------------------------------------------
(* The runner *)

\* Mutant: the lease is not looked at.
ClaimableAnyRunning(j) ==
  \/ jobs[j].status = "pending" /\ Due(j)
  \/ jobs[j].status = "running"

\* Mutant: an expired lease is never taken over.
ClaimablePendingOnly(j) == jobs[j].status = "pending" /\ Due(j)

\* The predicate of #claim.
Claimable(j) ==
  \/ jobs[j].status = "pending" /\ Due(j)
  \/ jobs[j].status = "running" /\ jobs[j].lease = "expired"

\* A claim that is about to abort still holds the lock of its row.
Locked(j) == \E r \in Runners : runners[r].pc = "refused" /\ runners[r].job = j

\* The row `order by run_after, created_at for update skip locked limit 1`
\* returns: the first in the order that is claimable and not locked.
Selected(j) ==
  \E i \in DOMAIN due :
    /\ due[i] = j /\ Claimable(j) /\ ~Locked(j)
    /\ \A h \in 1..(i - 1) : Claimable(due[h]) => Locked(due[h])

\* Mutant: taking an expired lease over does not count as an attempt.
ClaimUncounted(r, j) ==
  LET n == IF jobs[j].status = "running" THEN jobs[j].attempts ELSE jobs[j].attempts + 1 IN
  /\ runners[r].pc = "idle"
  /\ Selected(j)
  /\ n <= MaxAttempts
  /\ jobs' = [jobs EXCEPT ![j].status = "running", ![j].lease = "held", ![j].attempts = n]
  /\ runners' = [runners EXCEPT ![r] = [pc |-> "handling", job |-> j, attempts |-> n]]
  /\ UNCHANGED <<due, effects, limbo, failures, crashes, stalls, timeouts>>

\* #claim of a row with attempts left.  The row keeps its run_after.
Claim(r, j) ==
  /\ runners[r].pc = "idle"
  /\ Selected(j)
  /\ jobs[j].attempts + 1 <= MaxAttempts
  /\ jobs' = [jobs EXCEPT ![j].status = "running", ![j].lease = "held",
                          ![j].attempts = @ + 1]
  /\ runners' = [runners EXCEPT ![r] = [pc |-> "handling", job |-> j,
                                        attempts |-> jobs[j].attempts + 1]]
  /\ UNCHANGED <<due, effects, limbo, failures, crashes, stalls, timeouts>>

\* #claim of a row that has used its attempts: the update breaks
\* jobs_attempts_bounded.  The poll has selected no other row; until its
\* transaction is rolled back the others skip this one.
ClaimBreaksBound(r, j) ==
  /\ runners[r].pc = "idle"
  /\ Selected(j)
  /\ jobs[j].attempts + 1 > MaxAttempts
  /\ runners' = [runners EXCEPT ![r] = [pc |-> "refused", job |-> j, attempts |-> 0]]
  /\ UNCHANGED <<jobs, due, effects, limbo, failures, crashes, stalls, timeouts>>

\* The transaction is rolled back and the poll logs the error.
ClaimAborts(r) ==
  /\ runners[r].pc = "refused"
  /\ runners' = [runners EXCEPT ![r] = Idle]
  /\ UNCHANGED <<jobs, due, effects, limbo, failures, crashes, stalls, timeouts>>

Attempt(r) == <<runners[r].job, runners[r].attempts>>

\* Mutant: success is decided before the handler's transaction is awaited.
HandlerNotAwaited(r) ==
  /\ runners[r].pc = "handling"
  /\ runners' = [runners EXCEPT ![r].pc = "succeeding"]
  /\ limbo' = limbo \cup {Attempt(r)}
  /\ UNCHANGED <<jobs, due, effects, failures, crashes, stalls, timeouts>>

\* inTransaction(handler) resolves: the handler's writes are committed.
HandlerCommits(r) ==
  /\ runners[r].pc = "handling"
  /\ effects' = effects \cup {Attempt(r)}
  /\ runners' = [runners EXCEPT ![r].pc = "succeeding"]
  /\ UNCHANGED <<jobs, due, limbo, failures, crashes, stalls, timeouts>>

\* The handler throws, or none is registered for the kind: nothing is written.
HandlerThrows(r) ==
  /\ runners[r].pc = "handling"
  /\ runners' = [runners EXCEPT ![r].pc = "failing"]
  /\ UNCHANGED <<jobs, due, effects, limbo, failures, crashes, stalls, timeouts>>

\* #withTimeout rejects.  Promise.race does not cancel the handler: its
\* transaction stays open and may still commit.
AttemptTimesOut(r) ==
  /\ runners[r].pc = "handling"
  /\ timeouts < MaxTimeouts /\ timeouts' = timeouts + 1
  /\ runners' = [runners EXCEPT ![r].pc = "failing"]
  /\ limbo' = limbo \cup {Attempt(r)}
  /\ UNCHANGED <<jobs, due, effects, failures, crashes, stalls>>

\* The transaction of a timed-out attempt commits, or is rolled back.
LimboCommits(a) ==
  /\ a \in limbo /\ limbo' = limbo \ {a}
  /\ effects' = effects \cup {a}
  /\ UNCHANGED <<jobs, due, runners, failures, crashes, stalls, timeouts>>

LimboRollsBack(a) ==
  /\ a \in limbo /\ limbo' = limbo \ {a}
  /\ UNCHANGED <<jobs, due, runners, effects, failures, crashes, stalls, timeouts>>

\* #succeed: an update by id alone, whoever holds the row by now.
Succeed(r) ==
  LET j == runners[r].job IN
  /\ runners[r].pc = "succeeding"
  /\ jobs' = [jobs EXCEPT ![j].status = "succeeded", ![j].lease = "none"]
  /\ NotDue(j)
  /\ runners' = [runners EXCEPT ![r] = Idle]
  /\ UNCHANGED <<effects, limbo, failures, crashes, stalls, timeouts>>

\* Mutant: off by one in the attempt budget.
ExhaustedOneEarly(n) == n + 1 >= MaxAttempts

\* job.attempts >= job.maxAttempts, of the record claimed.
Exhausted(n) == n >= MaxAttempts

\* #fail: an update by id alone; a retry is due later.  Going back to pending
\* may meet the unique index; the transaction is then rolled back and the poll
\* only logs.
Fail(r) ==
  LET j == runners[r].job
      exhausted == Exhausted(runners[r].attempts)
  IN
  /\ runners[r].pc = "failing"
  /\ runners' = [runners EXCEPT ![r] = Idle]
  /\ IF exhausted \/ jobs[j].status \in Live \/ KeyFree(j, jobs[j].key)
       THEN /\ jobs' = [jobs EXCEPT ![j].status = IF exhausted THEN "failed" ELSE "pending",
                                    ![j].lease = "none"]
            /\ NotDue(j)
            /\ failures' = failures \cup {Attempt(r)}
       ELSE UNCHANGED <<jobs, due, failures>>
  /\ UNCHANGED <<effects, limbo, crashes, stalls, timeouts>>

\* The process dies: the JobRecord and an open handler transaction die with it.
Crash(r) ==
  /\ runners[r].pc # "dead"
  /\ crashes < MaxCrashes /\ crashes' = crashes + 1
  /\ runners' = [runners EXCEPT ![r] = [Idle EXCEPT !.pc = "dead"]]
  /\ UNCHANGED <<jobs, due, effects, limbo, failures, stalls, timeouts>>

\* start(): a new process polls again.
Restart(r) ==
  /\ runners[r].pc = "dead"
  /\ runners' = [runners EXCEPT ![r] = Idle]
  /\ UNCHANGED <<jobs, due, effects, limbo, failures, crashes, stalls, timeouts>>

-----------------------------------------------------------------------------
Next ==
  \/ \E j \in Jobs : BecomeDue(j) \/ LeaseExpires(j)
  \/ \E j \in Jobs, k \in Keys \cup {NoKey} : Enqueue(j, k)
  \/ \E r \in Runners, j \in Jobs : Claim(r, j) \/ ClaimBreaksBound(r, j)
  \/ \E r \in Runners : \/ ClaimAborts(r)
                        \/ HandlerCommits(r) \/ HandlerThrows(r) \/ AttemptTimesOut(r)
                        \/ Succeed(r) \/ Fail(r) \/ Crash(r) \/ Restart(r)
  \/ \E a \in limbo : LimboCommits(a) \/ LimboRollsBack(a)

(***************************************************************************)
(* A live runner polls every second, settles its attempt (the timeout      *)
(* bounds the handler), clocks advance, and a supervisor restarts a dead   *)
(* process.                                                                *)
(***************************************************************************)
Fairness ==
  /\ \A j \in Jobs : WF_vars(BecomeDue(j)) /\ WF_vars(LeaseExpires(j))
  /\ \A r \in Runners :
       /\ WF_vars(\E j \in Jobs : Claim(r, j) \/ ClaimBreaksBound(r, j))
       /\ WF_vars(ClaimAborts(r))
       /\ WF_vars(HandlerCommits(r) \/ HandlerThrows(r) \/ AttemptTimesOut(r))
       /\ WF_vars(Succeed(r))
       /\ WF_vars(Fail(r))
       /\ WF_vars(Restart(r))

Spec == Init /\ [][Next]_vars
FairSpec == Spec /\ Fairness

-----------------------------------------------------------------------------
(* Properties *)

\* The variables keep the shapes of the table and of the runners.
TableOK ==
  /\ jobs \in [Jobs -> Row]
  /\ runners \in [Runners -> Runner]
  /\ effects \subseteq Jobs \X Attempts
  /\ limbo \subseteq Jobs \X Attempts
  /\ failures \subseteq Jobs \X Attempts
  /\ crashes \in Nat /\ stalls \in Nat /\ timeouts \in Nat

DueOK == due \in Seq(Jobs)

TypeOK == TableOK /\ DueOK

\* As long as no live runner overran its lease, two runners never work on one
\* job, however often runners crash and leases are taken over (runner.ts:9).
OneRunnerPerJob ==
  stalls = 0 => \A r, s \in Runners, j \in Jobs : Working(r, j) /\ Working(s, j) => r = s

\* A live key covers one row, through enqueues and through the retries that
\* bring a row back to pending (enqueueJob's deduplication).
OneLiveJobPerKey ==
  \A i, j \in Jobs :
    jobs[i].status \in Live /\ jobs[j].status \in Live
      /\ jobs[i].key = jobs[j].key /\ jobs[i].key # NoKey => i = j

\* A job is reported succeeded only after some attempt's handler transaction
\* committed (#succeed after the handler, never before).
SuccessHasEffect ==
  \A j \in Jobs : jobs[j].status = "succeeded" => \E n \in Attempts : <<j, n>> \in effects

\* A job is given up only when the row has used every attempt it was given.
GivenUpOnlyWhenExhausted ==
  \A j \in Jobs : jobs[j].status = "failed" => jobs[j].attempts = MaxAttempts

\* While no live runner has overrun its lease a terminal outcome is final: no
\* late #fail or #succeed overwrites it and no claim takes the row again.
OutcomeIsFinal ==
  [][\A j \in Jobs :
       stalls = 0 /\ jobs[j].status \in {"succeeded", "failed"}
         => jobs'[j].status = jobs[j].status]_vars

\* A live row that has used its attempts and that the claim query selects.
Stranded(j) == Claimable(j) /\ jobs[j].attempts = MaxAttempts

\* The queue stops for one reason only.  Every live job is settled in the end,
\* whatever crashes, takes leases over, times out or writes late, until a row is
\* left that the claim query selects and the check on attempts refuses.
OnlyAStrandedRowStopsTheQueue ==
  \A j \in Jobs :
    jobs[j].status \in Live
      ~> jobs[j].status \in {"succeeded", "failed"} \/ \E i \in Jobs : Stranded(i)

\* Migration 0057: "a crashed runner costs a delay rather than a stuck job".  A
\* job that waits for its first attempt is tried in the end.
CrashCostsADelay ==
  \A j \in Jobs :
    jobs[j].status = "pending" /\ jobs[j].attempts = 0 ~> jobs[j].attempts > 0

\* An attempt recorded as failed left nothing of its handler behind, unless it
\* was abandoned by the timeout, which does not cancel the handler
\* (runner.ts:36): a retry never repeats work that was done.
FailedAttemptLeavesNoEffect == timeouts = 0 => failures \cap effects = {}

=============================================================================
