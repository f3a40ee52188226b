---------------------------- MODULE IdempotentCalls ----------------------------
(***************************************************************************)
(* Calls that carry one idempotency key: the key's row                     *)
(* (agents/idempotency.ts) and the three places that run work under it.    *)
(* "route" is underIdempotencyKey of the review routes, "tool" is callTool *)
(* of the MCP server, "intent" is the upload-intent route, which never     *)
(* releases a key.                                                         *)
(*                                                                         *)
(* A call is one attempt; a client that retries makes another.             *)
(***************************************************************************)
CONSTANTS
  Calls,    \* the attempts made under the key
  Digests,  \* request digests
  Wrapper   \* "route", "tool" or "intent"

VARIABLES
  key,   \* the idempotency_keys row
  call,  \* where each attempt stands
  ran    \* history: the attempts whose work committed

keyVars == <<key, call, ran>>

NoRow == [state |-> "absent", digest |-> "none"]
Over == {"replayed", "answered", "failed"}
KeyTypeOK ==
  /\ key \in [state : {"absent", "inflight", "answered"}, digest : Digests \cup {"none"}]
  /\ call \in [Calls -> [digest : Digests \cup {"none"},
                         pc : Over \cup {"idle", "read", "again", "reread", "claimed", "ran",
                                         "refusing"}]]
  /\ ran \subseteq Calls

KeyInit ==
  /\ key = NoRow
  /\ call = [c \in Calls |-> [digest |-> "none", pc |-> "idle"]]
  /\ ran = {}

-----------------------------------------------------------------------------
\* Where a refused claim, and failed work, leave the attempt.  callTool names the
\* key before it claims it, so its catch releases the key in both cases.
ClaimRefused == IF Wrapper = "tool" THEN "refusing" ELSE "failed"
WorkFailed == IF Wrapper = "intent" THEN "failed" ELSE "refusing"

At(c, pc) == call' = [call EXCEPT ![c].pc = pc]

\* Mutant: the insert replaces a row that has no response yet.
Unclaimed(c) == key.state # "answered"

\* INSERT ... ON CONFLICT DO NOTHING writes the row.
Claimable(c) == key.state = "absent"

\* claim: the insert, at the first and at the second pass.
ClaimInsert(c, d) ==
  /\ call[c].pc \in {"idle", "again"}
  /\ call[c].pc = "again" => d = call[c].digest
  /\ IF Claimable(c)
     THEN /\ key' = [state |-> "inflight", digest |-> d]
          /\ call' = [call EXCEPT ![c] = [digest |-> d, pc |-> "claimed"]]
     ELSE /\ call' = [call EXCEPT ![c] = [digest |-> d, pc |->
                                            IF @.pc = "idle" THEN "read" ELSE "reread"]]
          /\ UNCHANGED key
  /\ UNCHANGED ran

\* claim: the read of the row that was in the way, which may be gone by then.
ClaimRead(c) ==
  /\ call[c].pc \in {"read", "reread"}
  /\ At(c, IF key.state = "absent" /\ call[c].pc = "read" THEN "again"
           ELSE IF key.state = "answered" /\ key.digest = call[c].digest THEN "replayed"
           ELSE ClaimRefused)
  /\ UNCHANGED <<key, ran>>

\* The operation commits.
Work(c) ==
  /\ call[c].pc = "claimed" /\ At(c, "ran")
  /\ ran' = ran \cup {c} /\ UNCHANGED key

\* complete: an update of whatever row is there.
Complete(c) ==
  /\ call[c].pc = "ran" /\ At(c, "answered")
  /\ key' = IF key.state = "absent" THEN key ELSE [key EXCEPT !.state = "answered"]
  /\ UNCHANGED ran

\* The operation is refused, or the write of its response fails.
Fail(c) ==
  /\ call[c].pc \in {"claimed", "ran"} /\ At(c, WorkFailed)
  /\ UNCHANGED <<key, ran>>

\* release: a delete of the row while it has no response.
Release(c) ==
  /\ call[c].pc = "refusing" /\ At(c, "failed")
  /\ key' = IF key.state = "inflight" THEN NoRow ELSE key
  /\ UNCHANGED ran

\* The process ends: its calls are lost, the row stays.
Crash ==
  /\ \E c \in Calls : call[c].pc \notin Over \cup {"idle"}
  /\ call' = [c \in Calls |-> IF call[c].pc = "idle" THEN call[c]
                              ELSE [call[c] EXCEPT !.pc = IF @ \in Over THEN @ ELSE "failed"]]
  /\ UNCHANGED <<key, ran>>

KeyNext ==
  \/ \E c \in Calls : \/ \E d \in Digests : ClaimInsert(c, d)
                      \/ ClaimRead(c) \/ Work(c) \/ Complete(c) \/ Fail(c) \/ Release(c)
  \/ Crash

KeySpec == KeyInit /\ [][KeyNext]_keyVars

-----------------------------------------------------------------------------
(* While one call is running under the key no other is: "The first call     *)
(* with this idempotency key has not finished. Retry shortly; it will not   *)
(* run twice." (the refusal in idempotency.ts).                             *)
OneCallRuns ==
  \A c, d \in Calls :
    call[c].pc \in {"claimed", "ran"} /\ call[d].pc \in {"claimed", "ran"} => c = d
=============================================================================
