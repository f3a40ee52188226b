---------------------------- MODULE ReviewLifecycle ----------------------------
(***************************************************************************)
(* One review, its findings and the verifications agents submit against    *)
(* them (reviews/service.ts), with the rules that decide who may move what *)
(* (reviews/domain.ts, reviews/completion.ts, the transition tables of the *)
(* protocol package).                                                      *)
(*                                                                         *)
(* An operation that runs in one transaction behind one row lock is one    *)
(* action.  Three are not: createFinding and submitVerification check the  *)
(* review and the finding before their transaction opens, and acceptance   *)
(* holds the review's lock while it reads findings it does not lock.       *)
(*                                                                         *)
(* Versions are compared for equality only, so a record's version is kept  *)
(* as the set of actors whose last read is still the current one.          *)
(***************************************************************************)

CONSTANTS
  Humans,    \* human_user actors
  Agents,    \* agent_session actors
  Findings,  \* finding identifiers
  Claims,    \* verification identifiers
  NoClaim    \* a decision that names no verification

ASSUME ActorsAssumption == Humans \cap Agents = {}
ASSUME ClaimsAssumption == NoClaim \notin Claims /\ Claims \cap Findings = {}

VARIABLES
  review,    \* reviews.status
  finding,   \* findings: status, source, who disposed of it, who handed it over
  claim,     \* verifications
  fresh,     \* <<actor, record>>: the actor holds the record's current version
  shown,     \* the claim a human's page shows for each finding
  creating,  \* createFinding calls past their checks: who reports it
  submitting,\* submitVerification calls past their checks
  accepting  \* the acceptance that holds the review's lock

vars == <<review, finding, claim, fresh, shown, creating, submitting, accepting>>

Actors == Humans \cup Agents
Final == {"RESOLVED", "WONT_FIX", "DUPLICATE"}
Closed == {"ACCEPTED", "CANCELLED", "ARCHIVED"}
ReviewStatuses == {"NONE", "DRAFT", "READY", "ASSIGNED", "IN_PROGRESS",
                   "AWAITING_HUMAN_REVIEW", "CHANGES_REQUESTED"} \cup Closed
FindingStatuses == {"NONE", "OPEN", "CLAIMED", "IN_PROGRESS", "BLOCKED", "FIXED_UNVERIFIED",
                    "AWAITING_HUMAN_REVIEW", "REOPENED"} \cup Final
Finding == [status : FindingStatuses, source : {"human", "agent"},
            resolvedBy : {"nobody", "human", "agent"}, handedBy : {"nobody", "human", "agent"}]
Claim == [of : Findings, evidence : {"full", "partial"},
          status : {"none", "submitted", "superseded", "accepted", "rejected"}]
Submission == [by : Actors, of : Findings, evidence : {"full", "partial"}]

TypeOK ==
  /\ review \in ReviewStatuses
  /\ finding \in [Findings -> Finding]
  /\ claim \in [Claims -> Claim]
  /\ fresh \subseteq Actors \X (Findings \cup {"review"})
  /\ shown \in [Humans -> [Findings -> Claims \cup {NoClaim}]]
  /\ creating \in [Findings -> SUBSET Actors]
  /\ submitting \in [Claims -> SUBSET Submission]
  /\ accepting \in SUBSET Humans

Init ==
  /\ review = "NONE"
  /\ finding = [f \in Findings |-> [status |-> "NONE", source |-> "human",
                                    resolvedBy |-> "nobody", handedBy |-> "nobody"]]
  /\ claim \in [Claims -> [of : Findings, evidence : {"partial"}, status : {"none"}]]
  /\ fresh = {}
  /\ shown = [h \in Humans |-> [f \in Findings |-> NoClaim]]
  /\ creating = [f \in Findings |-> {}]
  /\ submitting = [c \in Claims |-> {}]
  /\ accepting = {}

-----------------------------------------------------------------------------
(* The rules *)

Kind(a) == IF a \in Humans THEN "human" ELSE "agent"

\* review_status_transitions: the moves an agent may request, and a human's others.
AgentReviewMoves ==
  {<<"READY", "ASSIGNED">>, <<"ASSIGNED", "IN_PROGRESS">>,
   <<"IN_PROGRESS", "AWAITING_HUMAN_REVIEW">>, <<"CHANGES_REQUESTED", "IN_PROGRESS">>}
HumanReviewMoves == AgentReviewMoves \cup
  {<<"DRAFT", "READY">>, <<"READY", "DRAFT">>, <<"ASSIGNED", "READY">>,
   <<"IN_PROGRESS", "CHANGES_REQUESTED">>, <<"AWAITING_HUMAN_REVIEW", "ACCEPTED">>,
   <<"AWAITING_HUMAN_REVIEW", "CHANGES_REQUESTED">>, <<"CHANGES_REQUESTED", "ASSIGNED">>,
   <<"ACCEPTED", "CHANGES_REQUESTED">>, <<"ACCEPTED", "ARCHIVED">>,
   <<"CANCELLED", "ARCHIVED">>}
  \cup {<<s, "CANCELLED">> : s \in ReviewStatuses \ (Closed \cup {"NONE"})}

\* mayActorMoveReview, after assertActorMayCloseReview and assertReviewTransition.
MayMoveReview(a, to) ==
  <<review, to>> \in (IF a \in Humans THEN HumanReviewMoves ELSE AgentReviewMoves)

\* finding_status_transitions, as above.
AgentFindingMoves ==
  {<<"OPEN", "CLAIMED">>, <<"CLAIMED", "IN_PROGRESS">>, <<"IN_PROGRESS", "FIXED_UNVERIFIED">>,
   <<"IN_PROGRESS", "BLOCKED">>, <<"FIXED_UNVERIFIED", "AWAITING_HUMAN_REVIEW">>,
   <<"REOPENED", "IN_PROGRESS">>}
HumanFindingMoves == AgentFindingMoves \cup
  {<<"OPEN", "IN_PROGRESS">>, <<"OPEN", "BLOCKED">>, <<"OPEN", "WONT_FIX">>,
   <<"OPEN", "DUPLICATE">>, <<"CLAIMED", "BLOCKED">>, <<"CLAIMED", "OPEN">>,
   <<"IN_PROGRESS", "AWAITING_HUMAN_REVIEW">>, <<"BLOCKED", "IN_PROGRESS">>,
   <<"BLOCKED", "OPEN">>, <<"FIXED_UNVERIFIED", "IN_PROGRESS">>, <<"REOPENED", "CLAIMED">>}
  \cup {<<"AWAITING_HUMAN_REVIEW", s>> : s \in Final \cup {"REOPENED"}}
  \cup {<<s, "REOPENED">> : s \in Final}

\* mayActorMoveFinding.
MayMoveFinding(a, from, to) ==
  <<from, to>> \in (IF a \in Humans THEN HumanFindingMoves ELSE AgentFindingMoves)

\* assertReviewMutable for a change that edits fields.
Mutable == review \notin Closed \cup {"NONE"}

\* A write moves the version on: only its author knows the new one.
Bump(a, rec) == {p \in fresh : p[2] # rec} \cup {<<a, rec>>}

Current(f) == {c \in Claims : claim[c].of = f /\ claim[c].status = "submitted"}

\* Mutant: what was shown does not matter, only that the version matches.
NamedIsAnything(a, f) == TRUE

\* assertVerificationUnderReview: the decision names the claim its author was shown,
\* and it is the current one.
NamedIsCurrent(a, f) ==
  IF Current(f) = {} THEN shown[a][f] = NoClaim ELSE shown[a][f] \in Current(f)

\* Mutant: an agent hands over with nothing submitted.
NoEvidenceAsked(a, f, to) == TRUE

\* assertCompletionEvidence with missingEvidence: an agent's hand-over needs a current
\* claim with what the project asks for.
EvidencePermits(a, f, to) ==
  to = "AWAITING_HUMAN_REVIEW" /\ a \in Agents =>
    \E c \in Current(f) : claim[c].evidence = "full"

\* assertReviewAcceptable asks this of every finding a human reported.
Disposed(f) == finding[f].status \in Final

HumanFindings == {f \in Findings : finding[f].status # "NONE" /\ finding[f].source = "human"}

-----------------------------------------------------------------------------
(* The review *)

\* createReview.
CreateReview(a, s) ==
  /\ review = "NONE" /\ s \in {"DRAFT", "READY"}
  /\ review' = s /\ fresh' = Bump(a, "review")
  /\ UNCHANGED <<finding, claim, shown, creating, submitting, accepting>>

\* updateReview with a status, other than an acceptance.
MoveReview(a, to) ==
  /\ accepting = {} /\ <<a, "review">> \in fresh
  /\ to # "ACCEPTED" /\ MayMoveReview(a, to)
  /\ review' = to /\ fresh' = Bump(a, "review")
  /\ UNCHANGED <<finding, claim, shown, creating, submitting, accepting>>

\* updateReview of fields; assignReview and claimReview, which take a READY review
\* to ASSIGNED.
EditReview(a) ==
  /\ accepting = {} /\ <<a, "review">> \in fresh /\ Mutable
  /\ \/ UNCHANGED review
     \/ review = "READY" /\ review' = "ASSIGNED"
  /\ fresh' = Bump(a, "review")
  /\ UNCHANGED <<finding, claim, shown, creating, submitting, accepting>>

\* updateReview to ACCEPTED: under the review's lock, every human finding is found
\* disposed of ...
BeginAccept(h) ==
  /\ accepting = {} /\ <<h, "review">> \in fresh /\ MayMoveReview(h, "ACCEPTED")
  /\ \A f \in HumanFindings : Disposed(f)
  /\ accepting' = {h}
  /\ UNCHANGED <<review, finding, claim, fresh, shown, creating, submitting>>

\* ... and the review is written.
CommitAccept(h) ==
  /\ h \in accepting /\ accepting' = {}
  /\ review' = "ACCEPTED" /\ fresh' = Bump(h, "review")
  /\ UNCHANGED <<finding, claim, shown, creating, submitting>>

-----------------------------------------------------------------------------
(* Findings *)

\* createFinding reads the review and the screenshot ...
CheckFinding(a, f) ==
  /\ finding[f].status = "NONE" /\ creating[f] = {} /\ Mutable
  /\ creating' = [creating EXCEPT ![f] = {a}]
  /\ UNCHANGED <<review, finding, claim, fresh, shown, submitting, accepting>>

\* ... and inserts without looking again.  The foreign key keeps the insert waiting
\* for a transaction that holds the review's lock, and no longer.
InsertFinding(a, f) ==
  /\ a \in creating[f] /\ accepting = {}
  /\ finding' = [finding EXCEPT ![f].status = "OPEN", ![f].source = Kind(a)]
  /\ creating' = [creating EXCEPT ![f] = {}]
  /\ fresh' = Bump(a, f)
  /\ UNCHANGED <<review, claim, shown, submitting, accepting>>

\* resolved_by: set by a disposition, cleared by a reopen.
Decider(a, f, to) ==
  IF to \in Final THEN Kind(a)
  ELSE IF to = "REOPENED" THEN "nobody" ELSE finding[f].resolvedBy

\* updateFinding with a status (claimFinding, disposeFinding, reopenFinding): a
\* decision names the current claim and decides it, unless it waives the report.
MoveFinding(a, f, to) ==
  /\ <<a, f>> \in fresh /\ MayMoveFinding(a, finding[f].status, to)
  /\ EvidencePermits(a, f, to)
  /\ to \in Final \cup {"REOPENED"} => NamedIsCurrent(a, f)
  /\ finding' = [finding EXCEPT ![f].status = to, ![f].resolvedBy = Decider(a, f, to),
                   ![f].handedBy = IF to = "AWAITING_HUMAN_REVIEW" THEN Kind(a) ELSE "nobody"]
  /\ claim' = [c \in Claims |->
       IF c \notin Current(f) THEN claim[c]
       ELSE CASE to = "RESOLVED" -> [claim[c] EXCEPT !.status = "accepted"]
              [] to = "REOPENED" -> [claim[c] EXCEPT !.status = "rejected"]
              [] OTHER -> claim[c]]
  /\ fresh' = Bump(a, f)
  /\ UNCHANGED <<review, shown, creating, submitting, accepting>>

\* updateFinding of fields, which asks for nothing but the version.
EditFinding(a, f) ==
  /\ finding[f].status # "NONE" /\ <<a, f>> \in fresh
  /\ fresh' = Bump(a, f)
  /\ UNCHANGED <<review, finding, claim, shown, creating, submitting, accepting>>

-----------------------------------------------------------------------------
(* Verifications *)

\* assertReviewMutable and assertFindingTakesVerification, on rows read outside the
\* transaction.
TakesClaim(f) == Mutable /\ finding[f].status \notin Final \cup {"NONE"}

\* submitVerification checks the finding, the review and the evidence ...
CheckSubmit(a, f, c, e) ==
  /\ claim[c].status = "none" /\ submitting[c] = {} /\ TakesClaim(f)
  /\ submitting' = [submitting EXCEPT ![c] = {[by |-> a, of |-> f, evidence |-> e]}]
  /\ UNCHANGED <<review, finding, claim, fresh, shown, creating, accepting>>

\* Mutant: the earlier claim is kept beside the new one.
KeepCurrent(f, c, s) == [claim EXCEPT ![c] = [of |-> f, evidence |-> s.evidence,
                                              status |-> "submitted"]]

\* Mutant: every earlier claim is superseded, the decided ones too.
SupersedeAll(f, c, s) ==
  [d \in Claims |->
     IF d = c THEN [of |-> f, evidence |-> s.evidence, status |-> "submitted"]
     ELSE IF claim[d].of = f /\ claim[d].status # "none"
     THEN [claim[d] EXCEPT !.status = "superseded"]
     ELSE claim[d]]

\* supersedeCurrentVerification and the insert.
Supersede(f, c, s) ==
  [d \in Claims |->
     IF d = c THEN [of |-> f, evidence |-> s.evidence, status |-> "submitted"]
     ELSE IF d \in Current(f) THEN [claim[d] EXCEPT !.status = "superseded"]
     ELSE claim[d]]

\* ... and records it under the finding's lock, without the version (the MCP tool
\* does not pass it on) and without asking again whether the finding takes one.
RecordSubmit(c) == \E s \in submitting[c] :
  LET f == s.of
      advances == MayMoveFinding(s.by, finding[f].status, "FIXED_UNVERIFIED")
                  /\ finding[f].status \notin Final
  IN /\ claim' = Supersede(f, c, s)
     /\ finding' = [finding EXCEPT ![f].status =
                      IF advances THEN "FIXED_UNVERIFIED" ELSE finding[f].status]
     /\ submitting' = [submitting EXCEPT ![c] = {}]
     /\ fresh' = Bump(s.by, f)
     /\ UNCHANGED <<review, shown, creating, accepting>>

-----------------------------------------------------------------------------
(* Readers *)

\* A client reads a record again for its version only.
Refetch(a, rec) ==
  /\ <<a, rec>> \notin fresh /\ fresh' = fresh \cup {<<a, rec>>}
  /\ IF rec = "review" THEN review # "NONE" ELSE finding[rec].status # "NONE"
  /\ UNCHANGED <<review, finding, claim, shown, creating, submitting, accepting>>

\* verificationReview: a human's page shows the finding and its current claim.
Render(h, f) == \E c \in Claims \cup {NoClaim} :
  /\ finding[f].status # "NONE"
  /\ IF Current(f) = {} THEN c = NoClaim ELSE c \in Current(f)
  /\ shown' = [shown EXCEPT ![h][f] = c]
  /\ fresh' = fresh \cup {<<h, f>>}
  /\ UNCHANGED <<review, finding, claim, creating, submitting, accepting>>

-----------------------------------------------------------------------------
Next ==
  \/ \E a \in Actors :
       \/ \E s \in ReviewStatuses : CreateReview(a, s) \/ MoveReview(a, s)
       \/ EditReview(a)
       \/ \E f \in Findings :
            \/ CheckFinding(a, f) \/ InsertFinding(a, f) \/ EditFinding(a, f)
            \/ \E s \in FindingStatuses : MoveFinding(a, f, s)
            \/ \E c \in Claims, e \in {"full", "partial"} : CheckSubmit(a, f, c, e)
       \/ \E rec \in Findings \cup {"review"} : Refetch(a, rec)
  \/ \E h \in Humans :
       \/ BeginAccept(h) \/ CommitAccept(h)
       \/ \E f \in Findings : Render(h, f)
  \/ \E c \in Claims : RecordSubmit(c)

Spec == Init /\ [][Next]_vars

-----------------------------------------------------------------------------
(* Properties *)

(* However submissions and decisions interleave, a finding has at most one  *)
(* claim under review: a submission supersedes the one before it under the  *)
(* finding's lock (supersedeCurrentVerification, the partial unique index). *)
OneCurrentClaim == \A f \in Findings : \A c, d \in Current(f) : c = d

(* A claim is accepted or rejected only by a human whose own page showed    *)
(* that very claim, though any client may fetch the finding's version again *)
(* at any moment: whoever alone knows the finding's new version wrote it    *)
(* (assertVerificationUnderReview).                                         *)
DecidedAsShown ==
  [][\A c \in Claims :
       claim[c].status = "submitted" /\ claim'[c].status \in {"accepted", "rejected"}
         => \A a \in Actors : <<a, claim[c].of>> \in fresh'
                               => a \in Humans /\ shown[a][claim[c].of] = c]_vars

(* A finding names a decider exactly while it is disposed of, and the       *)
(* decider is a human, whatever agents submit or move meanwhile.            *)
DispositionIsHuman ==
  \A f \in Findings :
    finding[f].resolvedBy = (IF finding[f].status \in Final THEN "human" ELSE "nobody")

(* A finding an agent handed over keeps a claim for the human to look at    *)
(* until it leaves AWAITING_HUMAN_REVIEW, though claims are replaced.       *)
HandoverHasClaim ==
  \A f \in Findings :
    finding[f].status = "AWAITING_HUMAN_REVIEW" /\ finding[f].handedBy = "agent"
      => Current(f) # {}

(* A decision is never rewritten: a claim that was accepted or rejected     *)
(* stays so, though a submission that passed its checks before the decision *)
(* is recorded after it (supersedeCurrentVerification, submitVerification). *)
DecisionStands ==
  [][\A c \in Claims : claim[c].status \in {"accepted", "rejected"}
                        => claim'[c].status = claim[c].status]_vars
=============================================================================
