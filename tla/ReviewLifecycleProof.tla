------------------------- MODULE ReviewLifecycleProof -------------------------
(* Proofs about ReviewLifecycle, for any findings, claims, humans and agents. *)
EXTENDS ReviewLifecycle, TLAPS

(* A finding being created is not there yet, a claim being submitted neither. *)
CreatingIsNew == \A f \in Findings : creating[f] # {} => finding[f].status = "NONE"
SubmittingIsNew == \A c \in Claims : submitting[c] # {} => claim[c].status = "none"

(* The inductive invariant. *)
IInv ==
  /\ TypeOK /\ CreatingIsNew /\ SubmittingIsNew
  /\ OneCurrentClaim /\ DispositionIsHuman /\ HandoverHasClaim

-----------------------------------------------------------------------------
(* What the transition tables allow: nothing leads out of a status that is   *)
(* not there, only a human disposes or reopens, and a disposed finding can   *)
(* only be reopened.                                                         *)
LEMMA FindingMoves ==
  ASSUME NEW a \in Actors, NEW from, NEW to, MayMoveFinding(a, from, to)
  PROVE  /\ to \in FindingStatuses \ {"NONE"} /\ from # "NONE"
         /\ to \in Final \cup {"REOPENED"} => a \in Humans
         /\ from \in Final => to = "REOPENED"
         /\ to = "FIXED_UNVERIFIED" => from = "IN_PROGRESS"
<1>1. CASE a \in Humans
  BY <1>1 DEF MayMoveFinding, HumanFindingMoves, AgentFindingMoves, FindingStatuses, Final
<1>2. CASE a \notin Humans
  BY <1>2 DEF MayMoveFinding, AgentFindingMoves, FindingStatuses, Final
<1> QED BY <1>1, <1>2

LEMMA ReviewMoves ==
  ASSUME NEW a \in Actors, NEW to, MayMoveReview(a, to)
  PROVE  to \in ReviewStatuses
BY DEF MayMoveReview, HumanReviewMoves, AgentReviewMoves, ReviewStatuses, Closed

(* An action that leaves the findings, the claims and what is under way       *)
(* alone keeps all of the invariant but its types.                            *)
LEMMA FrameKeeps ==
  ASSUME IInv, TypeOK', UNCHANGED <<finding, claim, creating, submitting>>
  PROVE  IInv'
BY DEF IInv, CreatingIsNew, SubmittingIsNew, OneCurrentClaim, DispositionIsHuman,
       HandoverHasClaim, Current

LEMMA BumpType ==
  ASSUME NEW a \in Actors, NEW rec \in Findings \cup {"review"},
         fresh \subseteq Actors \X (Findings \cup {"review"})
  PROVE  Bump(a, rec) \subseteq Actors \X (Findings \cup {"review"})
BY DEF Bump

LEMMA ReviewActionsKeep ==
  ASSUME IInv, NEW a \in Actors,
         \/ \E st \in ReviewStatuses : CreateReview(a, st) \/ MoveReview(a, st)
         \/ EditReview(a)
  PROVE  IInv'
<1>1. Bump(a, "review") \subseteq Actors \X (Findings \cup {"review"})
  BY BumpType DEF IInv, TypeOK
<1>2. ASSUME NEW st \in ReviewStatuses, CreateReview(a, st) PROVE IInv'
  <2>1. TypeOK' BY <1>1, <1>2 DEF IInv, TypeOK, CreateReview
  <2> QED BY <1>2, <2>1, FrameKeeps DEF CreateReview
<1>3. ASSUME NEW st \in ReviewStatuses, MoveReview(a, st) PROVE IInv'
  <2>1. TypeOK' BY <1>1, <1>3 DEF IInv, TypeOK, MoveReview
  <2> QED BY <1>3, <2>1, FrameKeeps DEF MoveReview
<1>4. CASE EditReview(a)
  <2>1. TypeOK' BY <1>1, <1>4 DEF IInv, TypeOK, EditReview, ReviewStatuses
  <2> QED BY <1>4, <2>1, FrameKeeps DEF EditReview
<1> QED BY <1>2, <1>3, <1>4

LEMMA ReadersKeep ==
  ASSUME IInv, NEW a \in Actors,
         \/ \E rec \in Findings \cup {"review"} : Refetch(a, rec)
         \/ \E f \in Findings : EditFinding(a, f)
         \/ a \in Humans /\ \E f \in Findings : Render(a, f)
  PROVE  IInv'
<1>1. ASSUME NEW rec \in Findings \cup {"review"}, Refetch(a, rec) PROVE IInv'
  <2>1. TypeOK' BY <1>1 DEF IInv, TypeOK, Refetch
  <2> QED BY <1>1, <2>1, FrameKeeps DEF Refetch
<1>2. ASSUME NEW f \in Findings, EditFinding(a, f) PROVE IInv'
  <2>1. TypeOK' BY <1>2, BumpType DEF IInv, TypeOK, EditFinding
  <2> QED BY <1>2, <2>1, FrameKeeps DEF EditFinding
<1>3. ASSUME a \in Humans, NEW f \in Findings, Render(a, f) PROVE IInv'
  <2>1. TypeOK'
    <3>1. PICK c \in Claims \cup {NoClaim} : shown' = [shown EXCEPT ![a][f] = c]
      BY <1>3 DEF Render
    <3>2. shown' \in [Humans -> [Findings -> Claims \cup {NoClaim}]]
      BY <1>3, <3>1 DEF IInv, TypeOK
    <3> QED BY <1>3, <3>2 DEF IInv, TypeOK, Render
  <2> QED BY <1>3, <2>1, FrameKeeps DEF Render
<1> QED BY <1>1, <1>2, <1>3

(* The two halves of an acceptance.                                           *)
LEMMA AcceptKeeps ==
  ASSUME IInv, NEW h \in Humans, BeginAccept(h) \/ CommitAccept(h)
  PROVE  IInv'
<1>1. CASE BeginAccept(h)
  <2>1. TypeOK' BY <1>1 DEF IInv, TypeOK, BeginAccept
  <2> QED BY <1>1, <2>1, FrameKeeps DEF BeginAccept
<1>2. CASE CommitAccept(h)
  <2>1. TypeOK'
    BY <1>2, BumpType DEF IInv, TypeOK, CommitAccept, Actors, ReviewStatuses, Closed
  <2> QED BY <1>2, <2>1, FrameKeeps DEF CommitAccept
<1> QED BY <1>1, <1>2

LEMMA CreationKeeps ==
  ASSUME IInv, NEW a \in Actors, NEW f \in Findings, CheckFinding(a, f) \/ InsertFinding(a, f)
  PROVE  IInv'
<1> USE DEF IInv
<1>1. CASE CheckFinding(a, f)
  <2>1. TypeOK' BY <1>1 DEF TypeOK, CheckFinding
  <2>2. CreatingIsNew' BY <1>1 DEF TypeOK, CheckFinding, CreatingIsNew
  <2> QED
    BY <1>1, <2>1, <2>2
    DEF CheckFinding, SubmittingIsNew, OneCurrentClaim, DispositionIsHuman, HandoverHasClaim,
        Current
<1>2. CASE InsertFinding(a, f)
  <2> DEFINE new == [finding[f] EXCEPT !.status = "OPEN", !.source = Kind(a)]
  <2>1. finding[f].status = "NONE" /\ finding[f] \in Finding
    BY <1>2 DEF InsertFinding, CreatingIsNew, TypeOK
  <2>2. /\ new \in Finding /\ new.status = "OPEN" /\ new.resolvedBy = finding[f].resolvedBy
        /\ \A g \in Findings : finding'[g] = IF g = f THEN new ELSE finding[g]
    BY <1>2, <2>1 DEF InsertFinding, TypeOK, Finding, FindingStatuses, Kind
  <2>3. TypeOK'
    <3>1. finding' \in [Findings -> Finding]
      BY <1>2, <2>2 DEF InsertFinding, TypeOK
    <3> QED BY <1>2, <3>1, BumpType DEF InsertFinding, TypeOK
  <2>4. "OPEN" \notin Final /\ "OPEN" # "NONE" /\ "OPEN" # "RESOLVED"
        /\ "OPEN" # "AWAITING_HUMAN_REVIEW" /\ "NONE" \notin Final
    BY DEF Final
  <2>5. CreatingIsNew' /\ SubmittingIsNew' /\ OneCurrentClaim' /\ HandoverHasClaim'
    BY <1>2, <2>2, <2>4
    DEF InsertFinding, CreatingIsNew, SubmittingIsNew, OneCurrentClaim, HandoverHasClaim,
        Current, TypeOK
  <2>6. DispositionIsHuman' BY <2>1, <2>2, <2>4 DEF DispositionIsHuman
  <2> QED BY <2>3, <2>5, <2>6
<1> QED BY <1>1, <1>2


(* A human's decision, an agent's hand-over and every other move of a finding. *)
LEMMA MoveFindingKeeps ==
  ASSUME IInv, NEW a \in Actors, NEW f \in Findings, NEW to \in FindingStatuses,
         MoveFinding(a, f, to)
  PROVE  IInv'
<1> USE DEF IInv
<1> DEFINE hand == IF to = "AWAITING_HUMAN_REVIEW" THEN Kind(a) ELSE "nobody"
           new == [finding[f] EXCEPT !.status = to, !.resolvedBy = Decider(a, f, to),
                                     !.handedBy = hand]
           from == finding[f].status
<1>1. /\ to # "NONE" /\ from # "NONE"
      /\ to \in Final \cup {"REOPENED"} => a \in Humans
      /\ from \in Final => to = "REOPENED"
  BY FindingMoves DEF MoveFinding
<1>2. finding[f] \in Finding BY DEF TypeOK
<1>3. "REOPENED" \notin Final /\ "AWAITING_HUMAN_REVIEW" \notin Final /\ "RESOLVED" \in Final
      /\ "NONE" \notin Final
  BY DEF Final
<1>4. Decider(a, f, to) \in {"nobody", "human", "agent"} /\ hand \in {"nobody", "human", "agent"}
  BY <1>2 DEF Decider, Kind, Finding
<1>5. /\ new \in Finding /\ new.status = to /\ new.resolvedBy = Decider(a, f, to)
      /\ new.handedBy = hand /\ new.source = finding[f].source
      /\ \A g \in Findings : finding'[g] = IF g = f THEN new ELSE finding[g]
  BY <1>2, <1>4 DEF MoveFinding, TypeOK, Finding
<1> HIDE DEF new
<1>6. \A c \in Claims :
        /\ claim'[c].of = claim[c].of
        /\ claim'[c] \in Claim
        /\ claim'[c].status = "submitted" => claim[c].status = "submitted"
        /\ c \notin Current(f) => claim'[c] = claim[c]
        /\ c \in Current(f) /\ to = "RESOLVED" => claim'[c].status = "accepted"
        /\ c \in Current(f) /\ to \notin {"RESOLVED", "REOPENED"} => claim'[c] = claim[c]
  <2> SUFFICES ASSUME NEW c \in Claims
               PROVE  /\ claim'[c].of = claim[c].of
                      /\ claim'[c] \in Claim
                      /\ claim'[c].status = "submitted" => claim[c].status = "submitted"
                      /\ c \notin Current(f) => claim'[c] = claim[c]
                      /\ c \in Current(f) /\ to = "RESOLVED" => claim'[c].status = "accepted"
                      /\ c \in Current(f) /\ to \notin {"RESOLVED", "REOPENED"}
                           => claim'[c] = claim[c]
    OBVIOUS
  <2>1. claim[c] \in Claim BY DEF TypeOK
  <2>2. CASE c \notin Current(f) BY <2>1, <2>2 DEF MoveFinding
  <2>3. CASE c \in Current(f) /\ to = "RESOLVED"
    <3>1. claim'[c] = [claim[c] EXCEPT !.status = "accepted"] BY <2>3 DEF MoveFinding
    <3> QED BY <2>1, <2>3, <3>1 DEF Claim
  <2>4. CASE c \in Current(f) /\ to = "REOPENED"
    <3>1. claim'[c] = [claim[c] EXCEPT !.status = "rejected"] BY <2>4 DEF MoveFinding
    <3> QED BY <2>1, <2>4, <3>1 DEF Claim
  <2>5. CASE c \in Current(f) /\ to \notin {"RESOLVED", "REOPENED"}
    <3>1. claim'[c] = claim[c] BY <2>5 DEF MoveFinding
    <3> QED BY <2>1, <2>5, <3>1
  <2> QED BY <2>2, <2>3, <2>4, <2>5
<1>7. \A g \in Findings : Current(g)' \subseteq Current(g)
  BY <1>6 DEF Current
<1>8. TypeOK'
  <2>1. finding' \in [Findings -> Finding] BY <1>5 DEF MoveFinding, TypeOK
  <2>2. claim' \in [Claims -> Claim] BY <1>6 DEF MoveFinding
  <2> QED BY <2>1, <2>2, BumpType DEF MoveFinding, TypeOK
<1>10. CreatingIsNew' BY <1>1, <1>5 DEF MoveFinding, CreatingIsNew
<1>11. SubmittingIsNew'
  <2> SUFFICES ASSUME NEW c \in Claims, submitting[c] # {} PROVE claim'[c].status = "none"
    BY DEF MoveFinding, SubmittingIsNew
  <2>1. claim[c].status = "none" BY DEF SubmittingIsNew
  <2>2. c \notin Current(f) BY <2>1 DEF Current
  <2> QED BY <1>6, <2>1, <2>2
<1>13. OneCurrentClaim' BY <1>7 DEF OneCurrentClaim
<1>14. DispositionIsHuman'
  <2>1. Decider(a, f, to) = IF to \in Final THEN "human" ELSE "nobody"
    BY <1>1, <1>3 DEF Decider, Kind, DispositionIsHuman
  <2> QED BY <1>5, <2>1 DEF DispositionIsHuman
<1>15. HandoverHasClaim'
  <2> SUFFICES ASSUME NEW g \in Findings, finding'[g].status = "AWAITING_HUMAN_REVIEW",
                      finding'[g].handedBy = "agent"
               PROVE  Current(g)' # {}
    BY DEF HandoverHasClaim
  <2>1. CASE g = f
    <3>1. to = "AWAITING_HUMAN_REVIEW" /\ a \in Agents
      <4>1. hand = "agent" BY <1>5, <2>1
      <4> QED BY <4>1 DEF Kind, Actors
    <3>2. PICK c \in Current(f) : TRUE BY <3>1 DEF MoveFinding, EvidencePermits
    <3>3. c \in Claims /\ claim'[c] = claim[c] BY <1>6, <3>1, <3>2 DEF Current
    <3> QED BY <2>1, <3>2, <3>3 DEF Current
  <2>2. CASE g # f
    <3>1. PICK c \in Current(g) : TRUE BY <1>5, <2>2 DEF HandoverHasClaim
    <3>2. c \in Claims /\ c \notin Current(f) BY <2>2, <3>1 DEF Current
    <3> QED BY <1>6, <3>1, <3>2 DEF Current
  <2> QED BY <2>1, <2>2
<1> QED BY <1>8, <1>10, <1>11, <1>13, <1>14, <1>15

LEMMA CheckSubmitKeeps ==
  ASSUME IInv, NEW a \in Actors, NEW f \in Findings, NEW c \in Claims,
         NEW e \in {"full", "partial"}, CheckSubmit(a, f, c, e)
  PROVE  IInv'
<1> USE DEF IInv
<1> DEFINE s == [by |-> a, of |-> f, evidence |-> e]
<1>1. \A d \in Claims : submitting'[d] = IF d = c THEN {s} ELSE submitting[d]
  BY DEF CheckSubmit, TypeOK
<1>2. TypeOK'
  <2>1. s \in Submission BY DEF Submission
  <2> QED BY <2>1 DEF CheckSubmit, TypeOK
<1>3. SubmittingIsNew' BY <1>1 DEF CheckSubmit, SubmittingIsNew
<1> QED
  BY <1>2, <1>3
  DEF CheckSubmit, CreatingIsNew, OneCurrentClaim, DispositionIsHuman, HandoverHasClaim, Current

(* A submission is recorded, whatever has happened to the finding since it    *)
(* was checked.                                                               *)
LEMMA RecordSubmitKeeps ==
  ASSUME IInv, NEW c \in Claims, RecordSubmit(c)
  PROVE  IInv'
<1> USE DEF IInv
<1>1. PICK s \in submitting[c] :
        LET f == s.of
            advances == MayMoveFinding(s.by, finding[f].status, "FIXED_UNVERIFIED")
                        /\ finding[f].status \notin Final
        IN /\ claim' = Supersede(f, c, s)
           /\ finding' = [finding EXCEPT ![f].status =
                            IF advances THEN "FIXED_UNVERIFIED" ELSE finding[f].status]
           /\ submitting' = [submitting EXCEPT ![c] = {}]
           /\ fresh' = Bump(s.by, f)
           /\ UNCHANGED <<review, shown, creating, accepting>>
  BY DEF RecordSubmit
<1> DEFINE f == s.of
           st == finding'[f].status
<1>2. s \in Submission /\ f \in Findings /\ s.by \in Actors /\ s.evidence \in {"full", "partial"}
  BY DEF TypeOK, Submission
<1>3. finding[f] \in Finding BY <1>2 DEF TypeOK
<1>4. "FIXED_UNVERIFIED" \notin Final /\ "FIXED_UNVERIFIED" \in FindingStatuses
  BY DEF Final, FindingStatuses
<1>5. /\ finding' \in [Findings -> Finding]
      /\ \A g \in Findings : g # f => finding'[g] = finding[g]
      /\ finding'[f].source = finding[f].source
      /\ finding'[f].resolvedBy = finding[f].resolvedBy
      /\ finding'[f].handedBy = finding[f].handedBy
      /\ \/ st = finding[f].status
         \/ st = "FIXED_UNVERIFIED" /\ finding[f].status = "IN_PROGRESS"
  <2>1. ASSUME MayMoveFinding(s.by, finding[f].status, "FIXED_UNVERIFIED")
        PROVE  finding[f].status = "IN_PROGRESS"
    BY <1>2, <2>1, FindingMoves
  <2> DEFINE to == IF MayMoveFinding(s.by, finding[f].status, "FIXED_UNVERIFIED")
                      /\ finding[f].status \notin Final
                   THEN "FIXED_UNVERIFIED" ELSE finding[f].status
  <2>2. finding' = [finding EXCEPT ![f].status = to] BY <1>1
  <2>3. to \in FindingStatuses BY <1>3, <1>4 DEF Finding
  <2>4. to = finding[f].status \/ (to = "FIXED_UNVERIFIED" /\ finding[f].status = "IN_PROGRESS")
    BY <2>1
  <2> HIDE DEF to
  <2> QED BY <1>2, <1>3, <2>2, <2>3, <2>4 DEF TypeOK, Finding
<1>6. "IN_PROGRESS" \notin Final /\ "IN_PROGRESS" # "NONE" /\ "FIXED_UNVERIFIED" # "NONE"
  BY DEF Final
<1>7. claim[c].status = "none" BY DEF SubmittingIsNew
<1>8. \A d \in Claims :
        /\ claim'[d] \in Claim
        /\ d = c => claim'[d].of = f /\ claim'[d].status = "submitted"
        /\ d # c /\ d \in Current(f) => claim'[d].status = "superseded"
        /\ d # c /\ d \notin Current(f) => claim'[d] = claim[d]
  <2> SUFFICES ASSUME NEW d \in Claims
               PROVE  /\ claim'[d] \in Claim
                      /\ d = c => claim'[d].of = f /\ claim'[d].status = "submitted"
                      /\ d # c /\ d \in Current(f) => claim'[d].status = "superseded"
                      /\ d # c /\ d \notin Current(f) => claim'[d] = claim[d]
    OBVIOUS
  <2>1. claim[d] \in Claim BY DEF TypeOK
  <2>2. CASE d = c
    <3>1. claim'[d] = [of |-> f, evidence |-> s.evidence, status |-> "submitted"]
      BY <1>1, <2>2 DEF Supersede
    <3> QED BY <1>2, <2>2, <3>1 DEF Claim
  <2>3. CASE d # c /\ d \in Current(f)
    <3>1. claim'[d] = [claim[d] EXCEPT !.status = "superseded"] BY <1>1, <2>3 DEF Supersede
    <3> QED BY <2>1, <2>3, <3>1 DEF Claim
  <2>4. CASE d # c /\ d \notin Current(f)
    <3>1. claim'[d] = claim[d] BY <1>1, <2>4 DEF Supersede
    <3> QED BY <2>1, <2>4, <3>1
  <2> QED BY <2>2, <2>3, <2>4
<1>9. Current(f)' = {c} BY <1>8 DEF Current
<1>10. \A g \in Findings : g # f => Current(g)' = Current(g)
  BY <1>7, <1>8 DEF Current
<1>11. TypeOK'
  <2>1. claim' \in [Claims -> Claim] BY <1>1, <1>8 DEF Supersede
  <2> QED BY <1>1, <1>2, <1>5, <2>1, BumpType DEF TypeOK
<1>12. CreatingIsNew' BY <1>1, <1>5, <1>6 DEF CreatingIsNew
<1>13. SubmittingIsNew'
  <2> SUFFICES ASSUME NEW d \in Claims, submitting'[d] # {} PROVE claim'[d].status = "none"
    BY DEF SubmittingIsNew
  <2>1. d # c /\ submitting[d] # {} BY <1>1 DEF TypeOK
  <2>2. claim[d].status = "none" BY <2>1 DEF SubmittingIsNew
  <2> QED BY <1>8, <2>1, <2>2 DEF Current
<1>15. OneCurrentClaim' BY <1>9, <1>10 DEF OneCurrentClaim
<1>16. DispositionIsHuman' BY <1>4, <1>5, <1>6 DEF DispositionIsHuman
<1>17. HandoverHasClaim' BY <1>5, <1>9, <1>10 DEF HandoverHasClaim
<1> QED BY <1>11, <1>12, <1>13, <1>15, <1>16, <1>17

-----------------------------------------------------------------------------
LEMMA InitEstablishes == Init => IInv
<1> SUFFICES ASSUME Init PROVE IInv OBVIOUS
<1>1. TypeOK
  BY DEF Init, TypeOK, Finding, FindingStatuses, Claim, ReviewStatuses
<1> QED
  BY <1>1
  DEF Init, IInv, CreatingIsNew, SubmittingIsNew, OneCurrentClaim, DispositionIsHuman,
      HandoverHasClaim, Current, Final

LEMMA NextKeeps == IInv /\ [Next]_vars => IInv'
<1> SUFFICES ASSUME IInv, [Next]_vars PROVE IInv' OBVIOUS
<1>1. CASE Next
  <2>1. Humans \subseteq Actors BY DEF Actors
  <2> QED
    BY <1>1, <2>1, ReviewActionsKeep, ReadersKeep, AcceptKeeps, CreationKeeps,
       MoveFindingKeeps, CheckSubmitKeeps, RecordSubmitKeeps
    DEF Next
<1>2. CASE UNCHANGED vars
  <2>1. TypeOK' BY <1>2 DEF vars, IInv, TypeOK
  <2> QED BY <1>2, <2>1, FrameKeeps DEF vars
<1> QED BY <1>1, <1>2

(* The inductive invariant holds in every reachable state, whoever overlaps. *)
THEOREM Invariance == Spec => []IInv
BY InitEstablishes, NextKeeps, PTL DEF Spec

(* The types of the review, its findings, its claims and the calls under way. *)
THEOREM TypeCorrect == Spec => []TypeOK
<1>1. IInv => TypeOK BY DEF IInv
<1> QED BY <1>1, Invariance, PTL

(* A finding never has two claims under review.                               *)
THEOREM AtMostOneClaim == Spec => []OneCurrentClaim
<1>1. IInv => OneCurrentClaim BY DEF IInv
<1> QED BY <1>1, Invariance, PTL

(* A finding is disposed of exactly while a human is named as its decider.    *)
THEOREM HumansDispose == Spec => []DispositionIsHuman
<1>1. IInv => DispositionIsHuman BY DEF IInv
<1> QED BY <1>1, Invariance, PTL

(* What an agent handed over has a claim for the human to look at.            *)
THEOREM HandoverKeepsClaim == Spec => []HandoverHasClaim
<1>1. IInv => HandoverHasClaim BY DEF IInv
<1> QED BY <1>1, Invariance, PTL

(* A claim is decided only by a human whose own page showed it.               *)
THEOREM DecisionsAsShown == Spec => DecidedAsShown
<1> DEFINE A == \A c \in Claims :
                  claim[c].status = "submitted" /\ claim'[c].status \in {"accepted", "rejected"}
                    => \A a \in Actors : <<a, claim[c].of>> \in fresh'
                                          => a \in Humans /\ shown[a][claim[c].of] = c
<1>1. IInv /\ [Next]_vars => [A]_vars
  <2> SUFFICES ASSUME IInv, Next, NEW c \in Claims, claim[c].status = "submitted",
                      claim'[c].status \in {"accepted", "rejected"},
                      NEW b \in Actors, <<b, claim[c].of>> \in fresh'
               PROVE  b \in Humans /\ shown[b][claim[c].of] = c
    OBVIOUS
  <2>1. claim'[c] # claim[c] OBVIOUS
  <2>2. claim' # claim BY <2>1
  <2>3. CASE \E a \in Actors, f \in Findings, to \in FindingStatuses : MoveFinding(a, f, to)
    <3>1. PICK a \in Actors, f \in Findings, to \in FindingStatuses : MoveFinding(a, f, to)
      BY <2>3
    <3>2. c \in Current(f) /\ to \in {"RESOLVED", "REOPENED"}
      BY <2>1, <3>1 DEF MoveFinding
    <3>3. a \in Humans BY <3>1, <3>2, FindingMoves DEF MoveFinding, Final
    <3>4. shown[a][f] \in Current(f)
      BY <3>1, <3>2 DEF MoveFinding, NamedIsCurrent, Final
    <3>5. shown[a][f] = c BY <3>2, <3>4 DEF IInv, OneCurrentClaim
    <3>6. claim[c].of = f BY <3>2 DEF Current
    <3>7. b = a BY <3>1, <3>6 DEF MoveFinding, Bump
    <3> QED BY <3>3, <3>5, <3>6, <3>7
  <2>4. CASE \E d \in Claims : RecordSubmit(d)
    <3> PICK d \in Claims : RecordSubmit(d) BY <2>4
    <3> PICK s \in submitting[d] : claim' = Supersede(s.of, d, s) BY DEF RecordSubmit
    <3>2. claim[c] \in Claim BY DEF IInv, TypeOK
    <3>3. claim'[c].status \in {"submitted", "superseded"}
      BY <3>2 DEF Supersede, Claim
    <3> QED BY <3>3
  <2> QED
    BY <2>2, <2>3, <2>4
    DEF Next, CreateReview, MoveReview, EditReview, CheckFinding, InsertFinding, EditFinding,
        CheckSubmit, Refetch, BeginAccept, CommitAccept, Render
<1> QED BY <1>1, Invariance, PTL DEF Spec, DecidedAsShown

(* A claim that was decided stays so, though a submission that was under way  *)
(* at the decision is recorded after it.                                      *)
THEOREM DecisionsStand == Spec => DecisionStands
<1> DEFINE A == \A c \in Claims : claim[c].status \in {"accepted", "rejected"}
                                  => claim'[c].status = claim[c].status
<1>1. IInv /\ [Next]_vars => [A]_vars
  <2> SUFFICES ASSUME IInv, Next, NEW c \in Claims, claim[c].status \in {"accepted", "rejected"}
               PROVE  claim'[c] = claim[c]
    OBVIOUS
  <2>1. \A f \in Findings : c \notin Current(f) BY DEF Current
  <2>2. CASE \E a \in Actors, f \in Findings, to \in FindingStatuses : MoveFinding(a, f, to)
    BY <2>1, <2>2 DEF MoveFinding
  <2>3. CASE \E d \in Claims : RecordSubmit(d)
    <3> PICK d \in Claims : RecordSubmit(d) BY <2>3
    <3>1. PICK s \in submitting[d] : claim' = Supersede(s.of, d, s) BY DEF RecordSubmit
    <3>2. s.of \in Findings BY DEF IInv, TypeOK, Submission
    <3>3. c # d BY DEF IInv, SubmittingIsNew
    <3> QED BY <2>1, <3>1, <3>2, <3>3 DEF Supersede
  <2>4. CASE claim' = claim BY <2>4
  <2> QED
    BY <2>2, <2>3, <2>4
    DEF Next, CreateReview, MoveReview, EditReview, CheckFinding, InsertFinding, EditFinding,
        CheckSubmit, Refetch, BeginAccept, CommitAccept, Render
<1> QED BY <1>1, Invariance, PTL DEF Spec, DecisionStands

=============================================================================
