-------------------------- MODULE ArtefactStoreProof --------------------------
(* Proofs about ArtefactStore, for any artefacts, contents, requests and calls. *)
EXTENDS ArtefactStore, TLAPS

(* Whoever claimed the key, or ran its work: there is one, and it has a row.  *)
Holder(c) == call[c].pc \in {"claimed", "ran"} \/ c \in ran
OneHolder ==
  /\ \A c \in Calls : Holder(c) => key.state # "absent"
  /\ \A c \in Calls : call[c].pc = "claimed" => call[c].digest \in Digests
  /\ \A c, d \in Calls : Holder(c) /\ Holder(d) => c = d

(* A request under way is about a row that is or was there, and carries bytes *)
(* where it is going to write them.                                           *)
RequestIsAbout ==
  \A r \in Requests :
    /\ req[r].pc \notin {"idle", "insert"} =>
         req[r].art \in Artefacts /\ row[req[r].art].state # "none"
    /\ req[r].pc \in {"put", "record", "insert", "drop", "remove"} => req[r].key \in Contents

(* Who writes a state back read the row before it was available.              *)
WriterReadOpen ==
  \A r \in Requests :
    req[r].pc \in {"put", "record", "fail", "verify", "publish"} => req[r].seen = "open"

(* What is being verified has content.                                        *)
VerifiedHasContent ==
  \A r \in Requests :
    req[r].pc \in {"verify", "publish"} /\ row[req[r].art].state # "deleted" =>
      row[req[r].art].key # NoBytes

(* The bytes a row holds are there and nobody has decided to remove them, but *)
(* for the deletion of the row itself.                                        *)
HeldIsStored ==
  \A a \in Artefacts :
    Live(a) /\ row[a].key # NoBytes /\ a \notin raced =>
      /\ row[a].key \in stored
      /\ \A r \in Requests :
           req[r].pc = "remove" \/ (req[r].pc = "drop" /\ req[r].art # a) =>
             req[r].key # row[a].key

AvailableHasKey == \A a \in Artefacts : row[a].state = "available" => row[a].key # NoBytes

(* The inductive invariant. *)
ArtTypes == /\ row \in [Artefacts -> Row] /\ stored \subseteq Contents
            /\ req \in [Requests -> Request]
            /\ raced \subseteq Artefacts
ArtInv == /\ ArtTypes /\ RequestIsAbout /\ WriterReadOpen /\ VerifiedHasContent
          /\ HeldIsStored /\ AvailableHasKey
IInv == KeyTypeOK /\ OneHolder /\ ArtInv

-----------------------------------------------------------------------------
(* The key's side of a step keeps its types, and one holder.                  *)
LEMMA KeyStep ==
  ASSUME KeyTypeOK, OneHolder,
         \/ \E c \in Calls : (\E d \in Digests : ClaimInsert(c, d)) \/ ClaimRead(c)
                             \/ Work(c) \/ Complete(c) \/ Fail(c)
         \/ Crash
         \/ UNCHANGED keyVars
  PROVE  KeyTypeOK' /\ OneHolder'
<1> USE DEF KeyTypeOK, OneHolder, Holder, Over
<1>1. CASE \E c \in Calls : \E d \in Digests : ClaimInsert(c, d)
  BY <1>1 DEF ClaimInsert, Claimable
<1>2. CASE \E c \in Calls : ClaimRead(c)
  BY <1>2 DEF ClaimRead, At, ClaimRefused
<1>3. CASE \E c \in Calls : Work(c)
  BY <1>3 DEF Work, At
<1>4. CASE \E c \in Calls : Complete(c)
  BY <1>4 DEF Complete, At
<1>5. CASE \E c \in Calls : Fail(c)
  BY <1>5 DEF Fail, At, WorkFailed
<1>6. CASE Crash
  BY <1>6 DEF Crash
<1>7. CASE UNCHANGED keyVars
  BY <1>7 DEF keyVars
<1> QED BY <1>1, <1>2, <1>3, <1>4, <1>5, <1>6, <1>7

LEMMA InitEstablishes == Init => IInv
BY ContentsAssumption
   DEF Init, KeyInit, IInv, ArtInv, ArtTypes, KeyTypeOK, NoRow, Row, Keys, Request, NoRecord, Idle,
       RequestIsAbout, WriterReadOpen, VerifiedHasContent, HeldIsStored, AvailableHasKey,
       OneHolder, Holder, Live, Over

-----------------------------------------------------------------------------
(* One lemma per operation on artefacts.                                      *)
LEMMA IntentKeeps ==
  ASSUME ArtInv, NEW a \in Artefacts, NEW d \in Contents, CreateIntent(a, d)
  PROVE  ArtInv'
<1> USE ContentsAssumption DEF CreateIntent, ArtInv, ArtTypes
<1>1. ArtTypes' BY DEF Row, Keys
<1>2. RequestIsAbout' /\ WriterReadOpen' BY DEF RequestIsAbout, WriterReadOpen, Row
<1>3. VerifiedHasContent'
  <2> SUFFICES ASSUME NEW r \in Requests, req[r].pc \in {"verify", "publish"}
               PROVE  req[r].art # a
    BY DEF VerifiedHasContent
  <2> QED BY DEF RequestIsAbout
<1>4. HeldIsStored' /\ AvailableHasKey'
  BY DEF HeldIsStored, AvailableHasKey, Live
<1> QED BY <1>1, <1>2, <1>3, <1>4

(* A request that has only read, or gives up, or moves on.                    *)
LEMMA BeginKeeps ==
  ASSUME ArtInv, NEW r \in Requests, NEW a \in Artefacts,
         \/ \E b \in Contents : BeginContent(r, a, b)
         \/ BeginComplete(r, a) \/ BeginDelete(r, a)
  PROVE  ArtInv'
<1> PICK pc \in {"put", "fail", "verify", "delete"}, k \in Keys :
      /\ Begin(r, a, pc, k)
      /\ pc = "put" => k \in Contents
      /\ pc \in {"verify"} => k # NoBytes /\ k = row[a].key
      /\ pc # "delete" => row[a].state # "available"
      /\ UNCHANGED <<row, stored, raced>>
  BY DEF BeginContent, BeginComplete, BeginDelete, ArtInv, ArtTypes, Row, Keys, TakesContent
<1> USE DEF Begin, Seen, Live, ArtInv, ArtTypes
<1>1. ArtTypes' BY DEF Request, Keys
<1>2. RequestIsAbout' /\ WriterReadOpen' BY DEF RequestIsAbout, WriterReadOpen
<1>3. VerifiedHasContent' BY DEF VerifiedHasContent
<1>4. HeldIsStored' /\ AvailableHasKey'
  BY DEF HeldIsStored, AvailableHasKey
<1> QED BY <1>1, <1>2, <1>3, <1>4

LEMMA StepKeeps ==
  ASSUME ArtInv, NEW r \in Requests, Put(r) \/ Verify(r) \/ RemoveBytes(r) \/ Lose(r)
  PROVE  ArtInv'
<1> USE DEF Step, Done, Idle, ArtInv, ArtTypes
<1>1. CASE Put(r)
  <2> USE <1>1 DEF Put
  <2>1. ArtTypes' BY DEF Request, RequestIsAbout
  <2>2. RequestIsAbout' /\ WriterReadOpen' /\ VerifiedHasContent'
    BY DEF RequestIsAbout, WriterReadOpen, VerifiedHasContent
  <2>3. HeldIsStored' /\ AvailableHasKey'
    BY DEF HeldIsStored, AvailableHasKey, Live
  <2> QED BY <2>1, <2>2, <2>3
<1>2. CASE Verify(r)
  <2> USE <1>2 DEF Verify, StoredMatches
  <2>1. ArtTypes' BY DEF Request
  <2>2. RequestIsAbout' /\ WriterReadOpen' /\ VerifiedHasContent'
    BY DEF RequestIsAbout, WriterReadOpen, VerifiedHasContent
  <2>3. HeldIsStored' /\ AvailableHasKey'
    BY DEF HeldIsStored, AvailableHasKey, Live
  <2> QED BY <2>1, <2>2, <2>3
<1>3. CASE RemoveBytes(r)
  <2> USE <1>3 DEF RemoveBytes
  <2>1. ArtTypes' BY DEF Request, Keys
  <2>2. RequestIsAbout' /\ WriterReadOpen' /\ VerifiedHasContent'
    BY DEF RequestIsAbout, WriterReadOpen, VerifiedHasContent
  <2>3. HeldIsStored' /\ AvailableHasKey'
    BY DEF HeldIsStored, AvailableHasKey, Live
  <2> QED BY <2>1, <2>2, <2>3
<1>4. CASE Lose(r)
  <2> USE <1>4 DEF Lose
  <2>1. ArtTypes' BY DEF Request, Keys
  <2>2. RequestIsAbout' /\ WriterReadOpen' /\ VerifiedHasContent'
    BY DEF RequestIsAbout, WriterReadOpen, VerifiedHasContent
  <2>3. HeldIsStored' /\ AvailableHasKey'
    BY DEF HeldIsStored, AvailableHasKey, Live
  <2> QED BY <2>1, <2>2, <2>3
<1> QED BY <1>1, <1>2, <1>3, <1>4

LEMMA RecordKeeps ==
  ASSUME ArtInv, NEW r \in Requests, Record(r)
  PROVE  ArtInv'
<1> DEFINE a == req[r].art
           k == req[r].key
<1> USE DEF ArtInv, ArtTypes
<1>0. a \in Artefacts /\ k \in Contents /\ k # NoBytes
  BY ContentsAssumption DEF Record, RequestIsAbout
<1>1. req' \in [Requests -> Request] /\ req'[r] = Idle /\ \A q \in Requests \ {r} : req'[q] = req[q]
  BY DEF Record, Done, Idle, Request, Keys
<1>2. stored' = stored BY DEF Record
<1>3. CASE ~Live(a)
  <2>1. UNCHANGED <<row, raced>> BY <1>3 DEF Record
  <2>2. ArtTypes' BY <1>1, <1>2, <2>1
  <2>3. RequestIsAbout' /\ WriterReadOpen' /\ VerifiedHasContent'
    BY <1>1, <2>1 DEF RequestIsAbout, WriterReadOpen, VerifiedHasContent, Idle
  <2>4. HeldIsStored' /\ AvailableHasKey'
    BY <1>1, <1>2, <2>1 DEF HeldIsStored, AvailableHasKey, Live, Idle
  <2> QED BY <2>2, <2>3, <2>4
<1>4. CASE Live(a)
  <2>1. /\ row' \in [Artefacts -> Row]
        /\ row'[a].state = "uploaded" /\ row'[a].key = k /\ row'[a].declared = row[a].declared
        /\ \A x \in Artefacts \ {a} : row'[x] = row[x]
    BY <1>0, <1>4 DEF Record, Row, Keys
  <2>2. raced' = Raced(a, k) BY <1>4 DEF Record
  <2>4. ArtTypes' BY <1>0, <1>1, <1>2, <2>1, <2>2 DEF Raced
  <2>5. RequestIsAbout' /\ WriterReadOpen'
    BY <1>0, <1>1, <2>1 DEF RequestIsAbout, WriterReadOpen, Idle
  <2>6. VerifiedHasContent'
    BY <1>0, <1>1, <2>1 DEF VerifiedHasContent, RequestIsAbout, Idle
  <2>7. HeldIsStored'
    BY <1>0, <1>1, <1>2, <2>1, <2>2 DEF HeldIsStored, Live, Raced, Idle
  <2>8. AvailableHasKey'
    BY <1>0, <2>1 DEF AvailableHasKey
  <2> QED BY <2>4, <2>5, <2>6, <2>7, <2>8
<1> QED BY <1>3, <1>4

LEMMA PublishKeeps ==
  ASSUME ArtInv, NEW r \in Requests, Publish(r) \/ MarkFailed(r)
  PROVE  ArtInv'
<1> DEFINE a == req[r].art
<1> USE DEF ArtInv, ArtTypes
<1>0. a \in Artefacts /\ row[a].state # "none"
  BY DEF Publish, MarkFailed, RequestIsAbout
<1>1. req' \in [Requests -> Request] /\ req'[r] = Idle /\ \A q \in Requests \ {r} : req'[q] = req[q]
  BY DEF Publish, MarkFailed, Done, Idle, Request, Keys
<1>2. UNCHANGED <<stored, raced>> BY DEF Publish, MarkFailed
<1>3. /\ row' \in [Artefacts -> Row]
      /\ row'[a].key = row[a].key /\ row'[a].declared = row[a].declared
      /\ row[a].state = "deleted" => row'[a].state = "deleted"
      /\ row[a].state # "deleted" => row'[a].state \in {"available", "failed"}
      /\ row'[a].state = "available" => req[r].pc = "publish"
      /\ \A x \in Artefacts \ {a} : row'[x] = row[x]
  BY <1>0 DEF Publish, MarkFailed, Row, Keys
<1>4. ArtTypes' BY <1>1, <1>2, <1>3
<1>5. RequestIsAbout' /\ WriterReadOpen'
  BY <1>0, <1>1, <1>3 DEF RequestIsAbout, WriterReadOpen, Idle
<1>6. VerifiedHasContent'
  BY <1>0, <1>1, <1>2, <1>3 DEF VerifiedHasContent, RequestIsAbout, Idle
<1>7. HeldIsStored'
  BY <1>0, <1>1, <1>2, <1>3 DEF HeldIsStored, Live, Idle
<1>8. AvailableHasKey'
  BY <1>0, <1>2, <1>3 DEF AvailableHasKey, VerifiedHasContent
<1> QED BY <1>4, <1>5, <1>6, <1>7, <1>8

LEMMA PutGeneratedKeeps ==
  ASSUME ArtInv, NEW r \in Requests, NEW b \in Contents, PutGenerated(r, b)
  PROVE  ArtInv'
<1> USE DEF PutGenerated, Live, Step, Done, Idle, ArtInv, ArtTypes
<1>1. ArtTypes' BY DEF Request, Keys
<1>2. RequestIsAbout' /\ WriterReadOpen' BY DEF RequestIsAbout, WriterReadOpen
<1>3. VerifiedHasContent' BY DEF VerifiedHasContent
<1>4. HeldIsStored' BY DEF HeldIsStored
<1>5. AvailableHasKey' BY DEF AvailableHasKey
<1> QED BY <1>1, <1>2, <1>3, <1>4, <1>5

LEMMA InsertGeneratedKeeps ==
  ASSUME ArtInv, NEW r \in Requests, NEW a \in Artefacts, InsertGenerated(r, a)
  PROVE  ArtInv'
<1> USE DEF InsertGenerated, Raced, Live, Step, Done, Idle, ArtInv, ArtTypes
<1>0. req[r].key \in Contents BY DEF RequestIsAbout
<1>1. ArtTypes' BY <1>0 DEF Request, Row, Keys
<1>2. RequestIsAbout' /\ WriterReadOpen' BY DEF RequestIsAbout, WriterReadOpen
<1>3. VerifiedHasContent' BY DEF VerifiedHasContent, RequestIsAbout
<1>4. HeldIsStored' BY <1>0, ContentsAssumption DEF HeldIsStored
<1>5. AvailableHasKey'
  BY <1>0, ContentsAssumption DEF AvailableHasKey
<1> QED BY <1>1, <1>2, <1>3, <1>4, <1>5

LEMMA CountKeeps ==
  ASSUME ArtInv, NEW r \in Requests, CountSharers(r)
  PROVE  ArtInv'
<1> DEFINE a == req[r].art
           k == req[r].key
<1> USE DEF ArtInv, ArtTypes
<1>0. a \in Artefacts /\ req[r].pc = "delete" /\ k \in Keys /\ row[a].state # "none"
  BY DEF CountSharers, RequestIsAbout, Request
<1>1. /\ req' \in [Requests -> Request] /\ \A q \in Requests \ {r} : req'[q] = req[q]
      /\ \/ req'[r] = Idle
         \/ req'[r].pc = "keep" /\ req'[r].art = a
         \/ /\ req'[r].pc = "drop" /\ req'[r].key = k /\ req'[r].art = a
            /\ k # NoBytes /\ ~Shared(a, k)
  BY DEF CountSharers, Step, Done, Idle, Request, Keys
<1>2. UNCHANGED <<row, stored, raced>> BY DEF CountSharers
<1>3. ArtTypes' BY <1>1, <1>2
<1>4. RequestIsAbout' /\ WriterReadOpen'
  BY <1>0, <1>1, <1>2 DEF RequestIsAbout, WriterReadOpen, Idle, Keys
<1>5. VerifiedHasContent' /\ AvailableHasKey'
  BY <1>1, <1>2 DEF VerifiedHasContent, AvailableHasKey, Idle
<1>6. HeldIsStored'
  BY <1>0, <1>1, <1>2 DEF HeldIsStored, Live, Shared, Idle
<1> QED BY <1>3, <1>4, <1>5, <1>6

LEMMA DeleteKeeps ==
  ASSUME ArtInv, NEW r \in Requests, CommitDelete(r)
  PROVE  ArtInv'
<1> DEFINE a == req[r].art
           k == req[r].key
<1> USE DEF ArtInv, ArtTypes
<1>0. a \in Artefacts /\ req[r].pc \in {"keep", "drop"}
  BY DEF CommitDelete, RequestIsAbout
<1>1. /\ req' \in [Requests -> Request] /\ \A q \in Requests \ {r} : req'[q] = req[q]
      /\ \/ req'[r] = Idle
         \/ req[r].pc = "drop" /\ req'[r].pc = "remove" /\ req'[r].key = k /\ req'[r].art = a
  BY DEF CommitDelete, Step, Done, Idle, Request, Keys
<1>2. UNCHANGED <<stored, raced>> BY DEF CommitDelete
<1>3. /\ row' \in [Artefacts -> Row] /\ row'[a].state = "deleted"
      /\ \A x \in Artefacts \ {a} : row'[x] = row[x]
  BY <1>0 DEF CommitDelete, NoRecord, Row, Keys
<1>4. ArtTypes' BY <1>1, <1>2, <1>3
<1>5. RequestIsAbout' /\ WriterReadOpen'
  BY <1>0, <1>1, <1>3 DEF RequestIsAbout, WriterReadOpen, Idle
<1>6. VerifiedHasContent'
  BY <1>0, <1>1, <1>3 DEF VerifiedHasContent, RequestIsAbout, Idle
<1>7. HeldIsStored'
  BY <1>0, <1>1, <1>2, <1>3 DEF HeldIsStored, Live, Idle
<1>8. AvailableHasKey'
  BY <1>0, <1>3 DEF AvailableHasKey
<1> QED BY <1>4, <1>5, <1>6, <1>7, <1>8

-----------------------------------------------------------------------------
LEMMA NextKeeps == IInv /\ [Next]_vars => IInv'
<1> SUFFICES ASSUME IInv, [Next]_vars PROVE IInv'
  OBVIOUS
<1>1. CASE \E c \in Calls, a \in Artefacts : KeyedIntent(c, a)
  <2> PICK c \in Calls, a \in Artefacts : KeyedIntent(c, a) BY <1>1
  <2>1. KeyTypeOK' /\ OneHolder' BY KeyStep DEF IInv, KeyedIntent
  <2>2. call[c].digest \in Contents
    BY ContentsAssumption DEF IInv, OneHolder, KeyedIntent, Work
  <2>3. ArtInv' BY <2>2, IntentKeeps DEF IInv, KeyedIntent
  <2> QED BY <2>1, <2>3 DEF IInv
<1>2. CASE UNCHANGED artVars /\ (\/ \E c \in Calls : (\E d \in Digests : ClaimInsert(c, d))
                                   \/ ClaimRead(c) \/ Complete(c) \/ Fail(c)
                                 \/ Crash \/ UNCHANGED keyVars)
  <2>1. KeyTypeOK' /\ OneHolder' BY <1>2, KeyStep DEF IInv
  <2>2. ArtInv'
    BY <1>2 DEF artVars, IInv, ArtInv, ArtTypes, RequestIsAbout, WriterReadOpen, VerifiedHasContent,
                HeldIsStored, AvailableHasKey, Live
  <2> QED BY <2>1, <2>2 DEF IInv
<1>3. CASE UNCHANGED keyVars /\ ArtInv'
  BY <1>3, KeyStep DEF IInv
<1>4. ASSUME NEW a \in Artefacts, NEW d \in Contents, PlainIntent(a, d)
      PROVE  UNCHANGED keyVars /\ ArtInv'
  BY <1>4, IntentKeeps DEF IInv, PlainIntent
<1>5. ASSUME NEW r \in Requests, NEW a \in Artefacts,
             \/ \E b \in Contents : BeginContent(r, a, b)
             \/ BeginComplete(r, a) \/ BeginDelete(r, a)
      PROVE  UNCHANGED keyVars /\ ArtInv'
  BY <1>5, BeginKeeps DEF IInv, BeginContent, BeginComplete, BeginDelete
<1>6. ASSUME NEW r \in Requests, NEW a \in Artefacts, InsertGenerated(r, a)
      PROVE  UNCHANGED keyVars /\ ArtInv'
  BY <1>6, InsertGeneratedKeeps DEF IInv, InsertGenerated
<1>7. ASSUME NEW r \in Requests, NEW b \in Contents, PutGenerated(r, b)
      PROVE  UNCHANGED keyVars /\ ArtInv'
  BY <1>7, PutGeneratedKeeps DEF IInv, PutGenerated
<1>8. ASSUME NEW r \in Requests, Put(r) \/ Verify(r) \/ RemoveBytes(r) \/ Lose(r)
      PROVE  UNCHANGED keyVars /\ ArtInv'
  BY <1>8, StepKeeps DEF IInv, Put, Verify, RemoveBytes, Lose
<1>9. ASSUME NEW r \in Requests, Record(r) \/ Publish(r) \/ MarkFailed(r)
                                 \/ CountSharers(r) \/ CommitDelete(r)
      PROVE  UNCHANGED keyVars /\ ArtInv'
  BY <1>9, RecordKeeps, PublishKeeps, CountKeeps, DeleteKeeps
     DEF IInv, Record, Publish, MarkFailed, CountSharers, CommitDelete
<1>10. CASE UNCHANGED vars
  BY <1>10, <1>2 DEF vars
<1> QED
  BY <1>1, <1>2, <1>3, <1>4, <1>5, <1>6, <1>7, <1>8, <1>9, <1>10 DEF Next

(* The inductive invariant holds in every reachable state.                    *)
THEOREM ArtefactInvariance == Spec => []IInv
BY InitEstablishes, NextKeeps, PTL DEF Spec

(* The types of rows, requests, the store and the key.                        *)
THEOREM ArtefactType == Spec => []TypeOK
<1>1. IInv => TypeOK BY DEF IInv, ArtInv, ArtTypes, TypeOK
<1> QED BY <1>1, ArtefactInvariance, PTL

(* An available artefact has its bytes, however uploads and deletions of      *)
(* shared bytes interleave, unless it took its key when a deletion of them    *)
(* had already counted (service.ts, delete).                                  *)
THEOREM BytesAreThere == Spec => []AvailableHasItsBytes
<1>1. IInv => AvailableHasItsBytes
  BY DEF IInv, ArtInv, AvailableHasKey, HeldIsStored, AvailableHasItsBytes, Live
<1> QED BY <1>1, ArtefactInvariance, PTL

(* An upload intent retried under its key creates one artefact                *)
(* (idempotency.ts, the upload-intent route).                                 *)
THEOREM IntentRunsOnce == Spec => []OneArtefactPerKey
<1>1. IInv => OneArtefactPerKey BY DEF IInv, KeyTypeOK, OneHolder, Holder, OneArtefactPerKey
<1> QED BY <1>1, ArtefactInvariance, PTL

(* What is available is undone only by a request that read the row before.    *)
THEOREM AvailableStays == Spec => AvailableIsKept
<1> DEFINE A == \A a \in Artefacts :
                  row[a].state = "available" /\ row'[a].state \notin {"available", "deleted"}
                    => \E r \in Requests : req[r].art = a /\ req[r].seen = "open"
<1>1. IInv /\ [Next]_vars => [A]_vars
  <2> SUFFICES ASSUME IInv, Next, NEW a \in Artefacts, row[a].state = "available",
                      row'[a].state \notin {"available", "deleted"}
               PROVE  \E r \in Requests : req[r].art = a /\ req[r].seen = "open"
    OBVIOUS
  <2> USE DEF IInv, ArtInv, ArtTypes, WriterReadOpen, RequestIsAbout
  <2>1. CASE \E r \in Requests : Record(r)
    BY <2>1 DEF Record, Row
  <2>2. CASE \E r \in Requests : Publish(r) \/ MarkFailed(r)
    BY <2>2 DEF Publish, MarkFailed, Row
  <2>3. CASE \E r \in Requests : CommitDelete(r) \/ \E b \in Artefacts : InsertGenerated(r, b)
    BY <2>3 DEF CommitDelete, InsertGenerated, NoRecord, Row
  <2>4. CASE \E b \in Artefacts, d \in Contents \cup Digests \cup {"none"} : CreateIntent(b, d)
    BY <2>4 DEF CreateIntent, Row
  <2> QED
    BY <2>1, <2>2, <2>3, <2>4
    DEF Next, artVars, KeyedIntent, PlainIntent, BeginContent, BeginComplete, BeginDelete,
        PutGenerated, Put, Verify, CountSharers, RemoveBytes, Lose, KeyTypeOK
<1> QED BY <1>1, ArtefactInvariance, PTL DEF Spec, AvailableIsKept

=============================================================================
