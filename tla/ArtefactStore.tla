---------------------------- MODULE ArtefactStore ----------------------------
(***************************************************************************)
(* Artefacts (artefacts/service.ts): rows in the database, bytes in a      *)
(* content-addressed store beside it, and the requests that move between   *)
(* the two.  An upload intent may be created under an idempotency key      *)
(* (IdempotentCalls).                                                      *)
(*                                                                         *)
(* Every request reads its row first and acts on what it read: the writes  *)
(* that follow name the row by its identifier alone.                       *)
(***************************************************************************)
EXTENDS IdempotentCalls

CONSTANTS
  Artefacts,  \* artefact identifiers
  Contents,   \* what bytes can be: a content, its digest and its key are one
  NoBytes,    \* a null storage_key
  Requests    \* requests the server handles at a time

ASSUME ContentsAssumption == NoBytes \notin Contents /\ Digests = Contents

VARIABLES
  row,        \* artefacts; "deleted" is a row with deleted_at set
  stored,     \* the keys the store holds
  req,        \* requests under way
  raced       \* history: rows given a key a deletion was about to remove, or had

artVars == <<row, stored, req, raced>>
vars == <<keyVars, artVars>>

Keys == Contents \cup {NoBytes}
Row == [state : {"none", "pending", "uploaded", "available", "failed", "deleted"},
        key : Keys, declared : Keys]
Request == [pc : {"idle", "put", "record", "verify", "publish", "fail", "delete", "keep",
                  "drop", "remove", "insert"},
            art : Artefacts \cup {"none"}, seen : {"none", "open", "available"}, key : Keys]
NoRecord == [state |-> "none", key |-> NoBytes, declared |-> NoBytes]
Idle == [pc |-> "idle", art |-> "none", seen |-> "none", key |-> NoBytes]

TypeOK ==
  /\ KeyTypeOK
  /\ row \in [Artefacts -> Row]
  /\ stored \subseteq Contents
  /\ req \in [Requests -> Request]
  /\ raced \subseteq Artefacts

Init ==
  /\ KeyInit
  /\ row = [a \in Artefacts |-> NoRecord]
  /\ stored = {}
  /\ req = [r \in Requests |-> Idle]
  /\ raced = {}

-----------------------------------------------------------------------------
Live(a) == row[a].state \notin {"none", "deleted"}

\* What a request remembers of the state it read: whether it may still write.
Seen(a) == IF row[a].state = "available" THEN "available" ELSE "open"
Step(r, pc) == req' = [req EXCEPT ![r].pc = pc]
Done(r) == req' = [req EXCEPT ![r] = Idle]

\* A request for artefact a has read its row.
Begin(r, a, pc, k) ==
  /\ req[r].pc = "idle" /\ Live(a)
  /\ req' = [req EXCEPT ![r] = [pc |-> pc, art |-> a, seen |-> Seen(a), key |-> k]]

\* A deletion that has not committed holds the row's lock; whoever else writes the
\* row waits for it.
Locked(a) == \E q \in Requests : req[q].pc \in {"keep", "drop"} /\ req[q].art = a

\* A row takes key k: too late when a deletion has counted and is to remove it, or has.
Raced(a, k) ==
  IF k \notin stored \/ \E q \in Requests : req[q].pc \in {"drop", "remove"} /\ req[q].key = k
  THEN raced \cup {a} ELSE raced

-----------------------------------------------------------------------------
(* Upload *)

\* createIntent: the row is inserted, with the digest it must turn out to have.
CreateIntent(a, d) ==
  /\ row[a].state = "none"
  /\ row' = [row EXCEPT ![a] = [state |-> "pending", key |-> NoBytes, declared |-> d]]
  /\ UNCHANGED <<stored, req, raced>>

\* The intent route, with a key and without.
KeyedIntent(c, a) == Work(c) /\ CreateIntent(a, call[c].digest)
PlainIntent(a, d) == CreateIntent(a, d) /\ UNCHANGED keyVars

\* Mutant: any artefact takes content again.
TakesContentAlways(a) == TRUE

\* storeContent refuses a record it read as available or failed.
TakesContent(a) == row[a].state \notin {"available", "failed"}

\* storeContent begins; bytes of another type than declared fail the artefact.
BeginContent(r, a, b) ==
  /\ TakesContent(a)
  /\ \E pc \in {"put", "fail"} : Begin(r, a, pc, b)
  /\ UNCHANGED <<keyVars, row, stored, raced>>

\* The bytes are put in the store ...
Put(r) ==
  /\ req[r].pc = "put" /\ Step(r, "record")
  /\ stored' = stored \cup {req[r].key}
  /\ UNCHANGED <<keyVars, row, raced>>

\* ... and the row records them, whatever its state is by now.
Record(r) == LET a == req[r].art IN
  /\ req[r].pc = "record" /\ ~Locked(a) /\ Done(r)
  /\ IF Live(a)
     THEN /\ row' = [row EXCEPT ![a].state = "uploaded", ![a].key = req[r].key]
          /\ raced' = Raced(a, req[r].key)
     ELSE UNCHANGED <<row, raced>>
  /\ UNCHANGED <<keyVars, stored>>

\* complete begins on a row with content that was not read as available; a digest
\* reported other than the declared one fails the artefact.
BeginComplete(r, a) ==
  /\ row[a].state # "available" /\ row[a].key # NoBytes
  /\ \E pc \in {"verify", "fail"} : Begin(r, a, pc, row[a].key)
  /\ UNCHANGED <<keyVars, row, stored, raced>>

\* The digest of the stored bytes is the declared one, and they lie under it.
StoredMatches(r) == req[r].key = row[req[r].art].declared

\* The stored bytes are read back and compared.
Verify(r) ==
  /\ req[r].pc = "verify" /\ req[r].key \in stored
  /\ Step(r, IF StoredMatches(r) THEN "publish" ELSE "fail")
  /\ UNCHANGED <<keyVars, row, stored, raced>>

\* The row becomes available, with the key it holds by now.
Publish(r) ==
  /\ req[r].pc = "publish" /\ ~Locked(req[r].art) /\ Done(r)
  /\ row' = [row EXCEPT ![req[r].art].state = IF @ = "deleted" THEN @ ELSE "available"]
  /\ UNCHANGED <<keyVars, stored, raced>>

\* markFailed, whatever the row's state is by now.
MarkFailed(r) ==
  /\ req[r].pc = "fail" /\ ~Locked(req[r].art) /\ Done(r)
  /\ row' = [row EXCEPT ![req[r].art].state = IF @ = "deleted" THEN @ ELSE "failed"]
  /\ UNCHANGED <<keyVars, stored, raced>>

-----------------------------------------------------------------------------
(* Artefacts the server produces: exports and thumbnails *)

\* storeGenerated and runThumbnailJob put the bytes ...
PutGenerated(r, b) ==
  /\ req[r].pc = "idle"
  /\ req' = [req EXCEPT ![r] = [Idle EXCEPT !.pc = "insert", !.key = b]]
  /\ stored' = stored \cup {b}
  /\ UNCHANGED <<keyVars, row, raced>>

\* ... and insert a row that is available at once.
InsertGenerated(r, a) ==
  /\ req[r].pc = "insert" /\ row[a].state = "none" /\ Done(r)
  /\ row' = [row EXCEPT ![a] = [state |-> "available", key |-> req[r].key,
                                declared |-> req[r].key]]
  /\ raced' = Raced(a, req[r].key)
  /\ UNCHANGED <<keyVars, stored>>

-----------------------------------------------------------------------------
(* Deletion *)

BeginDelete(r, a) ==
  /\ Begin(r, a, "delete", row[a].key)
  /\ UNCHANGED <<keyVars, row, stored, raced>>

\* Mutant: another artefact with the same bytes is not looked for.
NeverShared(a, k) == FALSE

Shared(a, k) == \E o \in Artefacts \ {a} : Live(o) /\ row[o].key = k

\* delete: the row is marked, unless somebody marked it before, and the artefacts
\* that share its bytes are counted.  The count sees what is committed: a deletion
\* on its way counts as live, and what the row itself holds is not read again.
CountSharers(r) == LET a == req[r].art IN
  /\ req[r].pc = "delete" /\ ~Locked(a)
  /\ IF ~Live(a) THEN Done(r)
     ELSE Step(r, IF req[r].key = NoBytes \/ Shared(a, req[r].key) THEN "keep" ELSE "drop")
  /\ UNCHANGED <<keyVars, row, stored, raced>>

\* The transaction commits.
CommitDelete(r) ==
  /\ req[r].pc \in {"keep", "drop"}
  /\ row' = [row EXCEPT ![req[r].art] = [NoRecord EXCEPT !.state = "deleted"]]
  /\ IF req[r].pc = "drop" THEN Step(r, "remove") ELSE Done(r)
  /\ UNCHANGED <<keyVars, stored, raced>>

\* After the commit the object is removed.
RemoveBytes(r) ==
  /\ req[r].pc = "remove" /\ Done(r)
  /\ stored' = stored \ {req[r].key}
  /\ UNCHANGED <<keyVars, row, raced>>

-----------------------------------------------------------------------------
\* The store cannot be reached, the transaction is rolled back or the process ends:
\* the request does no more.
Lose(r) ==
  /\ req[r].pc # "idle" /\ Done(r)
  /\ UNCHANGED <<keyVars, row, stored, raced>>

Next ==
  \/ \E c \in Calls :
       \/ \E d \in Digests : ClaimInsert(c, d) /\ UNCHANGED artVars
       \/ (ClaimRead(c) \/ Complete(c) \/ Fail(c)) /\ UNCHANGED artVars
       \/ \E a \in Artefacts : KeyedIntent(c, a)
  \/ Crash /\ UNCHANGED artVars
  \/ \E a \in Artefacts, d \in Contents : PlainIntent(a, d)
  \/ \E r \in Requests :
       \/ \E a \in Artefacts :
            \/ \E b \in Contents : BeginContent(r, a, b)
            \/ BeginComplete(r, a) \/ BeginDelete(r, a) \/ InsertGenerated(r, a)
       \/ \E b \in Contents : PutGenerated(r, b)
       \/ Put(r) \/ Record(r) \/ Verify(r) \/ Publish(r) \/ MarkFailed(r)
       \/ CountSharers(r) \/ CommitDelete(r) \/ RemoveBytes(r) \/ Lose(r)

Spec == Init /\ [][Next]_vars

-----------------------------------------------------------------------------
(* Properties *)

(* An available artefact has its bytes, though other artefacts share them   *)
(* and their deletions overlap, unless it took its key when a deletion of   *)
(* those bytes had already counted (delete counts the sharers, commits and  *)
(* then removes).                                                           *)
AvailableHasItsBytes ==
  \A a \in Artefacts : row[a].state = "available" /\ a \notin raced => row[a].key \in stored

(* Evidence once available stays so until it is deleted: only a request     *)
(* that had read the row before it became available can undo it.            *)
AvailableIsKept ==
  [][\A a \in Artefacts :
       row[a].state = "available" /\ row'[a].state \notin {"available", "deleted"}
         => \E r \in Requests : req[r].art = a /\ req[r].seen = "open"]_vars

(* However often an upload intent is retried under its key, one artefact is *)
(* created (TESTING.md: "Upload intent retried with the same idempotency    *)
(* key: One artefact").                                                     *)
OneArtefactPerKey == \A c, d \in ran : c = d
=============================================================================
