------------------------- MODULE GatewayRegistryProof -------------------------
(* Proofs about GatewayRegistry: any routes, capabilities, requests and admin  *)
(* calls, any lifetimes and any number of faults.                              *)
EXTENDS GatewayRegistry, FiniteSetTheorems, TLAPS

(* A record lasts as long as anything it covers could be presented, and that   *)
(* of a capability is not older than the capability.                           *)
WellDated(k, e) ==
  e.at >= 0 => /\ e.at <= now /\ e.until >= e.at + MaxRouteTTL
               /\ k \in Caps => cap[k].issued >= 0 /\ e.at >= cap[k].issued

(* The places at which a call holds a record. *)
Holding == {"append", "store", "remove"}

RecordsWellDated ==
  /\ \A k \in Keys : WellDated(k, revoked[k]) /\ WellDated(k, journal[k])
                       /\ WellDated(k, surviving[k])
  /\ \A o \in Callers : calls[o].pc \in Holding =>
       calls[o].entry.at >= 0 /\ \A k \in calls[o].key : WellDated(k, calls[o].entry)

(* No call outlives the process; the dates of the capabilities and the sweep.  *)
CallsWellFormed ==
  /\ up = "no" => \A o \in Callers : calls[o].pc = "idle"
  /\ calls[Sweeper].since <= now
  /\ \A c \in Caps : cap[c].issued >= 0 => /\ cap[c].issued <= now
                                          /\ cap[c].expires = cap[c].issued + CapabilityTTL

(* This set still has a record of k as recent as the instant, or one was lost, *)
(* or everything such a record covers has expired.                             *)
Kept(m, k, instant) == k \in raced \/ m[k].at >= instant \/ now >= instant + MaxRouteTTL

(* A record that was appended is in the journal, one that was stored is in     *)
(* memory too.                                                                 *)
AppendedIsKept ==
  \A o \in Callers : \A k \in calls[o].key :
    /\ calls[o].pc \in {"store", "remove"} => Kept(journal, k, calls[o].entry.at)
    /\ calls[o].pc = "remove" => Kept(revoked, k, calls[o].entry.at)

(* What was withdrawn has a record in the journal and, while the gateway runs, *)
(* in memory.                                                                  *)
Recorded(c, k) ==
  /\ Kept(journal, k, cap[c].issued)
  /\ up = "yes" => Kept(revoked, k, cap[c].issued)

DeadIsRecorded ==
  \A c \in dead : cap[c].issued >= 0 /\ (Recorded(c, c) \/ Recorded(c, RouteOf[c]))

(* A request carries one capability and an authorisation no newer than its     *)
(* route; a stream is on a registered route.                                   *)
RequestsWellFormed ==
  \A q \in Requests :
    /\ req[q].pc # "idle" => \E c \in Caps : req[q].cap = {c}
    /\ \A c \in req[q].cap :
         /\ req[q].pc \in {"looked", "admitted", "open"} => req[q].gen <= route[RouteOf[c]].gen
         /\ req[q].pc = "open" => route[RouteOf[c]].live = "yes"

(* A request past the withdrawal check whose capability is withdrawn with its  *)
(* route was authorised for a registration that is gone.                       *)
AdmittedBefore ==
  \A q \in Requests : \A c \in req[q].cap :
    req[q].pc \in {"admitted", "open"} /\ c \in withRoute =>
      \/ req[q].gen < route[RouteOf[c]].gen
      \/ route[RouteOf[c]].live = "no"
      \/ Displaced(c)
      \/ now >= cap[c].expires

(* The inductive invariant *)
RecordInv == TypeOK /\ RecordsWellDated /\ CallsWellFormed /\ AppendedIsKept /\ DeadIsRecorded
IInv == RecordInv /\ RequestsWellFormed /\ AdmittedBefore

LEMMA InitEstablishes == Init => IInv
<1> SUFFICES ASSUME Init PROVE IInv
  OBVIOUS
<1> USE GatewayConstants DEF Init, Absent, Idle, NoRequest
<1>1. TypeOK
  BY DEF TypeOK, Entry, Route, Call, Request, Keys, Callers
<1>2. RecordsWellDated /\ CallsWellFormed /\ AppendedIsKept /\ DeadIsRecorded
  BY DEF RecordsWellDated, WellDated, Holding, CallsWellFormed, AppendedIsKept, DeadIsRecorded, Callers
<1>3. RequestsWellFormed /\ AdmittedBefore
  BY DEF RequestsWellFormed, AdmittedBefore
<1> QED BY <1>1, <1>2, <1>3 DEF IInv, RecordInv

-----------------------------------------------------------------------------
(* Records *)

(* What every step does: time and the history go forward, a capability that    *)
(* was minted stays as it is.                                                  *)
Grows ==
  /\ now <= now' /\ raced \subseteq raced' /\ dead \subseteq dead'
  /\ \A c \in Caps : cap[c].issued >= 0 => cap'[c] = cap[c]

(* A record is replaced by one as recent, or was of no more use, or is noted.  *)
JournalGrows ==
  \A k \in Keys : \/ k \in raced' \/ journal'[k].at >= journal[k].at
                  \/ now' >= journal[k].at + MaxRouteTTL
RevokedGrows ==
  \A k \in Keys : \/ k \in raced' \/ revoked'[k].at >= revoked[k].at
                  \/ now' >= revoked[k].at + MaxRouteTTL

(* What the arithmetic below needs of the types. *)
Numbers ==
  /\ now \in Int
  /\ \A k \in Keys : /\ revoked[k].at \in Int /\ journal[k].at \in Int
                     /\ surviving[k].at \in Int
                     /\ revoked[k].until \in Int /\ journal[k].until \in Int
                     /\ surviving[k].until \in Int
  /\ \A c \in Caps : cap[c].issued \in Int /\ cap[c].expires \in Int
  /\ \A o \in Callers : /\ calls[o].entry.at \in Int /\ calls[o].entry.until \in Int
                        /\ calls[o].since \in Int /\ calls[o].key \subseteq Keys
                        /\ calls[o].entry \in Entry

LEMMA Lifetimes ==
  /\ MaxRouteTTL \in Int /\ CapabilityTTL \in Int /\ MaxTime \in Nat
  /\ CapabilityTTL <= MaxRouteTTL /\ RouteOf \in [Caps -> Keys] /\ Caps \subseteq Keys
BY GatewayConstants DEF Keys

LEMMA Types == TypeOK => Numbers
<1> SUFFICES ASSUME TypeOK PROVE Numbers
  OBVIOUS
<1>1. /\ now \in 0..MaxTime /\ MaxTime \in Nat /\ MaxRouteTTL \in Nat
  BY GatewayConstants DEF TypeOK
<1>2. \A e \in Entry : e.at \in Int /\ e.until \in Int
  BY <1>1 DEF Entry
<1>3. \A k \in Keys : revoked[k] \in Entry /\ journal[k] \in Entry /\ surviving[k] \in Entry
  BY DEF TypeOK
<1>4. \A x \in Call : x.entry \in Entry /\ x.since \in 0..MaxTime /\ x.key \subseteq Keys
  BY DEF Call
<1>5. \A o \in Callers : calls[o] \in Call
  BY DEF TypeOK
<1>6. \A c \in Caps : cap[c].issued \in Int /\ cap[c].expires \in Int
  BY <1>1 DEF TypeOK
<1> QED BY <1>1, <1>2, <1>3, <1>4, <1>5, <1>6 DEF Numbers

LEMMA TypesNext == TypeOK' => Numbers'
BY Types, PTL

(* The part of the invariant about lost records follows, whatever the step,    *)
(* from what it does at the one call it belongs to.                            *)
LEMMA RecordsKept ==
  ASSUME RecordInv, TypeOK', Grows, JournalGrows, RevokedGrows, up' = "yes" => up = "yes",
         NEW o \in Callers,
         \A p \in Callers : p # o /\ calls'[p].pc \in Holding => calls'[p] = calls[p],
         \A k \in calls'[o].key :
           /\ calls'[o].pc \in {"store", "remove"} => Kept(journal, k, calls[o].entry.at)'
           /\ calls'[o].pc = "remove" => Kept(revoked, k, calls[o].entry.at)',
         \A c \in dead' \ dead :
           cap'[c].issued >= 0 /\ (Recorded(c, c)' \/ Recorded(c, RouteOf[c])')
  PROVE  AppendedIsKept' /\ DeadIsRecorded'
<1>1. Numbers /\ Numbers'
  BY Types, TypesNext DEF RecordInv
<1>2. AppendedIsKept'
  <2> SUFFICES ASSUME NEW p \in Callers, p # o, NEW k \in calls'[p].key
               PROVE  /\ calls'[p].pc \in {"store", "remove"} => Kept(journal, k, calls[p].entry.at)'
                      /\ calls'[p].pc = "remove" => Kept(revoked, k, calls[p].entry.at)'
    BY DEF AppendedIsKept
  <2> SUFFICES ASSUME calls'[p].pc \in {"store", "remove"}
               PROVE  /\ Kept(journal, k, calls[p].entry.at)'
                      /\ calls'[p].pc = "remove" => Kept(revoked, k, calls[p].entry.at)'
    OBVIOUS
  <2>1. calls'[p] = calls[p]
    BY DEF Holding
  <2> DEFINE i == calls[p].entry.at
  <2>2. i \in Int /\ k \in Keys /\ i = calls'[p].entry.at
    BY <1>1, <2>1 DEF Numbers
  <2>3. Kept(journal, k, i) /\ (calls[p].pc = "remove" => Kept(revoked, k, i))
    BY <2>1 DEF RecordInv, AppendedIsKept
  <2>4. Kept(journal, k, i) => k \in raced' \/ journal'[k].at >= i \/ now' >= i + MaxRouteTTL
    BY <1>1, <2>2, Lifetimes DEF Numbers, Kept, Grows, JournalGrows
  <2>5. Kept(revoked, k, i) => k \in raced' \/ revoked'[k].at >= i \/ now' >= i + MaxRouteTTL
    BY <1>1, <2>2, Lifetimes DEF Numbers, Kept, Grows, RevokedGrows
  <2> QED BY <2>1, <2>2, <2>3, <2>4, <2>5 DEF Kept
<1>3. DeadIsRecorded'
  <2> SUFFICES ASSUME NEW c \in dead
               PROVE  cap'[c].issued >= 0 /\ (Recorded(c, c)' \/ Recorded(c, RouteOf[c])')
    BY DEF DeadIsRecorded
  <2>1. c \in Caps /\ cap[c].issued >= 0 /\ cap'[c] = cap[c] /\ cap[c].issued \in Int
    BY <1>1 DEF RecordInv, TypeOK, DeadIsRecorded, Grows, Numbers
  <2>2. \A k \in Keys : Recorded(c, k) => Recorded(c, k)'
    BY <1>1, <2>1, Lifetimes DEF Numbers, Recorded, Kept, Grows, JournalGrows, RevokedGrows
  <2> QED BY <2>1, <2>2, Lifetimes DEF RecordInv, DeadIsRecorded
<1> QED BY <1>2, <1>3

(* Steps that touch no record. *)
QuietRecords ==
  /\ UNCHANGED <<now, up, revoked, journal, cap, dead, raced>>
  /\ \A k \in Keys : surviving'[k] \in {surviving[k], Absent}
  /\ \A o \in Callers : calls'[o].pc \in Holding => calls'[o] = calls[o]
  /\ calls'[Sweeper].since \in {calls[Sweeper].since, now, 0}
  /\ up = "no" => calls' = calls

LEMMA QuietRecordsKeep == ASSUME RecordInv, TypeOK', QuietRecords PROVE RecordInv'
<1>1. Numbers /\ Numbers'
  BY Types, TypesNext DEF RecordInv
<1>2. Grows /\ JournalGrows /\ RevokedGrows
  BY <1>1 DEF Numbers, QuietRecords, Grows, JournalGrows, RevokedGrows
<1>3. RecordsWellDated'
  BY <1>1, Lifetimes DEF RecordInv, RecordsWellDated, QuietRecords, WellDated, Absent
<1>4. CallsWellFormed'
  BY <1>1 DEF RecordInv, CallsWellFormed, QuietRecords, Numbers, TypeOK
<1>5. AppendedIsKept' /\ DeadIsRecorded'
  BY DEF RecordInv, AppendedIsKept, DeadIsRecorded, Recorded, Kept, QuietRecords, Holding
<1> QED BY <1>3, <1>4, <1>5 DEF RecordInv

-----------------------------------------------------------------------------
(* Types *)

LEMMA OneCall ==
  ASSUME TypeOK, NEW o \in Callers, NEW x \in Call, SetCall(o, x)
  PROVE  /\ calls' \in [Callers -> Call] /\ calls'[o] = x
         /\ \A p \in Callers : p # o => calls'[p] = calls[p]
BY DEF TypeOK, SetCall

LEMMA Constants ==
  /\ Idle \in Call /\ Idle.pc = "idle" /\ Idle.since = 0 /\ Absent \in Entry
  /\ NoRequest \in Request /\ NoRequest.pc = "idle" /\ NoRequest.cap = {}
<1>1. Absent \in Entry
  BY GatewayConstants DEF Absent, Entry
<1> QED BY <1>1, GatewayConstants DEF Idle, Call, NoRequest, Request

LEMMA ResetType ==
  ASSUME TypeOK, NEW qs, Reset(qs)
  PROVE  /\ req' \in [Requests -> Request]
         /\ \A q \in Requests : /\ req'[q].cap = req[q].cap
                                /\ IF q \in qs THEN req'[q].pc = "reset" ELSE req'[q] = req[q]
<1>1. \A q \in Requests : req[q] \in Request /\ req[q].cap \subseteq Caps
  BY DEF TypeOK, Request
<1>2. ASSUME NEW C \in SUBSET Caps
      PROVE  LET x == [NoRequest EXCEPT !.pc = "reset", !.cap = C]
             IN  x \in Request /\ x.pc = "reset" /\ x.cap = C
  <2>1. 0 \in 0..MaxRegistrations /\ 0 \in 0..(MaxTime + MaxRouteTTL)
    BY GatewayConstants
  <2>2. NoRequest \in Request
    BY Constants
  <2> QED BY <2>1, <2>2 DEF Request
<1> QED BY <1>1, <1>2 DEF Reset

LEMMA CallChanges ==
  ASSUME TypeOK, NEW o \in Callers
  PROVE  /\ calls[o] \in Call
         /\ \A pc \in {"store", "remove", "forget", "compact"} :
              LET x == [calls[o] EXCEPT !.pc = pc]
              IN  x \in Call /\ x.pc = pc /\ x.key = calls[o].key /\ x.entry = calls[o].entry
                    /\ x.since = calls[o].since
         /\ LET x == [calls[o] EXCEPT !.pc = "next", !.key = {}, !.entry = Absent]
            IN  x \in Call /\ x.pc = "next" /\ x.since = calls[o].since
         /\ \A r \in Routes :
              LET x == [calls[o] EXCEPT !.todo = @ \ {r}]
              IN  x \in Call /\ x.pc = calls[o].pc /\ x.since = calls[o].since
<1>1. calls[o] \in Call
  BY DEF TypeOK
<1>2. Absent \in Entry
  BY Constants
<1> QED BY <1>1, <1>2 DEF Call

(* The record a route's withdrawal is given. *)
LEMMA DatedCall ==
  ASSUME TypeOK, NEW y \in Call, NEW r \in Routes
  PROVE  LET x == Dated(y, r)
         IN  /\ x \in Call /\ x.pc = "append" /\ x.key = {r} /\ x.since = y.since
             /\ x.entry.at = now /\ x.entry.until >= now + MaxRouteTTL
<1> DEFINE e == [at |-> now, until |-> RouteRevocationNotAfter(route[r].expires, now)]
<1>1. now \in 0..MaxTime /\ route[r].expires \in 0..(MaxTime + MaxRouteTTL)
  BY DEF TypeOK, Route
<1>2. e \in Entry /\ e.at = now /\ e.until >= now + MaxRouteTTL
  BY <1>1, GatewayConstants DEF Entry, RouteRevocationNotAfter
<1>3. r \in Keys
  BY DEF Keys
<1> HIDE DEF e
<1> QED BY <1>2, <1>3 DEF Dated, Call, e

(* The steps that change nothing but one call. *)
LEMMA CallOnly ==
  ASSUME TypeOK, NEW o \in Callers, NEW x \in Call, SetCall(o, x),
         UNCHANGED <<now, up, route, revoked, journal, torn, channel, cap, surviving, req,
                     dead, withRoute, raced, faults>>
  PROVE  TypeOK'
BY OneCall DEF TypeOK

-----------------------------------------------------------------------------
(* Withdrawal *)

(* A call takes up a subject: what it will record is dated now. *)
LEMMA BeginsRecord ==
  ASSUME IInv, NEW o \in Callers, NEW x \in Call, NEW k \in Keys, SetCall(o, x), Caller(o, "idle") \/ Caller(o, "next"),
         x.pc = "append", x.key = {k}, x.entry.at = now, x.entry.until >= now + MaxRouteTTL,
         x.since \in {calls[o].since, 0}, k \in Caps => cap[k].issued >= 0,
         UNCHANGED <<now, up, route, revoked, journal, torn, channel, cap, surviving, req,
                     dead, withRoute, raced, faults>>
  PROVE  IInv'
<1>1. TypeOK' /\ TypeOK
  BY CallOnly DEF IInv, RecordInv
<1>2. Numbers /\ Numbers'
  BY <1>1, Types, TypesNext
<1>3. calls'[o] = x /\ \A p \in Callers : p # o => calls'[p] = calls[p]
  BY <1>1, OneCall
<1>4. RecordsWellDated'
  BY <1>2, <1>3 DEF IInv, RecordInv, RecordsWellDated, WellDated, CallsWellFormed, TypeOK, Numbers, Holding
<1>5. CallsWellFormed'
  BY <1>2, <1>3 DEF IInv, RecordInv, CallsWellFormed, TypeOK, Numbers, Callers, Caller
<1>6. AppendedIsKept' /\ DeadIsRecorded'
  BY <1>3 DEF IInv, RecordInv, AppendedIsKept, DeadIsRecorded, Recorded, Kept
<1>7. RequestsWellFormed' /\ AdmittedBefore'
  BY DEF IInv, RequestsWellFormed, AdmittedBefore, Displaced
<1> QED BY <1>1, <1>4, <1>5, <1>6, <1>7 DEF IInv, RecordInv

LEMMA QuietCallKeeps ==
  ASSUME IInv, NEW o \in Callers, NEW x \in Call, SetCall(o, x), up = "yes",
         x.pc \notin Holding, x.since \in {calls[o].since, now, 0},
         UNCHANGED <<now, up, route, revoked, journal, torn, channel, cap, surviving, req,
                     dead, withRoute, raced, faults>>
  PROVE  IInv'
<1>1. TypeOK' /\ TypeOK
  BY CallOnly DEF IInv, RecordInv
<1>2. QuietRecords
  BY <1>1, OneCall DEF QuietRecords, Callers
<1>3. RecordInv'
  BY <1>1, <1>2, QuietRecordsKeep DEF IInv
<1>4. RequestsWellFormed' /\ AdmittedBefore'
  BY DEF IInv, RequestsWellFormed, AdmittedBefore, Displaced
<1> QED BY <1>3, <1>4 DEF IInv

LEMMA BeginKeeps ==
  ASSUME IInv, NEW o \in Callers
  PROVE  /\ \A r \in Routes : BeginRevokeRoute(o, r) => IInv'
         /\ \A r \in Routes : RevokeRead(o, r) => IInv'
         /\ \A c \in Caps : BeginRevokeCapability(o, c) => IInv'
         /\ BeginRevokeConnector(o) => IInv'
<1>1. TypeOK /\ calls[o] \in Call
  BY CallChanges DEF IInv, RecordInv
<1>2. Routes \subseteq Keys /\ Routes \cap Caps = {} /\ Caps \subseteq Keys
  BY GatewayConstants DEF Keys
<1>3. ASSUME NEW r \in Routes, BeginRevokeRoute(o, r) PROVE IInv'
  <2> DEFINE y == [Idle EXCEPT !.kind = "route"]
             x == Dated(y, r)
  <2>1. y \in Call /\ y.since = 0
    BY Constants DEF Idle, Call
  <2> HIDE DEF y
  <2>2. x \in Call /\ x.pc = "append" /\ x.key = {r} /\ x.since = 0 /\ x.entry.at = now
          /\ x.entry.until >= now + MaxRouteTTL
    BY <1>1, <2>1, DatedCall
  <2>3. SetCall(o, x)
    BY <1>3 DEF BeginRevokeRoute, y
  <2> HIDE DEF x
  <2> QED BY <1>2, <1>3, <2>2, <2>3, BeginsRecord DEF BeginRevokeRoute
<1>4. ASSUME NEW r \in Routes, RevokeRead(o, r) PROVE IInv'
  <2>1. CASE route[r].live = "yes"
    <3> DEFINE x == Dated(calls[o], r)
    <3>1. x \in Call /\ x.pc = "append" /\ x.key = {r} /\ x.since = calls[o].since /\ x.entry.at = now
            /\ x.entry.until >= now + MaxRouteTTL
      BY <1>1, DatedCall
    <3>2. SetCall(o, x)
      BY <1>4, <2>1 DEF RevokeRead
    <3> HIDE DEF x
    <3> QED BY <1>2, <1>4, <3>1, <3>2, BeginsRecord DEF RevokeRead
  <2>2. CASE route[r].live # "yes"
    <3> DEFINE x == [calls[o] EXCEPT !.todo = @ \ {r}]
    <3>1. x \in Call /\ x.pc = "next" /\ x.since = calls[o].since
      BY <1>1, <1>4, CallChanges DEF RevokeRead, Caller
    <3>2. SetCall(o, x)
      BY <1>4, <2>2 DEF RevokeRead
    <3> HIDE DEF x
    <3> QED BY <1>4, <3>1, <3>2, QuietCallKeeps DEF RevokeRead, Caller, Holding
  <2> QED BY <2>1, <2>2
<1>5. ASSUME NEW c \in Caps, BeginRevokeCapability(o, c) PROVE IInv'
  <2> DEFINE e == [at |-> now, until |-> now + MaxRouteTTL]
             x == [Idle EXCEPT !.pc = "append", !.kind = "capability", !.key = {c}, !.entry = e]
  <2>1. e \in Entry /\ e.at = now /\ e.until = now + MaxRouteTTL
    BY <1>1, GatewayConstants DEF TypeOK, Entry
  <2>2. SetCall(o, x)
    BY <1>5 DEF BeginRevokeCapability
  <2> HIDE DEF e
  <2>3. x \in Call /\ x.pc = "append" /\ x.key = {c} /\ x.since = 0 /\ x.entry = e
    BY <1>2, <2>1, Constants DEF Idle, Call
  <2>4. e.until >= now + MaxRouteTTL
    BY <1>1, <2>1, GatewayConstants DEF TypeOK
  <2> HIDE DEF x
  <2> QED BY <1>2, <1>5, <2>1, <2>2, <2>3, <2>4, BeginsRecord DEF BeginRevokeCapability
<1>6. ASSUME BeginRevokeConnector(o) PROVE IInv'
  <2> DEFINE live == {r \in Routes : route[r].live = "yes"}
             x == [Idle EXCEPT !.pc = "next", !.kind = "connector", !.todo = live]
  <2>1. x \in Call /\ x.pc = "next" /\ x.since = 0
    BY Constants DEF Idle, Call
  <2>2. SetCall(o, x)
    BY <1>6 DEF BeginRevokeConnector
  <2> HIDE DEF x
  <2> QED BY <1>6, <2>1, <2>2, QuietCallKeeps DEF BeginRevokeConnector, Caller, Holding
<1> QED BY <1>3, <1>4, <1>5, <1>6

LEMMA RequestsStay ==
  ASSUME IInv, TypeOK', Grows, UNCHANGED <<route, req, withRoute>>
  PROVE  RequestsWellFormed' /\ AdmittedBefore'
<1>1. Numbers /\ Numbers' /\ TypeOK
  BY Types, TypesNext DEF IInv, RecordInv
<1>2. RequestsWellFormed'
  BY DEF IInv, RequestsWellFormed
<1>3. \A c \in withRoute : c \in Caps /\ cap'[c] = cap[c]
  BY DEF IInv, RecordInv, TypeOK, DeadIsRecorded, Grows
<1>4. AdmittedBefore'
  BY <1>1, <1>3 DEF IInv, AdmittedBefore, Displaced, Grows, Numbers
<1> QED BY <1>2, <1>4

(* A line reaches the file, whatever the call does next. *)
LEMMA WriteKeeps ==
  ASSUME IInv, TypeOK', NEW o \in Callers, NEW k \in Keys, NEW x \in Call, SetCall(o, x), up = "yes",
         calls[o].pc = "append", calls[o].key = {k}, x.since \in {calls[o].since, 0},
         \/ x.pc \notin Holding
         \/ x.pc = "store" /\ x.key = {k} /\ x.entry = calls[o].entry
              /\ (k \in raced' \/ journal'[k] = calls[o].entry),
         \/ journal' = journal /\ raced \subseteq raced'
         \/ /\ journal' = [journal EXCEPT ![k] = calls[o].entry]
            /\ raced' = IF journal[k].at > calls[o].entry.at THEN raced \cup {k} ELSE raced,
         UNCHANGED <<now, up, route, revoked, channel, cap, surviving, req, dead, withRoute>>
  PROVE  IInv'
<1>1. TypeOK /\ Numbers /\ Numbers'
  BY Types, TypesNext DEF IInv, RecordInv
<1>2. calls'[o] = x /\ \A p \in Callers : p # o => calls'[p] = calls[p]
  BY <1>1, OneCall
<1>3. WellDated(k, calls[o].entry)
  BY DEF IInv, RecordInv, RecordsWellDated, Holding
<1>4. \A j \in Keys : \/ journal'[j] = journal[j]
                      \/ j = k /\ journal'[k] = calls[o].entry
                           /\ (k \in raced' \/ ~(journal[k].at > calls[o].entry.at))
  BY <1>1 DEF TypeOK
<1>5. raced \subseteq raced'
  OBVIOUS
<1>6. Grows /\ JournalGrows /\ RevokedGrows
  BY <1>1, <1>4, <1>5 DEF Numbers, Grows, JournalGrows, RevokedGrows
<1>7. RecordsWellDated'
  <2>1. \A j \in Keys : WellDated(j, revoked[j])' /\ WellDated(j, surviving[j])'
    BY DEF IInv, RecordInv, RecordsWellDated, WellDated
  <2>2. \A j \in Keys : WellDated(j, journal[j])'
    BY <1>3, <1>4 DEF IInv, RecordInv, RecordsWellDated, WellDated
  <2>3. \A p \in Callers : calls'[p].pc \in Holding =>
          calls'[p].entry.at >= 0 /\ \A j \in calls'[p].key : WellDated(j, calls[p].entry)'
    BY <1>2, <1>3 DEF IInv, RecordInv, RecordsWellDated, WellDated, Holding
  <2> QED BY <2>1, <2>2, <2>3 DEF RecordsWellDated
<1>8. CallsWellFormed'
  BY <1>1, <1>2 DEF IInv, RecordInv, CallsWellFormed, Numbers, Callers, TypeOK
<1>9. AppendedIsKept' /\ DeadIsRecorded'
  <2>1. \A j \in calls'[o].key :
          /\ calls'[o].pc \in {"store", "remove"} => Kept(journal, j, calls[o].entry.at)'
          /\ calls'[o].pc = "remove" => Kept(revoked, j, calls[o].entry.at)'
    BY <1>1, <1>2 DEF Kept, Holding, Numbers
  <2>2. RecordInv
    BY DEF IInv
  <2> QED BY <1>2, <1>6, <2>1, <2>2, RecordsKept
<1>10. RequestsWellFormed' /\ AdmittedBefore'
  BY <1>6, RequestsStay
<1> QED BY <1>7, <1>8, <1>9, <1>10 DEF IInv, RecordInv

LEMMA AppendKeeps ==
  ASSUME IInv, NEW o \in Callers, NEW k \in Keys
  PROVE  /\ JournalAppend(o, k) => IInv'
         /\ \A how \in {"nothing", "part", "all"} : JournalFail(o, k, how) => IInv'
<1>1. TypeOK /\ Numbers /\ calls[o] \in Call
  BY Types, CallChanges DEF IInv, RecordInv
<1>2. calls[o].entry \in Entry
  BY <1>1 DEF Numbers
<1>3. ASSUME JournalAppend(o, k) PROVE IInv'
  <2> DEFINE x == [calls[o] EXCEPT !.pc = "store"]
  <2>1. x \in Call /\ x.pc = "store" /\ x.key = {k} /\ x.entry = calls[o].entry
          /\ x.since = calls[o].since
    BY <1>1, <1>3, CallChanges DEF JournalAppend
  <2>2. SetCall(o, x)
    BY <1>3 DEF JournalAppend, SetPc
  <2> HIDE DEF x
  <2>3. TypeOK'
    BY <1>1, <1>2, <1>3, <2>1, <2>2, OneCall DEF JournalAppend, TypeOK
  <2>4. k \in raced' \/ journal'[k] = calls[o].entry
    BY <1>1, <1>3 DEF JournalAppend, TypeOK
  <2>5. \/ journal' = journal /\ raced \subseteq raced'
        \/ /\ journal' = [journal EXCEPT ![k] = calls[o].entry]
           /\ raced' = IF journal[k].at > calls[o].entry.at THEN raced \cup {k} ELSE raced
    BY <1>3 DEF JournalAppend
  <2>6. /\ UNCHANGED <<now, up, route, revoked, channel, cap, surviving, req, dead, withRoute>>
        /\ up = "yes" /\ calls[o].pc = "append" /\ calls[o].key = {k}
    BY <1>3 DEF JournalAppend, Caller
  <2> QED BY <2>1, <2>2, <2>3, <2>4, <2>5, <2>6, WriteKeeps
<1>4. ASSUME NEW how \in {"nothing", "part", "all"}, JournalFail(o, k, how) PROVE IInv'
  <2> DEFINE y == [calls[o] EXCEPT !.pc = "next", !.key = {}, !.entry = Absent]
             x == IF calls[o].kind = "sweep" THEN y ELSE Idle
  <2>1. y \in Call /\ y.pc = "next" /\ y.since = calls[o].since
    BY <1>1, CallChanges
  <2>2. SetCall(o, x)
    BY <1>4 DEF JournalFail
  <2> HIDE DEF y
  <2>3. x \in Call /\ x.pc \notin Holding /\ x.since \in {calls[o].since, 0}
    BY <2>1, Constants DEF Holding
  <2> HIDE DEF x
  <2>4. faults' \in 0..MaxFaults
    BY <1>1, <1>4, GatewayConstants DEF JournalFail, TypeOK
  <2>5. \/ journal' = journal /\ raced' = raced
        \/ /\ journal' = [journal EXCEPT ![k] = calls[o].entry]
           /\ raced' = IF journal[k].at > calls[o].entry.at THEN raced \cup {k} ELSE raced
    BY <1>4 DEF JournalFail
  <2>6. journal' \in [Keys -> Entry] /\ raced' \subseteq Keys /\ torn' \in {"no", "yes"}
    BY <1>1, <1>2, <1>4, <2>5 DEF JournalFail, TypeOK
  <2>7. /\ UNCHANGED <<now, up, route, revoked, channel, cap, surviving, req, dead, withRoute>>
        /\ up = "yes" /\ calls[o].pc = "append" /\ calls[o].key = {k}
    BY <1>4 DEF JournalFail, Caller
  <2>8. TypeOK'
    BY <1>1, <2>2, <2>3, <2>4, <2>6, <2>7, OneCall DEF TypeOK
  <2>9. \/ journal' = journal /\ raced \subseteq raced'
        \/ /\ journal' = [journal EXCEPT ![k] = calls[o].entry]
           /\ raced' = IF journal[k].at > calls[o].entry.at THEN raced \cup {k} ELSE raced
    BY <2>5
  <2> QED BY <2>2, <2>3, <2>7, <2>8, <2>9, WriteKeeps
<1> QED BY <1>3, <1>4

LEMMA StoreKeeps ==
  ASSUME IInv, NEW o \in Callers, NEW k \in Keys, RecordStore(o, k)
  PROVE  IInv'
<1> DEFINE e == calls[o].entry
           y == [calls[o] EXCEPT !.pc = "remove"]
           x == IF k \in Caps THEN Idle ELSE y
<1>1. TypeOK /\ Numbers /\ calls[o] \in Call /\ RecordInv
  BY Types, CallChanges DEF IInv, RecordInv
<1>2. /\ calls[o].pc = "store" /\ calls[o].key = {k} /\ up = "yes"
      /\ revoked' = [revoked EXCEPT ![k] = e]
      /\ raced' = IF revoked[k].at > e.at THEN raced \cup {k} ELSE raced
      /\ dead' = IF k \in Caps THEN dead \cup {k} ELSE dead
      /\ UNCHANGED <<now, up, route, journal, torn, channel, cap, surviving, req, withRoute, faults>>
  BY DEF RecordStore, Caller
<1>3. y \in Call /\ y.pc = "remove" /\ y.key = {k} /\ y.entry = e /\ y.since = calls[o].since
  BY <1>1, <1>2, CallChanges
<1>4. SetCall(o, x)
  BY DEF RecordStore, SetPc
<1> HIDE DEF y
<1>5. x \in Call /\ x.since \in {calls[o].since, 0}
      /\ (x.pc \notin Holding \/ (x.pc = "remove" /\ x.key = {k} /\ x.entry = e))
  BY <1>3, Constants DEF Holding
<1> HIDE DEF x
<1>6. /\ calls' \in [Callers -> Call] /\ calls'[o] = x
      /\ \A p \in Callers : p # o => calls'[p] = calls[p]
  BY <1>1, <1>4, <1>5, OneCall
<1>7. e \in Entry /\ e.at \in Int /\ WellDated(k, e) /\ e.at >= 0
  BY <1>1, <1>2 DEF Numbers, RecordInv, RecordsWellDated, Holding
<1> HIDE DEF e
<1>8. TypeOK'
  BY <1>1, <1>2, <1>6, <1>7 DEF TypeOK
<1>9. Numbers'
  BY <1>8, TypesNext
<1>10. \A j \in Keys : \/ revoked'[j] = revoked[j]
                       \/ j = k /\ revoked'[k] = e /\ (k \in raced' \/ ~(revoked[k].at > e.at))
  BY <1>1, <1>2 DEF TypeOK
<1>11. Grows /\ JournalGrows /\ RevokedGrows
  BY <1>1, <1>2, <1>7, <1>10 DEF Numbers, Grows, JournalGrows, RevokedGrows
<1>12. RecordsWellDated'
  <2>1. \A j \in Keys : WellDated(j, journal[j])' /\ WellDated(j, surviving[j])'
    BY <1>1, <1>2 DEF RecordInv, RecordsWellDated, WellDated
  <2>2. \A j \in Keys : WellDated(j, revoked[j])'
    BY <1>1, <1>2, <1>7, <1>10 DEF RecordInv, RecordsWellDated, WellDated
  <2>3. \A p \in Callers : calls'[p].pc \in Holding =>
          calls'[p].entry.at >= 0 /\ \A j \in calls'[p].key : WellDated(j, calls[p].entry)'
    BY <1>1, <1>2, <1>5, <1>6, <1>7 DEF RecordInv, RecordsWellDated, WellDated
  <2> QED BY <2>1, <2>2, <2>3 DEF RecordsWellDated
<1>13. CallsWellFormed'
  BY <1>1, <1>2, <1>5, <1>6 DEF RecordInv, CallsWellFormed, Numbers, Callers, TypeOK
<1>14. k \in raced' \/ revoked'[k] = e
  BY <1>1, <1>2 DEF TypeOK
<1>15. k \in raced' \/ journal'[k].at >= e.at \/ now' >= e.at + MaxRouteTTL
  <2>1. Kept(journal, k, e.at)
    BY <1>1, <1>2 DEF RecordInv, AppendedIsKept, e
  <2> QED BY <1>2, <2>1 DEF Kept
<1>16. \A j \in calls'[o].key :
         /\ calls'[o].pc \in {"store", "remove"} => Kept(journal, j, calls[o].entry.at)'
         /\ calls'[o].pc = "remove" => Kept(revoked, j, calls[o].entry.at)'
  BY <1>5, <1>6, <1>7, <1>14, <1>15 DEF Kept, Holding
<1>17. \A c \in dead' \ dead :
         cap'[c].issued >= 0 /\ (Recorded(c, c)' \/ Recorded(c, RouteOf[c])')
  <2> SUFFICES ASSUME k \in Caps PROVE cap'[k].issued >= 0 /\ Recorded(k, k)'
    BY <1>2
  <2>1. cap[k].issued >= 0 /\ e.at >= cap[k].issued /\ cap[k].issued \in Int
    BY <1>1, <1>7 DEF WellDated, Numbers
  <2>2. Kept(journal, k, cap[k].issued)'
    BY <1>2, <1>9, <1>15, <2>1, <1>7, Lifetimes DEF Kept, Numbers
  <2>3. Kept(revoked, k, cap[k].issued)'
    BY <1>2, <1>14, <2>1, <1>7 DEF Kept
  <2> QED BY <1>2, <2>1, <2>2, <2>3 DEF Recorded
<1>18. AppendedIsKept' /\ DeadIsRecorded'
  BY <1>1, <1>2, <1>6, <1>8, <1>11, <1>16, <1>17, RecordsKept
<1>19. RequestsWellFormed' /\ AdmittedBefore'
  BY <1>2, <1>8, <1>11, RequestsStay
<1> QED BY <1>8, <1>12, <1>13, <1>18, <1>19 DEF IInv, RecordInv

LEMMA ResetKeeps ==
  ASSUME IInv, TypeOK', NEW qs, Reset(qs), \A q \in Requests : q \in qs => req[q].pc = "open",
         UNCHANGED <<now, route, cap, withRoute, raced>>
  PROVE  RequestsWellFormed' /\ AdmittedBefore'
<1>1. TypeOK
  BY DEF IInv, RecordInv
<1>2. \A q \in Requests : /\ req'[q].cap = req[q].cap
                          /\ IF q \in qs THEN req'[q].pc = "reset" ELSE req'[q] = req[q]
  BY <1>1, ResetType
<1>3. RequestsWellFormed'
  BY <1>2 DEF IInv, RequestsWellFormed
<1>4. AdmittedBefore'
  BY <1>2 DEF IInv, AdmittedBefore, Displaced
<1> QED BY <1>3, <1>4

LEMMA RemoveKeeps ==
  ASSUME IInv, NEW o \in Callers, NEW r \in Routes, RemoveRoute(o, r)
  PROVE  IInv'
<1> DEFINE at == calls[o].entry.at
           y == [calls[o] EXCEPT !.pc = "next", !.key = {}, !.entry = Absent]
           x == IF Continue(o) = "idle" THEN Idle ELSE y
<1>1. TypeOK /\ Numbers /\ RecordInv /\ r \in Keys
  BY Types DEF IInv, RecordInv, Keys
<1>2. /\ calls[o].pc = "remove" /\ calls[o].key = {r} /\ up = "yes"
      /\ route' = [route EXCEPT ![r] = Gone(r)] /\ Reset(Attached(r)) /\ SetCall(o, x)
      /\ dead' = dead \cup Covered(r, at) /\ withRoute' = withRoute \cup Covered(r, at)
      /\ UNCHANGED <<now, up, revoked, journal, torn, channel, cap, surviving, raced, faults>>
  BY DEF RemoveRoute, Caller, Proceed
<1>3. y \in Call /\ y.pc = "next" /\ y.since = calls[o].since
  BY <1>1, CallChanges
<1> HIDE DEF y
<1>4. x \in Call /\ x.pc \notin Holding /\ x.since \in {calls[o].since, 0}
  BY <1>3, Constants DEF Holding
<1> HIDE DEF x
<1>5. /\ calls' \in [Callers -> Call] /\ calls'[o] = x
      /\ \A p \in Callers : p # o => calls'[p] = calls[p]
  BY <1>1, <1>2, <1>4, OneCall
<1>6. /\ route' \in [Routes -> Route] /\ route'[r].live = "no"
      /\ \A z \in Routes : route'[z].gen = route[z].gen /\ (z # r => route'[z] = route[z])
  <2>1. route[r].gen \in 0..MaxRegistrations /\ \A z \in Routes : route[z] \in Route
    BY <1>1 DEF TypeOK, Route
  <2>2. Gone(r) \in Route /\ Gone(r).live = "no" /\ Gone(r).gen = route[r].gen
    BY <2>1, GatewayConstants DEF Gone, Route
  <2> QED BY <1>1, <1>2, <2>2 DEF TypeOK
<1>7. /\ req' \in [Requests -> Request]
      /\ \A q \in Requests :
           /\ req'[q].cap = req[q].cap
           /\ IF q \in Attached(r) THEN req'[q].pc = "reset" ELSE req'[q] = req[q]
  BY <1>1, <1>2, ResetType
<1>8. TypeOK'
  BY <1>1, <1>2, <1>5, <1>6, <1>7 DEF TypeOK, Covered
<1>9. Grows /\ JournalGrows /\ RevokedGrows
  BY <1>1, <1>2 DEF Numbers, Grows, JournalGrows, RevokedGrows
<1>10. RecordsWellDated' /\ CallsWellFormed'
  BY <1>1, <1>2, <1>4, <1>5 DEF RecordInv, RecordsWellDated, WellDated, CallsWellFormed, Holding,
     Callers, Numbers, TypeOK
<1>11. \A c \in dead' \ dead :
         cap'[c].issued >= 0 /\ (Recorded(c, c)' \/ Recorded(c, RouteOf[c])')
  <2> SUFFICES ASSUME NEW c \in Covered(r, at) PROVE cap'[c].issued >= 0 /\ Recorded(c, RouteOf[c])'
    BY <1>2
  <2>1. c \in Caps /\ RouteOf[c] = r /\ at \in Int
    BY <1>1 DEF Covered, Numbers
  <2>2. cap[c].issued \in Int /\ 0 <= cap[c].issued /\ cap[c].issued <= at
    BY <1>1, <2>1 DEF Covered, Numbers
  <2>3. Kept(journal, r, at) /\ Kept(revoked, r, at)
    BY <1>1, <1>2 DEF RecordInv, AppendedIsKept
  <2> HIDE DEF at
  <2>4. Kept(journal, r, cap[c].issued) /\ Kept(revoked, r, cap[c].issued)
    BY <1>1, <2>1, <2>2, <2>3, Lifetimes DEF Kept, Numbers
  <2> QED BY <1>2, <2>1, <2>2, <2>4 DEF Recorded, Kept
<1>12. AppendedIsKept' /\ DeadIsRecorded'
  BY <1>1, <1>2, <1>4, <1>5, <1>8, <1>9, <1>11, RecordsKept DEF Holding
<1>13. RequestsWellFormed'
  <2> SUFFICES ASSUME NEW q \in Requests
               PROVE  /\ req'[q].pc # "idle" => \E c \in Caps : req'[q].cap = {c}
                      /\ \A c \in req'[q].cap :
                           /\ req'[q].pc \in {"looked", "admitted", "open"}
                                => req'[q].gen <= route'[RouteOf[c]].gen
                           /\ req'[q].pc = "open" => route'[RouteOf[c]].live = "yes"
    BY DEF RequestsWellFormed
  <2>1. CASE q \in Attached(r)
    BY <1>7, <2>1 DEF IInv, RequestsWellFormed, Attached
  <2>2. CASE q \notin Attached(r)
    <3>1. req'[q] = req[q] /\ req[q].cap \subseteq Caps
      BY <1>1, <1>7, <2>2 DEF TypeOK, Request
    <3>2. \A c \in req[q].cap : RouteOf[c] \in Routes
      BY <3>1, GatewayConstants
    <3>3. req[q].pc = "open" => \A c \in req[q].cap : RouteOf[c] # r
      BY <2>2 DEF IInv, RequestsWellFormed, Attached
    <3> QED BY <1>6, <3>1, <3>2, <3>3 DEF IInv, RequestsWellFormed
  <2> QED BY <2>1, <2>2
<1>14. AdmittedBefore'
  <2> SUFFICES ASSUME NEW q \in Requests, NEW c \in req'[q].cap,
                      req'[q].pc \in {"admitted", "open"}, c \in withRoute', RouteOf[c] # r
               PROVE  \/ req'[q].gen < route'[RouteOf[c]].gen
                      \/ route'[RouteOf[c]].live = "no"
                      \/ Displaced(c)' \/ now' >= cap'[c].expires
    BY <1>6 DEF AdmittedBefore
  <2>1. req'[q] = req[q] /\ c \in withRoute
    BY <1>2, <1>7 DEF Covered
  <2>2. RouteOf[c] \in Routes
    BY <1>1, <2>1, GatewayConstants DEF TypeOK
  <2> QED BY <1>2, <1>6, <2>1, <2>2 DEF IInv, AdmittedBefore, Displaced
<1> QED BY <1>8, <1>10, <1>12, <1>13, <1>14 DEF IInv, RecordInv

LEMMA ConnectorAnswerKeeps == ASSUME IInv, NEW o \in Callers, ConnectorAnswer(o) PROVE IInv'
<1>1. TypeOK
  BY DEF IInv, RecordInv
<1>2. /\ calls' \in [Callers -> Call] /\ calls'[o] = Idle
      /\ \A p \in Callers : p # o => calls'[p] = calls[p]
  BY <1>1, Constants, OneCall DEF ConnectorAnswer
<1>3. TypeOK'
  BY <1>1, <1>2, ResetType DEF ConnectorAnswer, TypeOK
<1>4. QuietRecords
  BY <1>2, Constants DEF QuietRecords, ConnectorAnswer, Caller, Holding, Callers
<1>5. RecordInv'
  BY <1>3, <1>4, QuietRecordsKeep DEF IInv
<1>6. RequestsWellFormed' /\ AdmittedBefore'
  BY <1>3, ResetKeeps DEF ConnectorAnswer
<1> QED BY <1>5, <1>6 DEF IInv

-----------------------------------------------------------------------------
(* The sweep *)

LEMMA SweepStepsKeep ==
  ASSUME IInv
  PROVE  /\ SweepBegin => IInv'
         /\ SweepDeadlines => IInv'
         /\ SweepCompactFail => IInv'
<1>1. TypeOK /\ Sweeper \in Callers /\ calls[Sweeper] \in Call
  BY CallChanges DEF IInv, RecordInv, Callers
<1>2. ASSUME SweepBegin PROVE IInv'
  <2> DEFINE due == {r \in Routes : route[r].live = "yes" /\ now >= route[r].expires}
             x == [Idle EXCEPT !.pc = "next", !.kind = "sweep", !.todo = due, !.since = now]
  <2>1. x \in Call /\ x.pc = "next" /\ x.since = now
    BY <1>1, Constants DEF Idle, Call, TypeOK
  <2>2. SetCall(Sweeper, x)
    BY <1>2 DEF SweepBegin
  <2> HIDE DEF x
  <2> QED BY <1>1, <1>2, <2>1, <2>2, QuietCallKeeps DEF SweepBegin, Caller, Holding
<1>3. ASSUME SweepDeadlines PROVE IInv'
  <2> DEFINE x == [calls[Sweeper] EXCEPT !.pc = "forget"]
  <2>1. x \in Call /\ x.pc = "forget" /\ x.since = calls[Sweeper].since
    BY <1>1, CallChanges
  <2>2. SetCall(Sweeper, x)
    BY <1>3 DEF SweepDeadlines, SetPc
  <2> HIDE DEF x
  <2>3. /\ calls' \in [Callers -> Call] /\ calls'[Sweeper] = x
        /\ \A p \in Callers : p # Sweeper => calls'[p] = calls[p]
    BY <1>1, <2>1, <2>2, OneCall
  <2>4. TypeOK'
    BY <1>1, <1>3, <2>3, ResetType DEF SweepDeadlines, TypeOK
  <2>5. QuietRecords
    BY <1>3, <2>1, <2>3 DEF QuietRecords, SweepDeadlines, Caller, Holding
  <2>6. RecordInv'
    BY <2>4, <2>5, QuietRecordsKeep DEF IInv
  <2>7. RequestsWellFormed' /\ AdmittedBefore'
    BY <1>3, <2>4, ResetKeeps DEF SweepDeadlines
  <2> QED BY <2>6, <2>7 DEF IInv
<1>4. ASSUME SweepCompactFail PROVE IInv'
  <2>1. /\ calls' \in [Callers -> Call] /\ calls'[Sweeper] = Idle
        /\ \A p \in Callers : p # Sweeper => calls'[p] = calls[p]
    BY <1>1, <1>4, Constants, OneCall DEF SweepCompactFail
  <2>2. faults' \in 0..MaxFaults /\ surviving' \in [Keys -> Entry]
    BY <1>1, <1>4, Constants, GatewayConstants DEF SweepCompactFail, TypeOK
  <2>3. TypeOK'
    BY <1>1, <1>4, <2>1, <2>2 DEF SweepCompactFail, TypeOK
  <2>4. QuietRecords
    BY <1>4, <2>1, Constants DEF QuietRecords, SweepCompactFail, Caller, Holding
  <2>5. RecordInv'
    BY <2>3, <2>4, QuietRecordsKeep DEF IInv
  <2>6. Grows
    BY <1>1, <1>4, Types DEF SweepCompactFail, Grows, Numbers
  <2>7. RequestsWellFormed' /\ AdmittedBefore'
    BY <1>4, <2>3, <2>6, RequestsStay DEF SweepCompactFail
  <2> QED BY <2>5, <2>7 DEF IInv
<1> QED BY <1>2, <1>3, <1>4

LEMMA ForgetKeeps == ASSUME IInv, SweepForget PROVE IInv'
<1> DEFINE since == calls[Sweeper].since
           kept == [k \in Keys |-> IF k \in Forgettable(since) THEN Absent ELSE revoked[k]]
           y == [calls[Sweeper] EXCEPT !.pc = "compact"]
           x == IF Forgettable(since) = {} THEN Idle ELSE y
<1>1. TypeOK /\ Numbers /\ RecordInv /\ Sweeper \in Callers
  BY Types DEF IInv, RecordInv, Callers
<1>2. /\ revoked' = kept /\ surviving' \in {surviving, kept} /\ SetCall(Sweeper, x) /\ up = "yes"
      /\ UNCHANGED <<now, up, route, journal, torn, channel, cap, req, dead, withRoute, raced, faults>>
  BY DEF SweepForget, Caller, SetPc
<1>3. y \in Call /\ y.pc = "compact" /\ y.since = since
  BY <1>1, CallChanges
<1> HIDE DEF y
<1>4. x \in Call /\ x.pc \notin Holding /\ x.since \in {since, 0}
  BY <1>3, Constants DEF Holding
<1> HIDE DEF x
<1>5. /\ calls' \in [Callers -> Call] /\ calls'[Sweeper] = x
      /\ \A p \in Callers : p # Sweeper => calls'[p] = calls[p]
  BY <1>1, <1>2, <1>4, OneCall
<1>6. kept \in [Keys -> Entry]
  BY <1>1, Constants DEF TypeOK
<1>7. TypeOK'
  BY <1>1, <1>2, <1>5, <1>6 DEF TypeOK
<1>8. since <= now /\ since \in Int
  BY <1>1 DEF RecordInv, CallsWellFormed, Numbers
<1>9. \A k \in Keys : revoked'[k] = revoked[k] \/ (revoked'[k] = Absent /\ now >= revoked[k].at + MaxRouteTTL)
  <2> SUFFICES ASSUME NEW k \in Keys, k \in Forgettable(since) PROVE now >= revoked[k].at + MaxRouteTTL
    BY <1>2
  <2>1. revoked[k].at >= 0 /\ revoked[k].until <= since
    BY DEF Forgettable
  <2>2. revoked[k].until >= revoked[k].at + MaxRouteTTL
    BY <1>1, <2>1 DEF RecordInv, RecordsWellDated, WellDated
  <2> HIDE DEF since
  <2> QED BY <1>1, <1>8, <2>1, <2>2, Lifetimes DEF Numbers
<1>10. \A k \in Keys : surviving'[k] \in {surviving[k], revoked[k], Absent}
  BY <1>2
<1> HIDE DEF kept, since
<1>11. Grows /\ JournalGrows /\ RevokedGrows
  BY <1>1, <1>2, <1>9 DEF Numbers, Grows, JournalGrows, RevokedGrows
<1>12. RecordsWellDated'
  <2>1. \A j \in Keys : WellDated(j, journal[j])' /\ WellDated(j, surviving[j])' /\ WellDated(j, revoked[j])'
    BY <1>1, <1>2, <1>9, <1>10 DEF RecordInv, RecordsWellDated, WellDated, Absent
  <2>2. \A p \in Callers : calls'[p].pc \in Holding =>
          calls'[p].entry.at >= 0 /\ \A j \in calls'[p].key : WellDated(j, calls[p].entry)'
    BY <1>1, <1>2, <1>4, <1>5 DEF RecordInv, RecordsWellDated, WellDated
  <2> QED BY <2>1, <2>2 DEF RecordsWellDated
<1>13. CallsWellFormed'
  BY <1>1, <1>2, <1>4, <1>5, <1>8 DEF RecordInv, CallsWellFormed, TypeOK
<1>14. AppendedIsKept' /\ DeadIsRecorded'
  BY <1>1, <1>2, <1>4, <1>5, <1>7, <1>11, RecordsKept DEF Holding
<1>15. RequestsWellFormed' /\ AdmittedBefore'
  BY <1>2, <1>7, <1>11, RequestsStay
<1> QED BY <1>7, <1>12, <1>13, <1>14, <1>15 DEF IInv, RecordInv

LEMMA CompactKeeps == ASSUME IInv, SweepCompact PROVE IInv'
<1> DEFINE since == calls[Sweeper].since
<1>1. TypeOK /\ Numbers /\ RecordInv /\ Sweeper \in Callers
  BY Types DEF IInv, RecordInv, Callers
<1>2. /\ journal' = surviving /\ torn' = "no" /\ up = "yes"
      /\ raced' = raced \cup {k \in Keys : journal[k].until > since /\ journal[k] # surviving[k]}
      /\ surviving' = [k \in Keys |-> Absent] /\ SetCall(Sweeper, Idle)
      /\ UNCHANGED <<now, up, route, revoked, channel, cap, req, dead, withRoute, faults>>
  BY DEF SweepCompact, Caller
<1>3. /\ calls' \in [Callers -> Call] /\ calls'[Sweeper] = Idle
      /\ \A p \in Callers : p # Sweeper => calls'[p] = calls[p]
  BY <1>1, <1>2, Constants, OneCall
<1>4. TypeOK'
  BY <1>1, <1>2, <1>3, Constants DEF TypeOK
<1>5. since <= now /\ since \in Int
  BY <1>1 DEF RecordInv, CallsWellFormed, Numbers
<1> HIDE DEF since
<1>6. JournalGrows
  <2> SUFFICES ASSUME NEW k \in Keys, k \notin raced', ~(journal'[k].at >= journal[k].at)
               PROVE  now' >= journal[k].at + MaxRouteTTL
    BY DEF JournalGrows
  <2>1. ~(journal[k].until > since)
    BY <1>1, <1>2 DEF Numbers
  <2>2. CASE journal[k].at >= 0
    <3>1. journal[k].until >= journal[k].at + MaxRouteTTL
      BY <1>1, <2>2 DEF RecordInv, RecordsWellDated, WellDated
    <3> QED BY <1>1, <1>2, <1>5, <2>1, <3>1, Lifetimes DEF Numbers
  <2>3. CASE ~(journal[k].at >= 0)
    <3>1. journal[k].at = -1 /\ surviving[k].at >= -1
      BY <1>1, <2>3 DEF TypeOK, Entry
    <3> QED BY <1>2, <3>1
  <2> QED BY <2>2, <2>3
<1>7. Grows /\ RevokedGrows
  BY <1>1, <1>2 DEF Numbers, Grows, RevokedGrows
<1>8. RecordsWellDated'
  <2>1. \A j \in Keys : WellDated(j, journal[j])' /\ WellDated(j, surviving[j])' /\ WellDated(j, revoked[j])'
    BY <1>1, <1>2 DEF RecordInv, RecordsWellDated, WellDated, Absent
  <2>2. \A p \in Callers : calls'[p].pc \in Holding =>
          calls'[p].entry.at >= 0 /\ \A j \in calls'[p].key : WellDated(j, calls[p].entry)'
    BY <1>1, <1>2, <1>3, Constants DEF RecordInv, RecordsWellDated, WellDated, Holding
  <2> QED BY <2>1, <2>2 DEF RecordsWellDated
<1>9. CallsWellFormed'
  BY <1>1, <1>2, <1>3, Constants DEF RecordInv, CallsWellFormed, TypeOK
<1>10. AppendedIsKept' /\ DeadIsRecorded'
  BY <1>1, <1>2, <1>3, <1>4, <1>6, <1>7, Constants, RecordsKept DEF Holding
<1>11. RequestsWellFormed' /\ AdmittedBefore'
  BY <1>2, <1>4, <1>7, RequestsStay
<1> QED BY <1>4, <1>8, <1>9, <1>10, <1>11 DEF IInv, RecordInv

-----------------------------------------------------------------------------
(* Proxied requests *)

LEMMA DeadIsWithdrawn ==
  ASSUME RecordInv, up = "yes", NEW c \in dead
  PROVE  Withdrawn(c) \/ Displaced(c) \/ now >= cap[c].expires
<1>1. Numbers /\ c \in Caps /\ RouteOf[c] \in Keys /\ c \in Keys
  BY Types, Lifetimes DEF RecordInv, TypeOK
<1>2. cap[c].issued >= 0 /\ cap[c].expires = cap[c].issued + CapabilityTTL
  BY <1>1 DEF RecordInv, DeadIsRecorded, CallsWellFormed
<1>3. PICK k \in {c, RouteOf[c]} : Kept(revoked, k, cap[c].issued)
  BY DEF RecordInv, DeadIsRecorded, Recorded
<1>4. k \in raced => Displaced(c)
  BY DEF Displaced
<1>5. revoked[k].at >= cap[c].issued => Withdrawn(c)
  BY <1>1, <1>2 DEF Withdrawn, Numbers
<1>6. now >= cap[c].issued + MaxRouteTTL => now >= cap[c].expires
  BY <1>1, <1>2, Lifetimes DEF Numbers
<1> QED BY <1>3, <1>4, <1>5, <1>6 DEF Kept

LEMMA ProxyKeeps ==
  ASSUME IInv, NEW q \in Requests, NEW c \in Caps
  PROVE  /\ RequestLookup(q, c) => IInv'
         /\ RequestAdmit(q, c) => IInv'
         /\ RequestAttach(q, c) => IInv'
         /\ RequestDetach(q, c) => IInv'
<1> DEFINE r == RouteOf[c]
<1>1. TypeOK /\ r \in Routes /\ req[q] \in Request /\ route[r] \in Route
  BY GatewayConstants DEF IInv, RecordInv, TypeOK
<1>2. NoRequest \in Request /\ NoRequest.pc = "idle" /\ NoRequest.cap = {}
  BY Constants
<1>3. ASSUME TypeOK',
             UNCHANGED <<now, up, revoked, journal, torn, channel, cap, calls, surviving, dead,
                         withRoute, raced, faults>>
      PROVE  RecordInv'
  <2>1. QuietRecords
    BY <1>3 DEF QuietRecords
  <2> QED BY <1>3, <2>1, QuietRecordsKeep DEF IInv
<1>4. ASSUME RequestLookup(q, c) PROVE IInv'
  <2> DEFINE x == [pc |-> "looked", cap |-> {c}, gen |-> route[r].gen, deadline |-> route[r].expires]
  <2>1. req' = [req EXCEPT ![q] = x] /\ x \in Request
    BY <1>1, <1>4 DEF RequestLookup, Request, Route
  <2>2. UNCHANGED <<now, up, route, revoked, journal, torn, channel, cap, calls, surviving, dead,
                    withRoute, raced, faults>>
    BY <1>4 DEF RequestLookup
  <2>3. TypeOK'
    BY <1>1, <2>1, <2>2 DEF TypeOK
  <2>4. RequestsWellFormed'
    BY <1>1, <2>1, <2>2 DEF IInv, RequestsWellFormed, TypeOK, Route
  <2>5. AdmittedBefore'
    BY <1>1, <2>1, <2>2 DEF IInv, AdmittedBefore, TypeOK, Displaced
  <2> QED BY <1>3, <2>2, <2>3, <2>4, <2>5 DEF IInv
<1>5. ASSUME RequestAdmit(q, c) PROVE IInv'
  <2> DEFINE y == [req[q] EXCEPT !.pc = "admitted"]
             x == IF Admissible(c) THEN y ELSE NoRequest
  <2>1. y \in Request /\ y.pc = "admitted" /\ y.cap = {c} /\ y.gen = req[q].gen
    BY <1>1, <1>5 DEF RequestAdmit, Request
  <2>2. req' = [req EXCEPT ![q] = x] /\ up = "yes" /\ req[q].pc = "looked" /\ req[q].cap = {c}
    BY <1>1, <1>5 DEF RequestAdmit, TypeOK
  <2>3. UNCHANGED <<now, up, route, revoked, journal, torn, channel, cap, calls, surviving, dead,
                    withRoute, raced, faults>>
    BY <1>5 DEF RequestAdmit
  <2> HIDE DEF y
  <2>4. /\ x \in Request /\ x.pc \in {"admitted", "idle"}
        /\ x.pc = "admitted" => x.cap = {c} /\ x.gen = req[q].gen /\ Admissible(c)
        /\ x.pc = "idle" => x.cap = {}
    BY <1>2, <2>1
  <2> HIDE DEF x
  <2>5. TypeOK'
    BY <1>1, <2>2, <2>3, <2>4 DEF TypeOK
  <2>6. req'[q] = x /\ \A p \in Requests : p # q => req'[p] = req[p]
    BY <1>1, <2>2 DEF TypeOK
  <2>7. RequestsWellFormed'
    BY <2>2, <2>3, <2>4, <2>6 DEF IInv, RequestsWellFormed
  <2>8. c \in withRoute /\ Admissible(c) => Displaced(c) \/ now >= cap[c].expires
    BY <1>1, <2>2, DeadIsWithdrawn DEF IInv, Admissible, TypeOK
  <2>9. AdmittedBefore'
    BY <2>3, <2>4, <2>6, <2>8 DEF IInv, AdmittedBefore, Displaced
  <2> QED BY <1>3, <2>3, <2>5, <2>7, <2>9 DEF IInv
<1>6. ASSUME NEW x \in Request, req' = [req EXCEPT ![q] = x], req[q].cap = {c},
             x = NoRequest \/ (/\ x.pc = "open" /\ x.cap = {c} /\ x.gen = req[q].gen
                               /\ req[q].pc = "admitted" /\ route[r].live = "yes"),
             NEW n \in Int, route' \in {route, [route EXCEPT ![r].active = n]},
             UNCHANGED <<now, up, revoked, journal, torn, channel, cap, calls, surviving,
                         dead, withRoute, raced, faults>>
      PROVE  IInv'
  <2>1. /\ route' \in [Routes -> Route]
        /\ \A z \in Routes : route'[z].live = route[z].live /\ route'[z].gen = route[z].gen
    BY <1>1, <1>6 DEF TypeOK, Route
  <2>2. req'[q] = x /\ \A p \in Requests : p # q => req'[p] = req[p]
    BY <1>1, <1>6 DEF TypeOK
  <2>3. TypeOK'
    BY <1>1, <1>6, <2>1 DEF TypeOK
  <2>4. \A p \in Requests : \A d \in req[p].cap : RouteOf[d] \in Routes
    BY <1>1, GatewayConstants DEF TypeOK, Request
  <2>5. RequestsWellFormed'
    BY <1>1, <1>2, <1>6, <2>1, <2>2, <2>4 DEF IInv, RequestsWellFormed
  <2>6. AdmittedBefore'
    BY <1>1, <1>2, <1>6, <2>1, <2>2, <2>4 DEF IInv, AdmittedBefore, Displaced
  <2> QED BY <1>3, <1>6, <2>3, <2>5, <2>6 DEF IInv
<1>7. route[r].active \in Int
  BY <1>1 DEF Route
<1>8. ASSUME RequestAttach(q, c) PROVE IInv'
  <2> DEFINE x == [req[q] EXCEPT !.pc = "open"]
  <2>1. x \in Request /\ x.pc = "open" /\ x.cap = {c} /\ x.gen = req[q].gen /\ req[q].cap = {c}
        /\ req[q].pc = "admitted"
    BY <1>1, <1>8 DEF RequestAttach, Request
  <2>2. CASE channel = "yes" /\ route[r].live = "yes"
    <3>1. req' = [req EXCEPT ![q] = x] /\ route' = [route EXCEPT ![r].active = route[r].active + 1]
      BY <1>1, <1>8, <2>2 DEF RequestAttach, TypeOK
    <3>2. route[r].active + 1 \in Int
      BY <1>7
    <3> HIDE DEF x, r
    <3> QED BY <1>6, <1>8, <2>1, <2>2, <3>1, <3>2 DEF RequestAttach
  <2>3. CASE ~(channel = "yes" /\ route[r].live = "yes")
    <3>1. req' = [req EXCEPT ![q] = NoRequest] /\ route' = route
      BY <1>8, <2>3 DEF RequestAttach
    <3> QED BY <1>2, <1>6, <1>7, <1>8, <2>1, <3>1 DEF RequestAttach
  <2> QED BY <2>2, <2>3
<1>9. ASSUME RequestDetach(q, c) PROVE IInv'
  <2>1. /\ route' \in {route, [route EXCEPT ![r].active = route[r].active - 1]}
        /\ req' = [req EXCEPT ![q] = NoRequest] /\ req[q].cap = {c}
    BY <1>1, <1>9 DEF RequestDetach, TypeOK
  <2>2. route[r].active - 1 \in Int
    BY <1>7
  <2> HIDE DEF r
  <2> QED BY <1>2, <1>6, <1>9, <2>1, <2>2 DEF RequestDetach
<1> QED BY <1>4, <1>5, <1>8, <1>9

-----------------------------------------------------------------------------
(* Registration and the environment *)

LEMMA RegisterKeeps ==
  ASSUME IInv, NEW r \in Routes, NEW e \in 1..(MaxTime + MaxRouteTTL), Register(r, e)
  PROVE  IInv'
<1> DEFINE x == [live |-> "yes", gen |-> route[r].gen + 1, expires |-> e, active |-> 0]
<1>1. TypeOK /\ \A z \in Routes : route[z].gen \in 0..MaxRegistrations
  BY DEF IInv, RecordInv, TypeOK, Route
<1>2. route' = [route EXCEPT ![r] = x] /\ route[r].gen < MaxRegistrations
  BY <1>1 DEF Register, TypeOK
<1>3. x \in Route /\ x.live = "yes" /\ x.gen = route[r].gen + 1
  BY <1>1, <1>2, GatewayConstants DEF Route
<1> HIDE DEF x
<1>4. UNCHANGED <<now, up, revoked, journal, torn, channel, cap, calls, surviving, req,
                  dead, withRoute, raced, faults>>
  BY DEF Register
<1>5. TypeOK'
  BY <1>1, <1>2, <1>3, <1>4 DEF TypeOK
<1>6. QuietRecords
  BY <1>4 DEF QuietRecords
<1>7. RecordInv'
  BY <1>5, <1>6, QuietRecordsKeep DEF IInv
<1>8. /\ \A p \in Requests : req[p].gen \in Int /\ \A d \in req[p].cap : RouteOf[d] \in Routes
      /\ \A z \in Routes : route[z].gen \in Int /\ (z # r => route'[z] = route[z])
      /\ route'[r] = x
  BY <1>1, <1>2, GatewayConstants DEF TypeOK, Request
<1>9. RequestsWellFormed'
  BY <1>3, <1>4, <1>8 DEF IInv, RequestsWellFormed
<1>10. AdmittedBefore'
  BY <1>3, <1>4, <1>8 DEF IInv, RequestsWellFormed, AdmittedBefore, Displaced
<1> QED BY <1>7, <1>9, <1>10 DEF IInv

LEMMA MintKeeps == ASSUME IInv, NEW c \in Caps, Mint(c) PROVE IInv'
<1> DEFINE x == [issued |-> now, expires |-> now + CapabilityTTL]
<1>1. TypeOK /\ Numbers /\ RecordInv /\ now \in 0..MaxTime
  BY Types DEF IInv, RecordInv, TypeOK
<1>2. /\ cap' = [cap EXCEPT ![c] = x] /\ cap[c].issued < 0
      /\ UNCHANGED <<now, up, route, revoked, journal, torn, channel, calls, surviving,
                     req, dead, withRoute, raced, faults>>
  BY DEF Mint
<1>3. /\ x \in [issued : -1..MaxTime, expires : 0..(MaxTime + MaxRouteTTL)]
      /\ x.issued = now /\ x.expires = now + CapabilityTTL
  BY <1>1, GatewayConstants
<1> HIDE DEF x
<1>4. cap'[c] = x /\ \A d \in Caps : d # c => cap'[d] = cap[d]
  BY <1>1, <1>2 DEF TypeOK
<1>5. TypeOK'
  BY <1>1, <1>2, <1>3 DEF TypeOK
<1>6. Grows /\ JournalGrows /\ RevokedGrows
  BY <1>1, <1>2, <1>4 DEF Numbers, Grows, JournalGrows, RevokedGrows
<1>7. RecordsWellDated'
  BY <1>1, <1>2, <1>4, Lifetimes DEF RecordInv, RecordsWellDated, WellDated, Numbers
<1>8. CallsWellFormed'
  BY <1>1, <1>2, <1>3, <1>4 DEF RecordInv, CallsWellFormed, Numbers
<1>9. c \notin dead
  BY <1>1, <1>2 DEF RecordInv, DeadIsRecorded, Numbers
<1>10. AppendedIsKept' /\ DeadIsRecorded'
  BY <1>1, <1>2, <1>4, <1>9 DEF RecordInv, AppendedIsKept, DeadIsRecorded, Recorded, Kept, TypeOK
<1>11. RequestsWellFormed' /\ AdmittedBefore'
  BY <1>2, <1>5, <1>6, RequestsStay
<1> QED BY <1>5, <1>7, <1>8, <1>10, <1>11 DEF IInv, RecordInv

LEMMA ChannelKeeps == ASSUME IInv, ChannelOpen \/ ChannelClose PROVE IInv'
<1> DEFINE open == {q \in Requests : req[q].pc = "open"}
<1>1. TypeOK
  BY DEF IInv, RecordInv
<1>2. /\ Reset(open) /\ channel' \in {"no", "yes"}
      /\ UNCHANGED <<now, up, route, revoked, journal, torn, cap, calls, surviving, dead,
                     withRoute, raced, faults>>
  BY DEF ChannelOpen, ChannelClose
<1>3. TypeOK'
  BY <1>1, <1>2, ResetType DEF TypeOK
<1>4. QuietRecords
  BY <1>2 DEF QuietRecords
<1>5. RecordInv'
  BY <1>3, <1>4, QuietRecordsKeep DEF IInv
<1>6. RequestsWellFormed' /\ AdmittedBefore'
  BY <1>2, <1>3, ResetKeeps
<1> QED BY <1>5, <1>6 DEF IInv

LEMMA TickKeeps == ASSUME IInv, Tick PROVE IInv'
<1>1. TypeOK /\ Numbers /\ RecordInv
  BY Types DEF IInv, RecordInv
<1>2. /\ now' = now + 1 /\ now' \in 0..MaxTime
      /\ UNCHANGED <<up, route, revoked, journal, torn, channel, cap, calls, surviving,
                     req, dead, withRoute, raced, faults>>
  BY <1>1, GatewayConstants DEF Tick, TypeOK
<1>3. TypeOK'
  BY <1>1, <1>2 DEF TypeOK
<1>4. Grows
  BY <1>1, <1>2 DEF Numbers, Grows
<1>5. RecordsWellDated' /\ CallsWellFormed'
  BY <1>1, <1>2, Lifetimes, Constants
     DEF RecordInv, RecordsWellDated, WellDated, CallsWellFormed, Numbers, Callers
<1>6. AppendedIsKept' /\ DeadIsRecorded'
  BY <1>1, <1>2, GatewayConstants DEF RecordInv, AppendedIsKept, DeadIsRecorded, Recorded, Kept, Numbers, TypeOK, Keys
<1>7. RequestsWellFormed' /\ AdmittedBefore'
  BY <1>2, <1>3, <1>4, RequestsStay
<1> QED BY <1>3, <1>5, <1>6, <1>7 DEF IInv, RecordInv

LEMMA CrashKeeps == ASSUME IInv, Crash PROVE IInv'
<1>1. TypeOK /\ Numbers /\ RecordInv
  BY Types DEF IInv, RecordInv
<1>2. /\ up' = "no" /\ torn' \in {"no", "yes"} /\ faults' \in 0..MaxFaults /\ channel' = "no"
      /\ revoked' = [k \in Keys |-> Absent] /\ surviving' = [k \in Keys |-> Absent]
      /\ calls' = [o \in Callers |-> Idle] /\ req' = [q \in Requests |-> NoRequest]
      /\ UNCHANGED <<now, journal, cap, dead, withRoute, raced>>
  BY <1>1, GatewayConstants DEF Crash, TypeOK
<1>3. route' \in [Routes -> Route]
  <2>1. \A r \in Routes : Gone(r) \in Route
    BY <1>1, GatewayConstants DEF TypeOK, Gone, Route
  <2> QED BY <2>1 DEF Crash
<1>4. TypeOK'
  BY <1>1, <1>2, <1>3, Constants DEF TypeOK
<1>5. RecordsWellDated' /\ CallsWellFormed'
  BY <1>1, <1>2, Constants
     DEF RecordInv, RecordsWellDated, WellDated, CallsWellFormed, Numbers, Callers, Absent, Holding, TypeOK
<1>6. AppendedIsKept' /\ DeadIsRecorded'
  BY <1>1, <1>2, Constants DEF RecordInv, AppendedIsKept, DeadIsRecorded, Recorded, Kept
<1>7. RequestsWellFormed' /\ AdmittedBefore'
  BY <1>2, Constants DEF RequestsWellFormed, AdmittedBefore
<1> QED BY <1>4, <1>5, <1>6, <1>7 DEF IInv, RecordInv

LEMMA RestartKeeps == ASSUME IInv, Restart PROVE IInv'
<1> USE DEF Restart
<1>1. TypeOK /\ Numbers /\ RecordInv
  BY Types DEF IInv, RecordInv
<1>2. TypeOK'
  BY <1>1 DEF TypeOK
<1>3. Grows
  BY <1>1 DEF Numbers, Grows
<1>4. RecordsWellDated' /\ CallsWellFormed'
  BY <1>1 DEF RecordInv, RecordsWellDated, WellDated, CallsWellFormed
<1>5. AppendedIsKept' /\ DeadIsRecorded'
  BY <1>1 DEF RecordInv, CallsWellFormed, AppendedIsKept, DeadIsRecorded, Recorded, Kept
<1>6. RequestsWellFormed' /\ AdmittedBefore'
  BY <1>2, <1>3, RequestsStay
<1> QED BY <1>2, <1>4, <1>5, <1>6 DEF IInv, RecordInv

-----------------------------------------------------------------------------
(* Theorems *)

LEMMA NextKeeps == IInv /\ [Next]_vars => IInv'
<1> SUFFICES ASSUME IInv, [Next]_vars PROVE IInv'
  OBVIOUS
<1> USE DEF Callers
<1>1. CASE Serve
  BY <1>1, RegisterKeeps, BeginKeeps, ConnectorAnswerKeeps DEF Serve
<1>2. CASE Record
  BY <1>2, BeginKeeps, RemoveKeeps, AppendKeeps, StoreKeeps DEF Record
<1>3. CASE Sweep
  BY <1>3, SweepStepsKeep, ForgetKeeps, CompactKeeps DEF Sweep
<1>4. CASE Proxy
  BY <1>4, ProxyKeeps DEF Proxy
<1>5. CASE Environment
  BY <1>5, MintKeeps, ChannelKeeps, TickKeeps, CrashKeeps, RestartKeeps DEF Environment
<1>6. CASE UNCHANGED vars
  BY <1>6 DEF vars, IInv, RecordInv, TypeOK, RecordsWellDated, WellDated, CallsWellFormed,
     AppendedIsKept, DeadIsRecorded, Recorded, Kept, RequestsWellFormed, AdmittedBefore, Displaced
<1> QED BY <1>1, <1>2, <1>3, <1>4, <1>5, <1>6 DEF Next

(* Whatever the instance, the inductive invariant holds in every reachable state
   of the registry, its journal and the requests on it (internal/registry). *)
THEOREM GatewayInvariance == Spec => []IInv
BY InitEstablishes, NextKeeps, PTL DEF Spec

(* Type correctness of the registry, the journal, the calls and the requests. *)
THEOREM GatewayType == Spec => []TypeOK
<1>1. IInv => TypeOK
  BY DEF IInv, RecordInv
<1> QED BY <1>1, GatewayInvariance, PTL

(* A withdrawal that was answered outlives sweeps, re-registrations, failed
   writes, crashes and restarts until nothing it covers can be presented, unless
   its record was displaced (record, ForgetRevocations, New). *)
THEOREM WithdrawalsAreKept == Spec => []WithdrawalIsKept
<1>1. IInv => WithdrawalIsKept
  <2> SUFFICES ASSUME IInv, NEW c \in dead, up = "yes", now < cap[c].expires
               PROVE  Withdrawn(c) \/ Displaced(c)
    BY DEF WithdrawalIsKept
  <2>1. now \in Int /\ cap[c].expires \in Int
    BY Types DEF IInv, RecordInv, TypeOK, Numbers
  <2> QED BY <2>1, DeadIsWithdrawn DEF IInv
<1> QED BY <1>1, GatewayInvariance, PTL

(* A stream is on a registered route, and one of a capability withdrawn with its
   route only on a registration newer than the one that authorised it (authorise,
   AttachStream, remove). *)
THEOREM WithdrawnCarryNothing == Spec => []NoStreamOnWithdrawnRoute
<1>1. IInv => NoStreamOnWithdrawnRoute
  BY DEF IInv, RequestsWellFormed, AdmittedBefore, NoStreamOnWithdrawnRoute
<1> QED BY <1>1, GatewayInvariance, PTL

-----------------------------------------------------------------------------
(* The counter of active streams *)

(* The streams a route's counter stands for: attached, or reset and not yet
   detached by their handler. *)
Counted(r) == {q \in Requests : req[q].pc \in {"open", "reset"} /\ \A c \in req[q].cap : RouteOf[c] = r}

(* A route that was never registered has no streams, and a registered one was
   registered at least once. *)
CountedIsRegistered ==
  \A r \in Routes : /\ route[r].live = "yes" => route[r].gen # 0
                    /\ route[r].gen = 0 => Counted(r) = {}

CountInv == CountedIsRegistered /\ ActiveCountsStreams

LEMMA CountsAre ==
  ActiveCountsStreams <=>
    \A r \in Routes : route[r].live = "yes" /\ route[r].gen = 1 =>
                      route[r].active = Cardinality(Counted(r))
BY DEF ActiveCountsStreams, Counted

LEMMA CountedFinite == \A r \in Routes : IsFiniteSet(Counted(r)) /\ Counted(r) \subseteq Requests
BY RequestsAssumption, FS_Subset DEF Counted

LEMMA InitCounts == Init => CountInv
BY CountsAre, GatewayConstants DEF Init, CountInv, CountedIsRegistered, Counted, NoRequest

(* A step that leaves every set of counted streams alone keeps the counters when
   it leaves each route alone, unregisters it or counts one more registration.  *)
LEMMA SameStreamsKeep ==
  ASSUME CountInv, \A r \in Routes : Counted(r)' = Counted(r),
         \A r \in Routes :
           \/ route'[r] = route[r]
           \/ route'[r].live = "no" /\ route'[r].gen = route[r].gen
           \/ /\ route'[r].live = "yes" /\ route'[r].gen = route[r].gen + 1
              /\ route'[r].active = 0,
         \A r \in Routes : route[r].gen \in Nat
  PROVE  CountInv'
<1>1. CountedIsRegistered'
  BY DEF CountInv, CountedIsRegistered
<1>2. ASSUME NEW r \in Routes, route'[r].live = "yes", route'[r].gen = 1
      PROVE  route'[r].active = Cardinality(Counted(r)')
  <2>1. CASE route'[r] = route[r]
    BY <1>2, <2>1, CountsAre DEF CountInv
  <2>2. CASE route'[r].gen = route[r].gen + 1 /\ route'[r].active = 0
    <3>1. Counted(r)' = {}
      BY <1>2, <2>2 DEF CountInv, CountedIsRegistered
    <3> QED BY <2>2, <3>1, FS_EmptySet
  <2> QED BY <1>2, <2>1, <2>2
<1>3. ActiveCountsStreams'
  BY <1>2 DEF ActiveCountsStreams, Counted
<1> QED BY <1>1, <1>3 DEF CountInv

(* A reset stream stays counted until its handler detaches it. *)
LEMMA ResetCounts ==
  ASSUME TypeOK, NEW qs, Reset(qs), \A q \in qs \cap Requests : req[q].pc \in {"open", "reset"}
  PROVE  \A r \in Routes : Counted(r)' = Counted(r)
BY ResetType DEF Counted

(* Attaching and detaching move the counter with the set. *)
LEMMA AttachCounts ==
  ASSUME IInv, CountInv, NEW q \in Requests, NEW c \in Caps, RequestAttach(q, c)
  PROVE  CountInv'
<1> DEFINE x == RouteOf[c]
<1>0. /\ x \in Routes /\ TypeOK /\ req[q].cap = {c} /\ req[q].pc = "admitted"
      /\ \A r \in Routes : route[r].gen \in Nat /\ route[r].active \in Int
  BY GatewayConstants DEF IInv, RecordInv, RequestAttach, TypeOK, Route
<1>1. CASE channel = "yes" /\ route[x].live = "yes"
  <2>1. /\ route' = [route EXCEPT ![x].active = @ + 1] /\ req' = [req EXCEPT ![q].pc = "open"]
    BY <1>1 DEF RequestAttach
  <2>2. /\ \A r \in Routes \ {x} : route'[r] = route[r]
        /\ route'[x].live = "yes" /\ route'[x].gen = route[x].gen
        /\ route'[x].active = route[x].active + 1
    BY <1>0, <1>1, <2>1 DEF TypeOK, Route
  <2>3. /\ \A p \in Requests \ {q} : req'[p] = req[p]
        /\ req'[q].pc = "open" /\ req'[q].cap = {c}
    BY <1>0, <2>1 DEF TypeOK, Request
  <2>4. /\ Counted(x)' = Counted(x) \cup {q} /\ q \notin Counted(x)
        /\ \A r \in Routes \ {x} : Counted(r)' = Counted(r)
    BY <1>0, <2>3 DEF Counted
  <2>5. Cardinality(Counted(x)') = Cardinality(Counted(x)) + 1
    <3>1. IsFiniteSet(Counted(x)) /\ q \notin Counted(x)
      BY <1>0, <2>4, CountedFinite
    <3>2. Cardinality(Counted(x) \cup {q}) = Cardinality(Counted(x)) + 1
      BY <3>1, FS_AddElement
    <3> QED BY <2>4, <3>2
  <2>6. CountedIsRegistered'
    BY <1>1, <2>2, <2>4 DEF CountInv, CountedIsRegistered
  <2>7. \A r \in Routes : route'[r].live = "yes" /\ route'[r].gen = 1 =>
                           route'[r].active = Cardinality(Counted(r)')
    BY <1>1, <2>2, <2>4, <2>5, CountsAre DEF CountInv
  <2> QED BY <2>6, <2>7 DEF CountInv, ActiveCountsStreams, Counted
<1>2. CASE ~(channel = "yes" /\ route[x].live = "yes")
  <2>1. req' = [req EXCEPT ![q] = NoRequest] /\ route' = route
    BY <1>2 DEF RequestAttach
  <2>2. \A r \in Routes : Counted(r)' = Counted(r)
    BY <1>0, <2>1 DEF Counted, TypeOK, NoRequest
  <2> QED BY <1>0, <2>1, <2>2, SameStreamsKeep
<1> QED BY <1>1, <1>2

LEMMA DetachCounts ==
  ASSUME IInv, CountInv, NEW q \in Requests, NEW c \in Caps, RequestDetach(q, c)
  PROVE  CountInv'
<1> DEFINE x == RouteOf[c]
<1>0. /\ x \in Routes /\ TypeOK /\ req[q].cap = {c} /\ req[q].pc \in {"open", "reset"}
      /\ \A r \in Routes : route[r].gen \in Nat /\ route[r].active \in Int
      /\ req' = [req EXCEPT ![q] = NoRequest]
  BY GatewayConstants DEF IInv, RecordInv, RequestDetach, TypeOK, Route
<1>1. /\ \A p \in Requests \ {q} : req'[p] = req[p]
      /\ req'[q].pc = "idle"
  BY <1>0 DEF TypeOK, NoRequest
<1>2. /\ Counted(x)' = Counted(x) \ {q} /\ q \in Counted(x)
      /\ \A r \in Routes \ {x} : Counted(r)' = Counted(r)
  BY <1>0, <1>1 DEF Counted
<1>3. /\ \A r \in Routes \ {x} : route'[r] = route[r]
      /\ route'[x].live = route[x].live /\ route'[x].gen = route[x].gen
      /\ route[x].live = "yes" => route'[x].active = route[x].active - 1
  BY <1>0 DEF RequestDetach, TypeOK, Route
<1>4. Cardinality(Counted(x)') = Cardinality(Counted(x)) - 1
  <2>1. IsFiniteSet(Counted(x))
    BY <1>0, CountedFinite
  <2>2. Cardinality(Counted(x) \ {q}) = Cardinality(Counted(x)) - 1
    BY <1>2, <2>1, FS_RemoveElement
  <2> QED BY <1>2, <2>2
<1>5. CountedIsRegistered'
  BY <1>2, <1>3 DEF CountInv, CountedIsRegistered
<1>6. ASSUME NEW r \in Routes, route'[r].live = "yes", route'[r].gen = 1
      PROVE  route'[r].active = Cardinality(Counted(r)')
  <2>1. CASE r = x
    <3>1. route[x].active = Cardinality(Counted(x))
      BY <1>3, <1>6, <2>1, CountsAre DEF CountInv
    <3> QED BY <1>3, <1>4, <1>6, <2>1, <3>1
  <2>2. CASE r # x
    BY <1>2, <1>3, <1>6, <2>2, CountsAre DEF CountInv
  <2> QED BY <2>1, <2>2
<1> QED BY <1>5, <1>6 DEF CountInv, ActiveCountsStreams, Counted

LEMMA NextCounts == IInv /\ CountInv /\ [Next]_vars => CountInv'
<1> SUFFICES ASSUME IInv, CountInv, [Next]_vars PROVE CountInv'
  OBVIOUS
<1>0. /\ TypeOK /\ \A r \in Routes : route[r].gen \in Nat
  BY GatewayConstants DEF IInv, RecordInv, TypeOK, Route
<1>1. ASSUME route' = route, req' = req PROVE CountInv'
  BY <1>0, <1>1, SameStreamsKeep DEF Counted
<1>2. ASSUME NEW r \in Routes, NEW e, Register(r, e) PROVE CountInv'
  <2>1. /\ \A x \in Routes \ {r} : route'[x] = route[x]
        /\ route'[r].live = "yes" /\ route'[r].gen = route[r].gen + 1 /\ route'[r].active = 0
    BY <1>0, <1>2 DEF Register, TypeOK
  <2>2. \A x \in Routes : Counted(x)' = Counted(x)
    BY <1>2 DEF Register, Counted
  <2> QED BY <1>0, <2>1, <2>2, SameStreamsKeep
<1>3. ASSUME NEW o \in Callers, NEW r \in Routes, RemoveRoute(o, r) PROVE CountInv'
  <2>1. \A x \in Routes : Counted(x)' = Counted(x)
    BY <1>0, <1>3, ResetCounts DEF RemoveRoute, Attached
  <2>2. /\ \A x \in Routes \ {r} : route'[x] = route[x]
        /\ route'[r].live = "no" /\ route'[r].gen = route[r].gen
    BY <1>0, <1>3 DEF RemoveRoute, Gone, TypeOK
  <2> QED BY <1>0, <2>1, <2>2, SameStreamsKeep
<1>4. ASSUME NEW qs, Reset(qs), qs \subseteq {q \in Requests : req[q].pc = "open"}, route' = route
      PROVE  CountInv'
  <2>1. \A x \in Routes : Counted(x)' = Counted(x)
    BY <1>0, <1>4, ResetCounts
  <2> QED BY <1>0, <1>4, <2>1, SameStreamsKeep
<1>5. ASSUME NEW o \in Callers, ConnectorAnswer(o) PROVE CountInv'
  BY <1>4, <1>5 DEF ConnectorAnswer
<1>6. CASE SweepDeadlines
  BY <1>4, <1>6 DEF SweepDeadlines
<1>7. CASE ChannelOpen \/ ChannelClose
  BY <1>4, <1>7 DEF ChannelOpen, ChannelClose
<1>8. ASSUME NEW q \in Requests, NEW c \in Caps, RequestLookup(q, c) \/ RequestAdmit(q, c)
      PROVE  CountInv'
  <2>1. \A p \in Requests \ {q} : req'[p] = req[p]
    BY <1>0, <1>8 DEF RequestLookup, RequestAdmit, TypeOK
  <2>2. req[q].pc \in {"idle", "looked"} /\ req'[q].pc \in {"idle", "looked", "admitted"}
    BY <1>0, <1>8 DEF RequestLookup, RequestAdmit, TypeOK, NoRequest, Request
  <2>3. \A x \in Routes : Counted(x)' = Counted(x)
    BY <2>1, <2>2 DEF Counted
  <2>4. route' = route
    BY <1>8 DEF RequestLookup, RequestAdmit
  <2> QED BY <1>0, <2>3, <2>4, SameStreamsKeep
<1>9. CASE Crash
  <2>1. \A r \in Routes : route'[r].live = "no" /\ route'[r].gen = route[r].gen
    BY <1>9 DEF Crash, Gone
  <2>2. \A r \in Routes : Counted(r)' = {}
    BY <1>9 DEF Crash, Counted, NoRequest
  <2> QED BY <2>1, <2>2 DEF CountInv, CountedIsRegistered, ActiveCountsStreams
<1>10. CASE Serve
  <2>1. CASE \E r \in Routes, e \in 1..(MaxTime + MaxRouteTTL) : Register(r, e)
    BY <1>2, <2>1
  <2>2. CASE \E o \in Admins : ConnectorAnswer(o)
    BY <1>5, <2>2 DEF Callers
  <2>3. CASE \E o \in Admins : \/ \E r \in Routes : BeginRevokeRoute(o, r)
                               \/ \E c \in Caps : BeginRevokeCapability(o, c)
                               \/ BeginRevokeConnector(o)
    <3>1. route' = route /\ req' = req
      BY <2>3 DEF BeginRevokeRoute, BeginRevokeCapability, BeginRevokeConnector
    <3> QED BY <1>1, <3>1
  <2> QED BY <1>10, <2>1, <2>2, <2>3 DEF Serve
<1>11. CASE Record
  <2>1. \/ \E o \in Callers, r \in Routes : RemoveRoute(o, r)
        \/ \E o \in Callers, r \in Routes : RevokeRead(o, r)
        \/ \E o \in Callers, k \in Keys :
             \/ JournalAppend(o, k) \/ RecordStore(o, k)
             \/ \E how \in {"nothing", "part", "all"} : JournalFail(o, k, how)
    BY <1>11 DEF Record
  <2>2. CASE \E o \in Callers, r \in Routes : RemoveRoute(o, r)
    BY <1>3, <2>2
  <2>3. CASE route' = route /\ req' = req
    BY <1>1, <2>3
  <2> QED BY <2>1, <2>2, <2>3 DEF RevokeRead, JournalAppend, RecordStore, JournalFail
<1>12. CASE Sweep
  BY <1>1, <1>6, <1>12 DEF Sweep, SweepBegin, SweepForget, SweepCompact, SweepCompactFail
<1>13. CASE Proxy
  BY <1>8, <1>13, AttachCounts, DetachCounts DEF Proxy
<1>14. CASE Environment
  BY <1>1, <1>7, <1>9, <1>14 DEF Environment, Mint, Tick, Restart
<1>15. CASE UNCHANGED vars
  BY <1>1, <1>15 DEF vars
<1> QED BY <1>10, <1>11, <1>12, <1>13, <1>14, <1>15 DEF Next

(* As long as a route has been registered once, the counter that bounds its
   streams is the number of those attached or not yet detached, whatever is reset,
   withdrawn or lost meanwhile (AttachStream, DetachStream, remove). *)
THEOREM CounterIsHonest == Spec => []ActiveCountsStreams
<1>1. CountInv => ActiveCountsStreams
  BY DEF CountInv
<1> QED BY <1>1, InitCounts, NextCounts, GatewayInvariance, PTL DEF Spec
===============================================================================
