---------------------------- MODULE GatewayRegistry ----------------------------
(***************************************************************************)
(* The tunnel gateway: the routes it carries, the withdrawals it has       *)
(* recorded and their journal (internal/registry), the admin calls and the *)
(* sweep that change them, and the proxied requests that read them         *)
(* (internal/gatewayhttp).                                                 *)
(*                                                                         *)
(* A call is a sequence of steps, one for each time it takes the registry  *)
(* lock or the journal's own mutex; everything between two of them may     *)
(* happen to it.  Time is counted in seconds, the unit Withdrawn compares, *)
(* so two steps at the same instant have no order.  The file is what Load  *)
(* makes of it: for every key the last line that decodes, and whether the  *)
(* last line was cut off.  All routes belong to one connector.             *)
(***************************************************************************)
EXTENDS Integers, FiniteSets

CONSTANTS
  Routes,           \* route identifiers
  Caps,             \* capability identifiers
  RouteOf,          \* the route_id claim of a capability
  AliasOf,          \* the public alias a route registers
  Requests,         \* proxied requests in progress
  Admins,           \* admin calls in progress
  Sweeper,          \* the goroutine of Run
  MaxRouteTTL,      \* registry.Config.MaxRouteTTL
  CapabilityTTL,    \* how long the control plane lets a capability live
  MaxRoutes,        \* registry.Config.MaxRoutesPerConnector
  MaxStreams,       \* ProxyConfig.MaxStreamsPerRoute
  MaxTime,          \* bound on the clock
  MaxRegistrations, \* bound on how often a route is registered
  MaxFaults         \* bound on crashes and failed writes

\* The gateway keeps a withdrawal MaxRouteTTL long and relies on the control
\* plane to mint nothing that lives longer (routeRevocationNotAfter).
ASSUME GatewayConstants ==
  /\ RouteOf \in [Caps -> Routes]
  /\ Routes \cap Caps = {}
  /\ Sweeper \notin Admins
  /\ MaxRouteTTL \in Nat \ {0} /\ CapabilityTTL \in 1..MaxRouteTTL
  /\ MaxRoutes \in Nat \ {0} /\ MaxStreams \in Nat \ {0} /\ MaxTime \in Nat
  /\ MaxRegistrations \in Nat /\ MaxFaults \in Nat

\* A process has finitely many requests in progress.
ASSUME RequestsAssumption == IsFiniteSet(Requests)

VARIABLES
  now,       \* the clock
  up,        \* whether the gateway process runs
  route,     \* byID, byAlias and a route's counter of active streams
  revoked,   \* the withdrawal set in memory
  journal,   \* the withdrawal set Load would read from the file
  torn,      \* whether the file ends in the middle of a line
  channel,   \* whether the connector has a live data channel
  cap,       \* the capabilities the control plane has minted
  calls,     \* admin calls and the sweep in progress
  surviving, \* the entries ForgetRevocations is about to write
  req,       \* proxied requests in progress
  dead,      \* history: capabilities withdrawn by a call that was answered
  withRoute, \* history: those of them withdrawn with their route
  raced,     \* history: keys whose record a race or a torn line displaced
  faults     \* how many faults there were

vars == <<now, up, route, revoked, journal, torn, channel, cap, calls,
          surviving, req, dead, withRoute, raced, faults>>

Keys == Routes \cup Caps
Callers == Admins \cup {Sweeper}

\* A Revocation: RevokedAt and NotAfter.
Absent == [at |-> -1, until |-> -1]
Entry == [at : -1..MaxTime, until : -1..(MaxTime + MaxRouteTTL)]
Route == [live : {"no", "yes"}, gen : 0..MaxRegistrations,
          expires : 0..(MaxTime + MaxRouteTTL), active : Int]
Idle == [pc |-> "idle", kind |-> "none", todo |-> {}, key |-> {}, entry |-> Absent,
         since |-> 0]
\* todo: the routes a call still has to revoke; key: the one subject at hand;
\* since: when the sweep began.
Call == [pc : {"idle", "next", "append", "store", "remove", "forget",
               "compact"},
         kind : {"none", "route", "connector", "capability", "sweep"},
         todo : SUBSET Routes, key : SUBSET Keys, entry : Entry,
         since : 0..MaxTime]
NoRequest == [pc |-> "idle", cap |-> {}, gen |-> 0, deadline |-> 0]
Request == [pc : {"idle", "looked", "admitted", "open", "reset"},
            cap : SUBSET Caps, gen : 0..MaxRegistrations,
            deadline : 0..(MaxTime + MaxRouteTTL)]

TypeOK ==
  /\ now \in 0..MaxTime
  /\ up \in {"no", "yes"} /\ torn \in {"no", "yes"} /\ channel \in {"no", "yes"}
  /\ route \in [Routes -> Route]
  /\ revoked \in [Keys -> Entry] /\ journal \in [Keys -> Entry]
  /\ surviving \in [Keys -> Entry]
  /\ cap \in [Caps -> [issued : -1..MaxTime, expires : 0..(MaxTime + MaxRouteTTL)]]
  /\ calls \in [Callers -> Call]
  /\ req \in [Requests -> Request]
  /\ dead \subseteq Caps /\ withRoute \subseteq dead /\ raced \subseteq Keys
  /\ faults \in 0..MaxFaults

\* A route that is not registered; its registrations are still counted.
Gone(r) == [live |-> "no", gen |-> route[r].gen, expires |-> 0, active |-> 0]

Init ==
  /\ now = 0 /\ up = "yes" /\ torn = "no" /\ channel = "no"
  /\ route = [r \in Routes |-> [live |-> "no", gen |-> 0, expires |-> 0, active |-> 0]]
  /\ revoked = [k \in Keys |-> Absent] /\ journal = [k \in Keys |-> Absent]
  /\ surviving = [k \in Keys |-> Absent]
  /\ cap = [c \in Caps |-> [issued |-> -1, expires |-> 0]]
  /\ calls = [o \in Callers |-> Idle]
  /\ req = [q \in Requests |-> NoRequest]
  /\ dead = {} /\ withRoute = {} /\ raced = {} /\ faults = 0

-----------------------------------------------------------------------------
(* Helpers *)

\* Withdrawn: by its own identity, or with the route it was minted for.
Withdrawn(c) ==
  \/ revoked[c].at >= 0
  \/ cap[c].issued <= revoked[RouteOf[c]].at

\* Mutant: the record is kept as long as the route would have lived.
RouteLifeNotAfter(expiresAt, revokedAt) == expiresAt

\* routeRevocationNotAfter.
RouteRevocationNotAfter(expiresAt, revokedAt) ==
  IF expiresAt > revokedAt + MaxRouteTTL THEN expiresAt ELSE revokedAt + MaxRouteTTL

\* The capabilities a route's withdrawal at this instant covers.
Covered(r, at) == {c \in Caps : RouteOf[c] = r /\ cap[c].issued \in 0..at}

\* The requests whose streams the registry holds for a route.
Attached(r) == {q \in Requests : req[q].pc = "open" /\ \A c \in req[q].cap : RouteOf[c] = r}

\* The streams of these requests are reset; their handlers notice later, and only
\* look at the route's identifier then.
Reset(qs) == req' = [q \in Requests |->
                       IF q \in qs THEN [NoRequest EXCEPT !.pc = "reset", !.cap = req[q].cap]
                       ELSE req[q]]

SetCall(o, c) == calls' = [calls EXCEPT ![o] = c]
SetPc(o, pc) == SetCall(o, [calls[o] EXCEPT !.pc = pc])
Caller(o, pc) == up = "yes" /\ calls[o].pc = pc

\* What happens when a call is through with one subject: RevokeConnector and
\* ExpireDue go on with the next one, the others answer.
Continue(o) ==
  IF calls[o].kind \in {"connector", "sweep"} THEN "next" ELSE "idle"
Proceed(o) ==
  SetCall(o, IF Continue(o) = "idle" THEN Idle
             ELSE [calls[o] EXCEPT !.pc = "next", !.key = {}, !.entry = Absent])

-----------------------------------------------------------------------------
(* Registration *)

\* Register: validate, then an identifier or an alias already taken is refused.
\* (validate counts the connector's routes before the lock is taken again, so
\* registrations in parallel may pass the limit by one another.)
Register(r, expires) ==
  /\ up = "yes"
  /\ route[r].gen < MaxRegistrations
  /\ expires > now /\ expires <= now + MaxRouteTTL
  /\ Cardinality({x \in Routes : route[x].live = "yes"}) < MaxRoutes
  /\ \A x \in Routes : route[x].live = "yes" => AliasOf[x] # AliasOf[r]
  /\ route' = [route EXCEPT ![r] = [live |-> "yes", gen |-> @.gen + 1,
                                    expires |-> expires, active |-> 0]]
  /\ UNCHANGED <<now, up, revoked, journal, torn, channel, cap, calls, surviving, req,
                 dead, withRoute, raced, faults>>

\* The control plane mints a capability for a route (published-services mint).
Mint(c) ==
  /\ cap[c].issued < 0
  /\ cap' = [cap EXCEPT ![c] = [issued |-> now, expires |-> now + CapabilityTTL]]
  /\ UNCHANGED <<now, up, route, revoked, journal, torn, channel, calls, surviving,
                 req, dead, withRoute, raced, faults>>

-----------------------------------------------------------------------------
(* Withdrawal *)

\* RevokeIn knows the route and dates the record.
Dated(c, r) ==
  [c EXCEPT !.pc = "append", !.todo = @ \ {r}, !.key = {r},
            !.entry = [at |-> now,
                       until |-> RouteRevocationNotAfter(route[r].expires, now)]]

\* The admin handler revokeRoute begins; a route that is not there is answered
\* as absent.
BeginRevokeRoute(o, r) ==
  /\ Caller(o, "idle") /\ route[r].live = "yes"
  /\ SetCall(o, Dated([Idle EXCEPT !.kind = "route"], r))
  /\ UNCHANGED <<now, up, route, revoked, journal, torn, channel, cap, surviving, req,
                 dead, withRoute, raced, faults>>

\* The admin handler revokeConnector begins: RevokeConnector lists the routes.
BeginRevokeConnector(o) ==
  /\ Caller(o, "idle")
  /\ SetCall(o, [Idle EXCEPT !.pc = "next", !.kind = "connector",
                             !.todo = {r \in Routes : route[r].live = "yes"}])
  /\ UNCHANGED <<now, up, route, revoked, journal, torn, channel, cap, surviving, req,
                 dead, withRoute, raced, faults>>

\* The admin handler revokeCapability, up to the record.
BeginRevokeCapability(o, c) ==
  /\ Caller(o, "idle")
  /\ cap[c].issued >= 0
  /\ SetCall(o, [Idle EXCEPT !.pc = "append", !.kind = "capability", !.key = {c},
                             !.entry = [at |-> now, until |-> now + MaxRouteTTL]])
  /\ UNCHANGED <<now, up, route, revoked, journal, torn, channel, cap, surviving, req,
                 dead, withRoute, raced, faults>>

\* RevokeConnector and ExpireDue turn to the next route; one that is gone is
\* passed over.
RevokeRead(o, r) ==
  /\ Caller(o, "next") /\ r \in calls[o].todo
  /\ SetCall(o, IF route[r].live = "yes" THEN Dated(calls[o], r)
                ELSE [calls[o] EXCEPT !.todo = @ \ {r}])
  /\ UNCHANGED <<now, up, route, revoked, journal, torn, channel, cap, surviving, req,
                 dead, withRoute, raced, faults>>

\* journal.Append succeeds.  After a line that was cut off the new one continues
\* it, and Load skips both.
JournalAppend(o, k) ==
  /\ Caller(o, "append") /\ calls[o].key = {k}
  /\ journal' = IF torn = "yes" THEN journal ELSE [journal EXCEPT ![k] = calls[o].entry]
  /\ torn' = "no"
  /\ raced' = IF torn = "yes" \/ journal[k].at > calls[o].entry.at
              THEN raced \cup {k} ELSE raced
  /\ SetPc(o, "store")
  /\ UNCHANGED <<now, up, route, revoked, channel, cap, surviving, req, dead,
                 withRoute, faults>>

\* journal.Append fails before, in or after the write; the revocation is refused.
\* The expiry sweep goes on to the next route, RevokeConnector stops.
JournalFail(o, k, how) ==
  /\ Caller(o, "append") /\ calls[o].key = {k}
  /\ faults < MaxFaults /\ faults' = faults + 1
  /\ \/ how = "nothing" /\ UNCHANGED <<journal, torn, raced>>
     \/ how = "part" /\ torn' = "yes" /\ UNCHANGED <<journal, raced>>
     \/ /\ how = "all" /\ torn = "no"
        /\ journal' = [journal EXCEPT ![k] = calls[o].entry]
        /\ raced' = IF journal[k].at > calls[o].entry.at THEN raced \cup {k} ELSE raced
        /\ UNCHANGED torn
  /\ SetCall(o, IF calls[o].kind = "sweep"
                THEN [calls[o] EXCEPT !.pc = "next", !.key = {}, !.entry = Absent]
                ELSE Idle)
  /\ UNCHANGED <<now, up, route, revoked, channel, cap, surviving, req, dead,
                 withRoute>>

\* record, second half: the entry becomes visible.  A capability's withdrawal is
\* complete here.
RecordStore(o, k) ==
  /\ Caller(o, "store") /\ calls[o].key = {k}
  /\ revoked' = [revoked EXCEPT ![k] = calls[o].entry]
  /\ raced' = IF revoked[k].at > calls[o].entry.at THEN raced \cup {k} ELSE raced
  /\ IF k \in Caps
     THEN /\ dead' = dead \cup {k}
          /\ SetCall(o, Idle)
     ELSE /\ SetPc(o, "remove")
          /\ UNCHANGED dead
  /\ UNCHANGED <<now, up, route, journal, torn, channel, cap, surviving, req,
                 withRoute, faults>>

\* Mutant: remove forgets the streams of the route without ending them.
RemoveKeepsStreams(o, r) ==
  /\ Caller(o, "remove") /\ calls[o].key = {r}
  /\ route' = [route EXCEPT ![r] = Gone(r)]
  /\ dead' = dead \cup Covered(r, calls[o].entry.at)
  /\ withRoute' = withRoute \cup Covered(r, calls[o].entry.at)
  /\ Proceed(o)
  /\ UNCHANGED <<now, up, revoked, journal, torn, channel, cap, surviving, req, raced,
                 faults>>

\* remove and the terminators: the route goes and its streams are reset, whoever
\* registered it since.  The withdrawal covers what was issued up to its date.
RemoveRoute(o, r) ==
  /\ Caller(o, "remove") /\ calls[o].key = {r}
  /\ route' = [route EXCEPT ![r] = Gone(r)]
  /\ Reset(Attached(r))
  /\ dead' = dead \cup Covered(r, calls[o].entry.at)
  /\ withRoute' = withRoute \cup Covered(r, calls[o].entry.at)
  /\ Proceed(o)
  /\ UNCHANGED <<now, up, revoked, journal, torn, channel, cap, surviving, raced,
                 faults>>

\* revokeConnector closes the data channel, which resets every stream on it, and
\* answers.
ConnectorAnswer(o) ==
  /\ Caller(o, "next") /\ calls[o].todo = {} /\ calls[o].kind = "connector"
  /\ channel' = "no"
  /\ Reset({q \in Requests : req[q].pc = "open"})
  /\ SetCall(o, Idle)
  /\ UNCHANGED <<now, up, route, revoked, journal, torn, cap, surviving, dead,
                 withRoute, raced, faults>>

-----------------------------------------------------------------------------
(* The sweep *)

\* Sweep begins: ExpireDue collects the routes that are due.
SweepBegin ==
  /\ Caller(Sweeper, "idle")
  /\ LET due == {r \in Routes : route[r].live = "yes" /\ now >= route[r].expires}
     IN  SetCall(Sweeper, [Idle EXCEPT !.pc = "next", !.kind = "sweep", !.todo = due,
                                       !.since = now])
  /\ UNCHANGED <<now, up, route, revoked, journal, torn, channel, cap, surviving, req,
                 dead, withRoute, raced, faults>>

\* EnforceDeadlines: streams past the earlier of their lifetime and the route's.
SweepDeadlines ==
  /\ Caller(Sweeper, "next") /\ calls[Sweeper].todo = {}
  /\ Reset({q \in Requests : req[q].pc = "open" /\ calls[Sweeper].since >= req[q].deadline})
  /\ SetPc(Sweeper, "forget")
  /\ UNCHANGED <<now, up, route, revoked, journal, torn, channel, cap, surviving,
                 dead, withRoute, raced, faults>>

\* The entries ForgetRevocations drops: nothing can still present them.
Forgettable(instant) == {k \in Keys : revoked[k].at >= 0 /\ revoked[k].until <= instant}

\* ForgetRevocations, under the lock: drop them and keep a list of the rest.
SweepForget ==
  /\ Caller(Sweeper, "forget")
  /\ LET dropped == Forgettable(calls[Sweeper].since)
         kept == [k \in Keys |-> IF k \in dropped THEN Absent ELSE revoked[k]]
     IN  /\ revoked' = kept
         /\ IF dropped = {}
            THEN SetCall(Sweeper, Idle) /\ UNCHANGED surviving
            ELSE SetPc(Sweeper, "compact") /\ surviving' = kept
  /\ UNCHANGED <<now, up, route, journal, torn, channel, cap, req, dead, withRoute,
                 raced, faults>>

\* journal.Compact: the file now holds exactly the list taken under the lock.
SweepCompact ==
  /\ Caller(Sweeper, "compact")
  /\ journal' = surviving
  /\ torn' = "no"
  /\ raced' = raced \cup {k \in Keys : /\ journal[k].until > calls[Sweeper].since
                                     /\ journal[k] # surviving[k]}
  /\ surviving' = [k \in Keys |-> Absent]
  /\ SetCall(Sweeper, Idle)
  /\ UNCHANGED <<now, up, route, revoked, channel, cap, req, dead, withRoute, faults>>

\* A compaction that fails leaves the file alone.
SweepCompactFail ==
  /\ Caller(Sweeper, "compact")
  /\ faults < MaxFaults /\ faults' = faults + 1
  /\ surviving' = [k \in Keys |-> Absent]
  /\ SetCall(Sweeper, Idle)
  /\ UNCHANGED <<now, up, route, revoked, journal, torn, channel, cap, req, dead,
                 withRoute, raced>>

-----------------------------------------------------------------------------
(* Proxied requests *)

\* authorise, to the route: the capability has not expired, and the origin's
\* alias names a live route, the one the capability is for.
RequestLookup(q, c) ==
  /\ up = "yes" /\ req[q].pc = "idle"
  /\ cap[c].issued >= 0 /\ now < cap[c].expires
  /\ route[RouteOf[c]].live = "yes" /\ now < route[RouteOf[c]].expires
  /\ req' = [req EXCEPT ![q] = [pc |-> "looked", cap |-> {c}, gen |-> route[RouteOf[c]].gen,
                                deadline |-> route[RouteOf[c]].expires]]
  /\ UNCHANGED <<now, up, route, revoked, journal, torn, channel, cap, calls,
                 surviving, dead, withRoute, raced, faults>>

\* authorise, from the withdrawal set on: the connector's channel and the bound
\* on the route's streams.
Admissible(c) ==
  ~Withdrawn(c) /\ channel = "yes" /\ route[RouteOf[c]].active < MaxStreams

RequestAdmit(q, c) ==
  /\ up = "yes" /\ req[q].pc = "looked" /\ req[q].cap = {c}
  /\ req' = [req EXCEPT ![q] = IF Admissible(c) THEN [@ EXCEPT !.pc = "admitted"]
                               ELSE NoRequest]
  /\ UNCHANGED <<now, up, route, revoked, journal, torn, channel, cap, calls,
                 surviving, dead, withRoute, raced, faults>>

\* forward: open a stream on the channel and attach it to the route by its
\* identifier, whichever registration holds that now.
RequestAttach(q, c) ==
  /\ up = "yes" /\ req[q].pc = "admitted" /\ req[q].cap = {c}
  /\ LET r == RouteOf[c] IN
     IF channel = "yes" /\ route[r].live = "yes"
     THEN /\ route' = [route EXCEPT ![r].active = @ + 1]
          /\ req' = [req EXCEPT ![q].pc = "open"]
     ELSE /\ req' = [req EXCEPT ![q] = NoRequest]
          /\ UNCHANGED route
  /\ UNCHANGED <<now, up, revoked, journal, torn, channel, cap, calls, surviving,
                 dead, withRoute, raced, faults>>

\* Mutant: a stream that was reset never gives its slot back.
DetachOnlyWhenOpen(q, c) ==
  /\ up = "yes" /\ req[q].pc \in {"open", "reset"} /\ req[q].cap = {c}
  /\ route' = IF req[q].pc = "open" /\ route[RouteOf[c]].live = "yes"
              THEN [route EXCEPT ![RouteOf[c]].active = @ - 1] ELSE route
  /\ req' = [req EXCEPT ![q] = NoRequest]
  /\ UNCHANGED <<now, up, revoked, journal, torn, channel, cap, calls, surviving,
                 dead, withRoute, raced, faults>>

\* The exchange ends and DetachStream counts it down, by route identifier.
RequestDetach(q, c) ==
  /\ up = "yes" /\ req[q].pc \in {"open", "reset"} /\ req[q].cap = {c}
  /\ route' = IF route[RouteOf[c]].live = "yes"
              THEN [route EXCEPT ![RouteOf[c]].active = @ - 1] ELSE route
  /\ req' = [req EXCEPT ![q] = NoRequest]
  /\ UNCHANGED <<now, up, revoked, journal, torn, channel, cap, calls, surviving,
                 dead, withRoute, raced, faults>>

-----------------------------------------------------------------------------
(* The data channel, the clock and the process *)

\* ConnectorHandler and Channels.Put: a new channel replaces the one there is.
ChannelOpen ==
  /\ up = "yes"
  /\ channel' = "yes"
  /\ Reset({q \in Requests : req[q].pc = "open"})
  /\ UNCHANGED <<now, up, route, revoked, journal, torn, cap, calls, surviving, dead,
                 withRoute, raced, faults>>

\* The session is done: Channels.Remove, and every stream on it is reset.
ChannelClose ==
  /\ up = "yes" /\ channel = "yes"
  /\ channel' = "no"
  /\ Reset({q \in Requests : req[q].pc = "open"})
  /\ UNCHANGED <<now, up, route, revoked, journal, torn, cap, calls, surviving, dead,
                 withRoute, raced, faults>>

Tick ==
  /\ now < MaxTime /\ now' = now + 1
  /\ UNCHANGED <<up, route, revoked, journal, torn, channel, cap, calls, surviving,
                 req, dead, withRoute, raced, faults>>

\* The process dies, perhaps in the middle of a write to the journal.
Crash ==
  /\ up = "yes" /\ faults < MaxFaults /\ faults' = faults + 1
  /\ up' = "no"
  /\ \/ UNCHANGED torn
     \/ torn' = "yes" /\ \E o \in Callers : calls[o].pc = "append"
  /\ route' = [r \in Routes |-> Gone(r)]
  /\ revoked' = [k \in Keys |-> Absent] /\ surviving' = [k \in Keys |-> Absent]
  /\ channel' = "no"
  /\ calls' = [o \in Callers |-> Idle] /\ req' = [q \in Requests |-> NoRequest]
  /\ UNCHANGED <<now, journal, cap, dead, withRoute, raced>>

\* New: the withdrawal set is what the journal holds, and nothing else survives.
Restart ==
  /\ up = "no" /\ up' = "yes"
  /\ revoked' = journal
  /\ UNCHANGED <<now, route, journal, torn, channel, cap, calls, surviving, req, dead,
                 withRoute, raced, faults>>

-----------------------------------------------------------------------------
Serve ==
  \/ \E r \in Routes, e \in 1..(MaxTime + MaxRouteTTL) : Register(r, e)
  \/ \E o \in Admins :
       \/ \E r \in Routes : BeginRevokeRoute(o, r)
       \/ \E c \in Caps : BeginRevokeCapability(o, c)
       \/ BeginRevokeConnector(o)
       \/ ConnectorAnswer(o)

Record ==
  \E o \in Callers :
    \/ \E r \in Routes : RevokeRead(o, r) \/ RemoveRoute(o, r)
    \/ \E k \in Keys :
         \/ JournalAppend(o, k)
         \/ RecordStore(o, k)
         \/ \E how \in {"nothing", "part", "all"} : JournalFail(o, k, how)

Sweep ==
  \/ SweepBegin \/ SweepDeadlines \/ SweepForget \/ SweepCompact \/ SweepCompactFail

Proxy ==
  \E q \in Requests, c \in Caps :
    \/ RequestLookup(q, c) \/ RequestAdmit(q, c) \/ RequestAttach(q, c)
    \/ RequestDetach(q, c)

Environment ==
  \/ \E c \in Caps : Mint(c)
  \/ ChannelOpen \/ ChannelClose \/ Tick \/ Crash \/ Restart

Next == Serve \/ Record \/ Sweep \/ Proxy \/ Environment

Spec == Init /\ [][Next]_vars
-----------------------------------------------------------------------------
(* Properties *)

\* Whose record was displaced: by a compaction or a torn line that lost it, or
\* by an older record of the same route written over it.
Displaced(c) == c \in raced \/ RouteOf[c] \in raced

\* A capability whose withdrawal was answered is refused for as long as it could
\* be presented, through sweeps, re-registrations, failed writes, crashes and
\* restarts, unless its record was displaced (record, ForgetRevocations, New).
WithdrawalIsKept ==
  \A c \in dead : up = "yes" /\ now < cap[c].expires => Withdrawn(c) \/ Displaced(c)

\* A withdrawn route carries nothing: a stream the gateway holds belongs to a
\* registered route, and a stream of a capability withdrawn with its route runs
\* only on a registration newer than the one that authorised it (authorise asks
\* before AttachStream attaches; remove ends what was attached by then).
NoStreamOnWithdrawnRoute ==
  \A q \in Requests : \A c \in req[q].cap :
    req[q].pc = "open" =>
      /\ route[RouteOf[c]].live = "yes"
      /\ c \in withRoute => \/ req[q].gen < route[RouteOf[c]].gen
                              \/ Displaced(c)
                              \/ now >= cap[c].expires

\* The counter the per-route stream bound reads is the number of streams there
\* are, plus those whose handler has not detached yet, as long as the route has
\* been registered once.  (DetachStream counts by identifier: a handler that is
\* late after a re-registration counts the new route down.)
ActiveCountsStreams ==
  \A r \in Routes :
    route[r].live = "yes" /\ route[r].gen = 1 =>
      route[r].active = Cardinality({q \in Requests :
        req[q].pc \in {"open", "reset"} /\ \A c \in req[q].cap : RouteOf[c] = r})
=============================================================================
