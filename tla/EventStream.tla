----------------------------- MODULE EventStream -----------------------------
(***************************************************************************)
(* One project's event stream from commit to screen: appendEvent's         *)
(* sequence and outbox row, the outbox dispatcher of each control-plane    *)
(* process (events/outbox.ts), the socket handler that joins replay to     *)
(* live delivery (events/routes.ts, events/stream.ts), and the resuming    *)
(* web client (apps/web/src/live/events.ts).                               *)
(*                                                                         *)
(* An event is its sequence number.  A database read and the continuation  *)
(* that uses its result are two steps, as they are in the code: `await`    *)
(* lets commits and deliveries run between them.                           *)
(***************************************************************************)
EXTENDS Integers, FiniteSets, Sequences, SequencesExt

CONSTANTS
  Procs,         \* control-plane processes, one dispatcher and one bus each
  Clients,       \* web clients of this project's stream
  NoProc,        \* where a client without a socket is
  MaxSeq,        \* bound on the events committed
  MaxReplay,     \* MAX_REPLAY_EVENTS
  MaxBuffer,     \* MAX_LIVE_BUFFER
  BatchSize,     \* BATCH_SIZE of a claim
  MaxFaults,     \* how often a process may die or a dispatcher's read fail
  MaxDrops,      \* how often a socket may be lost
  MaxDeletes     \* how often the operator deletes the oldest event

ASSUME StreamConstants ==
  /\ {MaxSeq, MaxReplay, MaxBuffer, BatchSize, MaxFaults, MaxDrops, MaxDeletes} \subseteq Nat
  /\ MaxSeq > 0 /\ BatchSize > 0
  /\ NoProc \notin Procs

VARIABLES
  committed,  \* event_streams.last_sequence: events 1..committed are stored
  earliest,   \* least sequence still in `events`
  pending,    \* outbox rows with dispatched_at null
  claimed,    \* per process: rows claimed, not yet handed to the bus
  sub,        \* per client: the server's side of its socket
  wire,       \* per client: messages sent on the socket, not yet received
  client,     \* per client: resume point and what its consumer holds
  missed,     \* history, per client: events a dispatcher let go past its socket
  faults, drops

vars == <<committed, earliest, pending, claimed, sub, wire, client, missed, faults, drops>>

Seqs == 1..MaxSeq
InOrder(ss) == \A i, j \in DOMAIN ss : i < j => ss[i] < ss[j]
Ascending(S) == CHOOSE q \in [1..Cardinality(S) -> S] : InOrder(q) /\ ToSet(q) = S
Larger(a, b) == IF a >= b THEN a ELSE b
Take(ss, n) == SubSeq(ss, 1, IF n < Len(ss) THEN n ELSE Len(ss))

\* sendEvent in a loop that skips what is at or below `delivered`, and raises it:
\* what the loop sends of ss, and where that leaves `delivered`.
Rising(ss, t) ==
  LET at == Ascending({i \in DOMAIN ss : ss[i] > t /\ \A j \in 1..(i - 1) : ss[j] < ss[i]})
  IN  [k \in DOMAIN at |-> ss[at[k]]]
Reached(t, ss) == IF ss = <<>> THEN t ELSE Larger(t, Last(ss))

\* Socket phases: no socket; stream.subscribe received; position read; reading
\* history; history read; buffer drained and live.
Phases == {"off", "asked", "positioned", "replaying", "replayed", "live"}

\* runSubscriber's locals.
Detached == [phase |-> "off", proc |-> NoProc, asked |-> 0, position |-> 0, window |-> 0,
             delivered |-> 0, buffer |-> <<>>, history |-> <<>>]

Event(s) == [kind |-> "event", seq |-> s]
Refresh(s) == [kind |-> "refresh", seq |-> s]
Events(ss) == [i \in DOMAIN ss |-> Event(ss[i])]

\* A client may hold a position of the stream as it was before a restore, so
\* it may start ahead of the stream as well as at its beginning.  A position
\* the restored stream has overtaken cannot be told from a held one.
Init ==
  /\ committed = 0 /\ earliest = 1
  /\ pending = {}
  /\ claimed = [p \in Procs |-> {}]
  /\ sub = [c \in Clients |-> Detached]
  /\ wire = [c \in Clients |-> <<>>]
  /\ \E start \in [Clients -> {0, 1}] :
       client = [c \in Clients |-> [last |-> start[c], known |-> 1..start[c]]]
  /\ missed = [c \in Clients |-> {}]
  /\ faults = 0 /\ drops = 0

-----------------------------------------------------------------------------
(* Committing and dispatching *)

\* appendEvent inside a state-changing transaction: the sequence row is locked
\* until commit, so sequences become visible in order, each with its outbox row.
AppendEvent ==
  /\ committed < MaxSeq
  /\ committed' = committed + 1
  /\ pending' = pending \cup {committed + 1}
  /\ UNCHANGED <<earliest, claimed, sub, wire, client, missed, faults, drops>>

\* The rows a claim finds: the oldest, a batch at most.
Oldest(rows) == ToSet(Take(Ascending(rows), BatchSize))

\* Mutant: a batch is delivered without marking its rows dispatched.
ClaimUnmarked(p) ==
  /\ claimed[p] = {} /\ pending # {}
  /\ claimed' = [claimed EXCEPT ![p] = Oldest(pending)]
  /\ UNCHANGED <<committed, earliest, pending, sub, wire, client, missed, faults, drops>>

\* Mutant: the dispatcher waits for a full batch.
ClaimFullBatches(p) ==
  /\ claimed[p] = {} /\ Cardinality(pending) >= BatchSize
  /\ claimed' = [claimed EXCEPT ![p] = Oldest(pending)]
  /\ pending' = pending \ Oldest(pending)
  /\ UNCHANGED <<committed, earliest, sub, wire, client, missed, faults, drops>>

\* The claim transaction of #claimAndDeliver marks rows dispatched; drain() runs
\* one claim at a time.  Rows that another process's claim has locked are skipped,
\* and are pending again if that claim does not commit.
Claim(p) ==
  \E locked \in SUBSET pending :
    /\ claimed[p] = {} /\ pending \ locked # {}
    /\ locked # {} => Procs # {p}
    /\ claimed' = [claimed EXCEPT ![p] = Oldest(pending \ locked)]
    /\ pending' = pending \ Oldest(pending \ locked)
    /\ UNCHANGED <<committed, earliest, sub, wire, client, missed, faults, drops>>

Attached(c, p) == sub[c].proc = p /\ sub[c].phase \in {"replaying", "replayed", "live"}

\* Mutant: the live path forgets what replay has already sent.
LiveEventsUnfiltered(c, batch) == batch

\* The listener's live branch: what is at or below `delivered` is dropped.
LiveEvents(c, batch) == Rising(batch, sub[c].delivered)

\* The listener's buffering branch: what does not fit is dropped.
Buffered(c, batch) == Take(sub[c].buffer \o batch, MaxBuffer)

\* byIds reads the claimed rows that still exist, in order.
Batch(p) == Ascending({s \in claimed[p] : s >= earliest})

\* What the bus makes a listener send at once.
Sent(c, p) == IF Attached(c, p) /\ sub[c].phase = "live" THEN LiveEvents(c, Batch(p)) ELSE <<>>

\* What a listener makes of the batch: sent at once, or kept in the buffer.
Taken(c, p) ==
  IF sub[c].phase = "live" THEN ToSet(Sent(c, p))
  ELSE IF Attached(c, p) THEN ToSet(Buffered(c, Batch(p)))
  ELSE {}

\* An event that neither this socket's replay nor anything it has sent covers.
Beyond(c, s) ==
  \/ sub[c].phase = "live" /\ s > sub[c].delivered
  \/ sub[c].phase \in {"positioned", "replaying", "replayed"} /\ s > sub[c].position

\* A row that is waiting, or that some other process has claimed.
QueuedBehind(p) == pending \cup UNION {claimed[q] : q \in Procs \ {p}}

\* History: what p's delivery lets go past the socket of c.  Rows the listener
\* does not take (it is attached to another process, not attached yet, or its
\* buffer is full), and older rows that are still queued when it takes later ones.
LetGo(c, p) ==
  {s \in claimed[p] : Beyond(c, s) /\ s \notin Taken(c, p)}
    \cup {s \in QueuedBehind(p) :
            Attached(c, p) /\ Beyond(c, s) /\ \E t \in claimed[p] : s < t}

\* bus.deliver hands each event, in order, to every listener of this process.
Deliver(p) ==
  /\ claimed[p] # {}
  /\ claimed' = [claimed EXCEPT ![p] = {}]
  /\ wire' = [c \in Clients |-> wire[c] \o Events(Sent(c, p))]
  /\ sub' = [c \in Clients |->
       CASE Attached(c, p) /\ sub[c].phase = "live" ->
              [sub[c] EXCEPT !.delivered = Reached(@, Sent(c, p))]
         [] Attached(c, p) /\ sub[c].phase # "live" ->
              [sub[c] EXCEPT !.buffer = Buffered(c, Batch(p))]
         [] OTHER -> sub[c]]
  /\ missed' = [c \in Clients |-> missed[c] \cup LetGo(c, p)]
  /\ UNCHANGED <<committed, earliest, pending, client, faults, drops>>

\* The read of the claimed events fails after the claim has committed.  drain()
\* rejects, both its callers ignore that, and the rows stay marked dispatched.
DeliverFails(p) ==
  /\ claimed[p] # {}
  /\ faults < MaxFaults /\ faults' = faults + 1
  /\ claimed' = [claimed EXCEPT ![p] = {}]
  /\ missed' = [c \in Clients |-> missed[c] \cup {s \in claimed[p] : Beyond(c, s)}]
  /\ UNCHANGED <<committed, earliest, pending, sub, wire, client, drops>>

\* The process dies: rows it had marked dispatched, and its sockets, are gone.
Crash(p) ==
  /\ faults < MaxFaults /\ faults' = faults + 1
  /\ claimed' = [claimed EXCEPT ![p] = {}]
  /\ sub' = [c \in Clients |-> IF sub[c].proc = p THEN Detached ELSE sub[c]]
  /\ wire' = [c \in Clients |-> IF sub[c].proc = p THEN <<>> ELSE wire[c]]
  /\ missed' = [c \in Clients |-> IF sub[c].proc = p THEN missed[c]
                                  ELSE missed[c] \cup {s \in claimed[p] : Beyond(c, s)}]
  /\ UNCHANGED <<committed, earliest, pending, client, drops>>

\* History is deleted from the oldest end (docs/EVENTS.md section 12).
DeleteOldest ==
  /\ earliest <= MaxDeletes /\ earliest < committed
  /\ earliest' = earliest + 1
  /\ UNCHANGED <<committed, pending, claimed, sub, wire, client, missed, faults, drops>>

-----------------------------------------------------------------------------
(* The socket *)

\* The client opens a socket and sends stream.subscribe with its resume point.
Connect(c, p) ==
  /\ sub[c].phase = "off"
  /\ sub' = [sub EXCEPT ![c] = [Detached EXCEPT !.phase = "asked", !.proc = p,
                                                !.asked = client[c].last]]
  /\ UNCHANGED <<committed, earliest, pending, claimed, wire, client, missed, faults, drops>>

\* The query behind reader.position.
ReadPosition(c) ==
  /\ sub[c].phase = "asked"
  /\ sub' = [sub EXCEPT ![c].phase = "positioned", ![c].position = committed,
                        ![c].window = IF committed = 0 THEN 0 ELSE earliest]
  /\ UNCHANGED <<committed, earliest, pending, claimed, wire, client, missed, faults, drops>>

AheadOfStream(u) == u.asked > u.position
BelowWindow(u) == u.window > 0 /\ u.asked > 0 /\ u.asked < u.window - 1
OverLimit(u) == u.position - u.asked > MaxReplay

\* Mutant: the limit is off by one, so replay is asked for more than it reads.
RefreshNeededLate(u) ==
  AheadOfStream(u) \/ BelowWindow(u) \/ u.position - u.asked > MaxReplay + 1

RefreshNeeded(u) == AheadOfStream(u) \/ BelowWindow(u) \/ OverLimit(u)

\* establish, from the position's arrival: attach with an empty buffer, then
\* refresh, replay, or go live at the asked position.
Establish(c) ==
  LET u == sub[c] IN
  /\ u.phase = "positioned"
  /\ CASE RefreshNeeded(u) ->
            /\ sub' = [sub EXCEPT ![c].phase = "live", ![c].delivered = u.position]
            /\ wire' = [wire EXCEPT ![c] = Append(@, Refresh(u.position))]
       [] ~RefreshNeeded(u) /\ u.position > u.asked ->
            /\ sub' = [sub EXCEPT ![c].phase = "replaying"]
            /\ UNCHANGED wire
       [] OTHER ->
            /\ sub' = [sub EXCEPT ![c].phase = "live", ![c].delivered = Larger(@, u.asked)]
            /\ UNCHANGED wire
  /\ UNCHANGED <<committed, earliest, pending, claimed, client, missed, faults, drops>>

\* The query behind reader.replay: stored events after the asked position.
ReplayRead(c) ==
  LET stored == {s \in earliest..committed : s > sub[c].asked} IN
  /\ sub[c].phase = "replaying"
  /\ sub' = [sub EXCEPT ![c].phase = "replayed",
                        ![c].history = Take(Ascending(stored), MaxReplay)]
  /\ UNCHANGED <<committed, earliest, pending, claimed, wire, client, missed, faults, drops>>

\* Mutant: the buffer is drained without discarding what was replayed.
DrainedUnfiltered(buffer, delivered) == buffer

\* Mutant: what was buffered during the replay is dropped with the buffer.
DrainedNever(buffer, delivered) == <<>>

\* What the buffer still adds once everything up to `delivered` was sent.
Drained(buffer, delivered) == Rising(buffer, delivered)

\* History is sent, then the buffer, then the listener is live.
ReplayDone(c) ==
  LET u == sub[c]
      high == Reached(u.delivered, u.history)
      rest == Drained(u.buffer, high)
  IN
  /\ u.phase = "replayed"
  /\ wire' = [wire EXCEPT ![c] = @ \o Events(u.history \o rest)]
  /\ sub' = [sub EXCEPT ![c].phase = "live", ![c].buffer = <<>>, ![c].history = <<>>,
                        ![c].delivered = Reached(high, rest)]
  /\ UNCHANGED <<committed, earliest, pending, claimed, client, missed, faults, drops>>

\* The socket closes, for the network's reasons or because a read failed;
\* the client will reconnect from its resume point.
Disconnect(c) ==
  /\ sub[c].phase # "off"
  /\ drops < MaxDrops /\ drops' = drops + 1
  /\ sub' = [sub EXCEPT ![c] = Detached]
  /\ wire' = [wire EXCEPT ![c] = <<>>]
  /\ UNCHANGED <<committed, earliest, pending, claimed, client, missed, faults>>

-----------------------------------------------------------------------------
(* The client *)

\* #onText with an event: the resume point is raised by what is handed on.
ReceiveEvent(c) ==
  LET s == Head(wire[c]).seq IN
  /\ wire[c] # <<>> /\ Head(wire[c]).kind = "event"
  /\ wire' = [wire EXCEPT ![c] = Tail(@)]
  /\ client' = IF s <= client[c].last THEN client
               ELSE [client EXCEPT ![c] = [last |-> s, known |-> @.known \cup {s}]]
  /\ UNCHANGED <<committed, earliest, pending, claimed, sub, missed, faults, drops>>

\* #onText with stream.refresh_required: the consumer refetches the state,
\* which covers everything committed, and the resume point is the reported one.
ReceiveRefresh(c) ==
  /\ wire[c] # <<>> /\ Head(wire[c]).kind = "refresh"
  /\ wire' = [wire EXCEPT ![c] = Tail(@)]
  /\ client' = [client EXCEPT ![c] = [last |-> Head(wire[c]).seq,
                                      known |-> 1..committed]]
  /\ UNCHANGED <<committed, earliest, pending, claimed, sub, missed, faults, drops>>

-----------------------------------------------------------------------------
Next ==
  \/ AppendEvent \/ DeleteOldest
  \/ \E p \in Procs : Claim(p) \/ Deliver(p) \/ DeliverFails(p) \/ Crash(p)
  \/ \E c \in Clients : \/ \E p \in Procs : Connect(c, p)
                        \/ ReadPosition(c) \/ Establish(c) \/ ReplayRead(c) \/ ReplayDone(c)
                        \/ Disconnect(c) \/ ReceiveEvent(c) \/ ReceiveRefresh(c)

(***************************************************************************)
(* The dispatcher polls every 250 ms, awaited reads return, sockets        *)
(* deliver and the client reconnects with a bounded backoff.               *)
(***************************************************************************)
Fairness ==
  /\ \A p \in Procs : WF_vars(Claim(p)) /\ WF_vars(Deliver(p) \/ DeliverFails(p))
  /\ \A c \in Clients :
       /\ WF_vars(\E p \in Procs : Connect(c, p))
       /\ WF_vars(ReadPosition(c)) /\ WF_vars(Establish(c))
       /\ WF_vars(ReplayRead(c)) /\ WF_vars(ReplayDone(c))
       /\ WF_vars(ReceiveEvent(c)) /\ WF_vars(ReceiveRefresh(c))

Spec == Init /\ [][Next]_vars
FairSpec == Spec /\ Fairness

-----------------------------------------------------------------------------
(* Properties *)

\* A message carries a stored event, or the position a refresh resumes from.
Message == [kind : {"event"}, seq : Seqs] \cup [kind : {"refresh"}, seq : 0..MaxSeq]

\* runSubscriber's locals.
Subscriber ==
  [phase : Phases, proc : Procs \cup {NoProc}, asked : 0..MaxSeq, position : 0..MaxSeq,
   window : 0..MaxSeq, delivered : 0..MaxSeq, buffer : Seq(Seqs), history : Seq(Seqs)]

\* The variables keep their shapes; a row is dispatched at most once, and the
\* buffer is bounded.
TypeOK ==
  /\ committed \in 0..MaxSeq /\ earliest \in Seqs
  /\ pending \subseteq 1..committed
  /\ claimed \in [Procs -> SUBSET (1..committed)] /\ \A p \in Procs : claimed[p] \cap pending = {}
  /\ sub \in [Clients -> Subscriber] /\ \A c \in Clients : Len(sub[c].buffer) <= MaxBuffer
  /\ wire \in [Clients -> Seq(Message)]
  /\ client \in [Clients -> [last : 0..MaxSeq, known : SUBSET Seqs]]
  /\ missed \in [Clients -> SUBSET Seqs]
  /\ faults \in 0..MaxFaults /\ drops \in 0..MaxDrops

\* "repeats nothing": on one socket sequences only ever rise, across history,
\* buffer and live delivery, and what is on its way is what counts as delivered
\* (events/routes.ts:30).
NothingRepeated ==
  \A c \in Clients : \A j \in DOMAIN wire[c] :
    wire[c][j].kind = "event" =>
      /\ wire[c][j].seq <= sub[c].delivered
      /\ \A i \in 1..(j - 1) : wire[c][i].kind = "event" => wire[c][i].seq < wire[c][j].seq

\* The consumer holds a retained event up to its resume point, so that no
\* reconnect skips one.
Complete(c) == \A s \in earliest..client[c].last : s <= committed => s \in client[c].known

\* "The handover from replay to live delivery loses nothing and repeats nothing"
\* (docs/EVENTS.md:836, events/routes.ts:27-30).
LosesNothing == \A c \in Clients : Complete(c)

\* Replay, buffer, drain, wire and reconnect lose nothing.  Through crashes, lost
\* sockets and deletions, with any number of processes, an event that the
\* resume point has passed and the consumer does not hold is one that a
\* dispatcher let go past the open socket (events/routes.ts:254-325).
LostOnlyInDispatch ==
  \A c \in Clients : \A s \in earliest..client[c].last :
    s <= committed => s \in client[c].known \cup missed[c]

\* What the position read promised is sent: every retained event between the
\* asked position and the reported one is on the wire or with the consumer
\* when the socket goes live (events/routes.ts:275-325).
ReplayIsComplete ==
  \A c \in Clients :
    sub[c].phase = "live" /\ ~RefreshNeeded(sub[c]) =>
      \A s \in (sub[c].asked + 1)..sub[c].position :
        s < earliest \/ s \in client[c].known \/ Event(s) \in ToSet(wire[c])

\* A committed event reaches every client that was not passed over: the poll,
\* the next claim or a reconnect brings it (events/outbox.ts:19-21).
EventuallyDelivered ==
  \A c \in Clients, s \in Seqs :
    committed >= s ~> client[c].last >= s \/ s \in missed[c]
=============================================================================
