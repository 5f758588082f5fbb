---------------------------- MODULE RelayReports ----------------------------
(* What relay edges report: daily byte counters and heartbeats.              *)
(*                                                                           *)
(* An edge keeps cumulative counters per subscription and UTC day, saves     *)
(* them with a sequence number in a ledger file and posts them               *)
(* (go/cmd/blindport-relay/bandwidth.go); the backend adds the difference to *)
(* what a cursor remembers (services/bandwidth.py). Heartbeats carry the     *)
(* subscriptions connected to the edge (api/internal.py). Requests are lost, *)
(* outlive their sender's timeout and are applied out of order; an edge dies *)
(* and restarts from its ledger; old cursors are cleaned up.                 *)
(*                                                                           *)
(* Ingress and egress are treated alike: one counter stands for both.        *)
EXTENDS Naturals, FiniteSets, FiniteSetsExt, TLC

CONSTANTS
    Edges,
    Customers,    \* subscriptions, by their public identifier
    Unknown,      \* identifiers without a customer's row
    MaxDay,       \* bound: UTC days are 1 .. MaxDay
    MaxInt64,     \* _MAX_INT64, scaled down
    MaxAge,       \* BANDWIDTH_INGEST_MAX_AGE_DAYS
    Retention,    \* BANDWIDTH_RETENTION_DAYS
    CleanupBatch, \* BANDWIDTH_CLEANUP_BATCH_SIZE
    BatchSize,    \* reports per request
    Stamps,       \* receive times, on clocks that may disagree
    Absent

Days == 1 .. MaxDay
Entries == Customers \X Days

VARIABLES
    today,
    forwarded,  \* [Edges -> [Entries -> Nat]]: the bytes that went through
    adding,     \* [Edges -> Entries or Absent]: an add that has read the clock
    counters,   \* [Edges -> [Entries -> Nat]]: bandwidthAccumulator.entries
    sequence,   \* [Edges -> Nat]
    ledger,     \* [Edges -> [sequence, counters]]: the file
    flush,      \* [Edges -> flush in progress]
    posts,      \* bandwidth requests on their way or in their transaction
    cursor,     \* [Edges -> [Entries -> RelayBandwidthCursor or Absent]]
    daily,      \* [Entries -> Nat]: SubscriptionDailyBandwidth
    edgeDaily,  \* [Edges -> [Days -> Nat]]: RelayEdgeDailyBandwidth
    beats,      \* heartbeat requests on their way
    beat,       \* [Edges -> RelayHeartbeat or Absent]
    conn,       \* [Edges -> [Customers -> RelaySubscriptionConnection or Absent]]
    rrBudget    \* bytes, flushes, faults and heartbeats left to happen

edgeVars == <<adding, counters, sequence, ledger, flush>>
dbVars == <<cursor, daily, edgeDaily>>
beatVars == <<beats, beat, conn>>
rrVars == <<today, forwarded, edgeVars, posts, dbVars, beatVars, rrBudget>>

\* RelayHeartbeat and RelaySubscriptionConnection, as far as they are compared.
HeartbeatRow == [at : Nat, ids : (SUBSET (Customers \cup Unknown)) \cup {Absent}, truncated : BOOLEAN]
ConnectionRow == [active : BOOLEAN, observed : Nat, connected : Nat]

ASSUME RelayReportsAssumption ==
    /\ MaxAge \in Nat /\ Retention \in Nat \ {0}
    /\ BatchSize \in Nat \ {0} /\ CleanupBatch \in Nat \ {0}
    /\ Stamps \subseteq Nat /\ Customers \cap Unknown = {} /\ MaxDay \in Nat \ {0}
    /\ Absent \notin ConnectionRow \cup HeartbeatRow

Zero == [k \in Entries |-> 0]
NoFlush == [pc |-> "idle"]
HostFault == rrBudget.faults > 0 /\ rrBudget' = [rrBudget EXCEPT !.faults = @ - 1]

----------------------------------------------------------------------------
(* The edge.                                                                 *)

\* Traffic: the day is read before the accumulator is locked.
Forward(e, s) ==
    /\ rrBudget.bytes[e][s] > 0 /\ adding[e] = Absent
    /\ rrBudget' = [rrBudget EXCEPT !.bytes[e][s] = @ - 1]
    /\ forwarded' = [forwarded EXCEPT ![e][<<s, today>>] = @ + 1]
    /\ adding' = [adding EXCEPT ![e] = <<s, today>>]
    /\ UNCHANGED <<today, counters, sequence, ledger, flush, posts, dbVars, beatVars>>

\* addBatch, which drops what would overflow.
AddBatch(e) ==
    /\ adding[e] # Absent
    /\ counters' = [counters EXCEPT ![e][adding[e]] = IF @ < MaxInt64 THEN @ + 1 ELSE @]
    /\ adding' = [adding EXCEPT ![e] = Absent]
    /\ UNCHANGED <<today, forwarded, sequence, ledger, flush, posts, dbVars, beatVars, rrBudget>>

\* persistLocked writes the counters and the sequence of this moment.
Saved(e) == [ledger EXCEPT ![e] = [sequence |-> sequence'[e], counters |-> counters'[e]]]

\* flush: the snapshot to report, and the first save.
FlushSnapshot(e) ==
    LET due == {k \in Entries : counters[e][k] > 0} IN
    /\ flush[e].pc = "idle" /\ rrBudget.flushes[e] > 0
    /\ rrBudget' = [rrBudget EXCEPT !.flushes[e] = @ - 1]
    /\ UNCHANGED <<counters, sequence>>
    /\ ledger' = Saved(e)
    /\ flush' = [flush EXCEPT ![e] = IF due = {} THEN NoFlush
         ELSE [pc |-> "send", due |-> due, snap |-> counters[e]]]
    /\ UNCHANGED <<today, forwarded, adding, posts, dbVars, beatVars>>

\* The reports in the order of snapshot(): by day.
Batches(due) == {b \in SUBSET due :
    /\ Cardinality(b) = IF Cardinality(due) < BatchSize THEN Cardinality(due) ELSE BatchSize
    /\ \A k \in b, l \in due \ b : k[2] <= l[2]}

\* Mutant: the request leaves before the ledger is saved.
FlushSendUnsaved(e) ==
    /\ flush[e].pc = "send"
    /\ sequence' = [sequence EXCEPT ![e] = @ + 1] /\ UNCHANGED <<counters, ledger>>
    /\ \E b \in Batches(flush[e].due) :
         /\ flush' = [flush EXCEPT ![e].pc = "wait", ![e].due = @ \ b]
         /\ posts' = posts \cup {[e |-> e, sequence |-> sequence'[e], pc |-> "sent",
                                  n |-> [k \in b |-> flush[e].snap[k]]]}
    /\ UNCHANGED <<today, forwarded, adding, dbVars, beatVars, rrBudget>>

\* The next batch takes its own sequence number, which is saved before the
\* request is sent.
FlushSend(e) ==
    /\ flush[e].pc = "send"
    /\ sequence' = [sequence EXCEPT ![e] = @ + 1] /\ UNCHANGED counters
    /\ ledger' = Saved(e)
    /\ \E b \in Batches(flush[e].due) :
         /\ flush' = [flush EXCEPT ![e].pc = "wait", ![e].due = @ \ b]
         /\ posts' = posts \cup {[e |-> e, sequence |-> sequence'[e], pc |-> "sent",
                                  n |-> [k \in b |-> flush[e].snap[k]]]}
    /\ UNCHANGED <<today, forwarded, adding, dbVars, beatVars, rrBudget>>

\* The ledger cannot be written: the number is burnt and nothing is sent.
FlushSaveFails(e) ==
    /\ flush[e].pc = "send" /\ HostFault
    /\ sequence' = [sequence EXCEPT ![e] = @ + 1]
    /\ flush' = [flush EXCEPT ![e] = NoFlush]
    /\ UNCHANGED <<today, forwarded, adding, counters, ledger, posts, dbVars, beatVars>>

\* The sender gives up; the request may still arrive.
FlushTimeout(e) ==
    /\ flush[e].pc = "wait" /\ HostFault
    /\ flush' = [flush EXCEPT ![e] = NoFlush]
    /\ UNCHANGED <<today, forwarded, adding, counters, sequence, ledger, posts, dbVars, beatVars>>

\* The answer to request q, if its sender still waits for it.
Answered(q, accepted) ==
    IF flush[q.e].pc = "wait" /\ sequence[q.e] = q.sequence
    THEN [flush EXCEPT ![q.e] =
            IF ~accepted THEN NoFlush
            ELSE [@ EXCEPT !.pc = IF flush[q.e].due # {} THEN "send" ELSE "prune"]]
    ELSE flush

\* Everything was accepted: days before today are dropped, and saved.
FlushPrune(e) ==
    /\ flush[e].pc = "prune"
    /\ counters' = [counters EXCEPT ![e] = [k \in Entries |-> IF k[2] < today THEN 0 ELSE @[k]]]
    /\ UNCHANGED sequence
    /\ ledger' = Saved(e)
    /\ flush' = [flush EXCEPT ![e] = NoFlush]
    /\ UNCHANGED <<today, forwarded, adding, posts, dbVars, beatVars, rrBudget>>

\* The edge dies and is started again from its ledger.
EdgeRestart(e) ==
    /\ HostFault
    /\ counters' = [counters EXCEPT ![e] = ledger[e].counters]
    /\ sequence' = [sequence EXCEPT ![e] = ledger[e].sequence]
    /\ adding' = [adding EXCEPT ![e] = Absent]
    /\ flush' = [flush EXCEPT ![e] = NoFlush]
    /\ UNCHANGED <<today, forwarded, ledger, posts, dbVars, beatVars>>

----------------------------------------------------------------------------
(* Ingestion. A request's transaction is two steps: it locks its             *)
(* subscriptions and reads, then it writes and commits. The aggregate it     *)
(* writes is the value it read plus its delta; the edge's total is           *)
(* incremented in the statement.                                             *)

Named(q) == {k[1] : k \in DOMAIN q.n}
Locked(s) == \E q \in posts : q.pc = "locked" /\ s \in Named(q)

\* relay_daily_bandwidth refuses days in the future and days too old.
DaysAccepted(q) == \A k \in DOMAIN q.n : k[2] <= today /\ k[2] + MaxAge >= today

RefuseDays(q) ==
    /\ q.pc = "sent" /\ ~DaysAccepted(q)
    /\ posts' = posts \ {q}
    /\ flush' = Answered(q, FALSE)
    /\ UNCHANGED <<today, forwarded, adding, counters, sequence, ledger, dbVars, beatVars, rrBudget>>

\* Mutant: the subscriptions are not locked.
IngestReadUnlocked(q) ==
    /\ q.pc = "sent" /\ DaysAccepted(q)
    /\ posts' = (posts \ {q}) \cup {[e |-> q.e, sequence |-> q.sequence, n |-> q.n,
         pc |-> "locked", seen |-> [k \in DOMAIN q.n |-> cursor[q.e][k]],
         sum |-> [k \in DOMAIN q.n |-> daily[k]]]}
    /\ UNCHANGED <<today, forwarded, edgeVars, dbVars, beatVars, rrBudget>>

\* The subscriptions are locked in order, then their cursors are read.
IngestRead(q) ==
    /\ q.pc = "sent" /\ DaysAccepted(q)
    /\ \A s \in Named(q) : ~Locked(s)
    /\ posts' = (posts \ {q}) \cup {[e |-> q.e, sequence |-> q.sequence, n |-> q.n,
         pc |-> "locked", seen |-> [k \in DOMAIN q.n |-> cursor[q.e][k]],
         sum |-> [k \in DOMAIN q.n |-> daily[k]]]}
    /\ UNCHANGED <<today, forwarded, edgeVars, dbVars, beatVars, rrBudget>>

\* The entries whose cursor is older than the request, and what they add.
Fresh(q) == {k \in DOMAIN q.n : q.seen[k] = Absent \/ q.seen[k].sequence < q.sequence}
Before(q, k) == IF q.seen[k] = Absent THEN 0 ELSE q.seen[k].n
Delta(q, k) == q.n[k] - Before(q, k)
DayDelta(q, d) == MapThenSumSet(LAMBDA k : Delta(q, k), {k \in Fresh(q) : k[2] = d})

\* No counter went backwards and no aggregate leaves its 64 bits.
Ingestible(q) ==
    /\ \A k \in Fresh(q) : q.n[k] >= Before(q, k)
    /\ \A k \in Fresh(q) : q.sum[k] + Delta(q, k) <= MaxInt64
    /\ \A d \in Days : edgeDaily[q.e][d] + DayDelta(q, d) <= MaxInt64

IngestCommit(q) ==
    /\ q.pc = "locked" /\ Ingestible(q)
    /\ cursor' = [cursor EXCEPT ![q.e] = [k \in Entries |->
         IF k \in Fresh(q) THEN [sequence |-> q.sequence, n |-> q.n[k]] ELSE @[k]]]
    /\ daily' = [k \in Entries |-> IF k \in Fresh(q) THEN q.sum[k] + Delta(q, k) ELSE daily[k]]
    /\ edgeDaily' = [edgeDaily EXCEPT ![q.e] = [d \in Days |-> @[d] + DayDelta(q, d)]]
    /\ posts' = posts \ {q}
    /\ flush' = Answered(q, TRUE)
    /\ UNCHANGED <<today, forwarded, adding, counters, sequence, ledger, beatVars, rrBudget>>

\* 409: the whole batch is rolled back.
IngestConflict(q) ==
    /\ q.pc = "locked" /\ ~Ingestible(q)
    /\ posts' = posts \ {q}
    /\ flush' = Answered(q, FALSE)
    /\ UNCHANGED <<today, forwarded, adding, counters, sequence, ledger, dbVars, beatVars, rrBudget>>

\* The request is lost, or its process dies before the commit.
PostLost(q) ==
    /\ HostFault
    /\ posts' = posts \ {q}
    /\ flush' = Answered(q, FALSE)
    /\ UNCHANGED <<today, forwarded, adding, counters, sequence, ledger, dbVars, beatVars>>

\* cleanup_daily_bandwidth: a batch of cursors that can no longer be reported
\* against, and the aggregates past their retention once that batch was short.
\* A row some transaction has locked is waited for.
Old(age) == {d \in Days : d + age < today}
OldCursors == {x \in Edges \X Entries : x[2][2] \in Old(MaxAge) /\ cursor[x[1]][x[2]] # Absent}
CursorBatches == {b \in SUBSET OldCursors :
    /\ Cardinality(b) = IF Cardinality(OldCursors) < CleanupBatch THEN Cardinality(OldCursors) ELSE CleanupBatch
    /\ \A x \in b, y \in OldCursors \ b : x[2][2] <= y[2][2]}

CleanupDailyBandwidth ==
    LET gone(b) == IF Cardinality(b) = CleanupBatch THEN {} ELSE Old(Retention) IN
    /\ \A q \in posts : q.pc = "locked" => \A k \in DOMAIN q.n : k[2] \notin Old(MaxAge) \cup Old(Retention)
    /\ \E b \in CursorBatches :
         /\ cursor' = [e \in Edges |-> [k \in Entries |-> IF <<e, k>> \in b THEN Absent ELSE cursor[e][k]]]
         /\ daily' = [k \in Entries |-> IF k[2] \in gone(b) THEN 0 ELSE daily[k]]
         /\ edgeDaily' = [e \in Edges |-> [d \in Days |-> IF d \in gone(b) THEN 0 ELSE edgeDaily[e][d]]]
    /\ UNCHANGED <<today, forwarded, edgeVars, posts, beatVars, rrBudget>>

Midnight ==
    /\ today < MaxDay /\ today' = today + 1
    /\ UNCHANGED <<forwarded, edgeVars, posts, dbVars, beatVars, rrBudget>>

----------------------------------------------------------------------------
(* Heartbeats.                                                               *)

\* The edge reports who is connected, nothing (Absent) or a truncated list.
SendHeartbeat(e, ids, truncated) ==
    /\ rrBudget.beats[e] > 0 /\ rrBudget' = [rrBudget EXCEPT !.beats[e] = @ - 1]
    /\ beats' = beats \cup {[e |-> e, id |-> rrBudget.beats[e], ids |-> ids, truncated |-> truncated]}
    /\ UNCHANGED <<today, forwarded, edgeVars, posts, dbVars, beat, conn>>

HeartbeatLost(b) ==
    /\ beats' = beats \ {b}
    /\ UNCHANGED <<today, forwarded, edgeVars, posts, dbVars, beat, conn, rrBudget>>

\* Mutant: the last request to be processed wins.
WinsAlways(b, at) == TRUE

\* persist_relay_heartbeat: the upsert wins if it is newer than the row.
Wins(b, at) == beat[b.e] = Absent \/ (beat[b.e] # Absent /\ beat[b.e].at < at)

\* persist_relay_subscription_connections
Connections(b, at) == [s \in Customers |->
    LET row == conn[b.e][s] IN
    IF b.ids = Absent THEN row
    ELSE IF s \in b.ids THEN [active |-> TRUE, observed |-> at, connected |-> at]
    ELSE IF row # Absent /\ ~b.truncated /\ row.active
         THEN [row EXCEPT !.active = FALSE, !.observed = at]
         ELSE row]

\* relay_heartbeat: one transaction, all of it rolled back for an unknown id.
Accepts(b) == b.ids = Absent \/ (b.ids # Absent /\ b.ids \cap Unknown = {})

RelayHeartbeat(b, at) ==
    /\ beats' = beats \ {b}
    /\ IF Wins(b, at) /\ Accepts(b)
       THEN /\ beat' = [beat EXCEPT ![b.e] = [at |-> at, ids |-> b.ids, truncated |-> b.truncated]]
            /\ conn' = [conn EXCEPT ![b.e] = Connections(b, at)]
       ELSE UNCHANGED <<beat, conn>>
    /\ UNCHANGED <<today, forwarded, edgeVars, posts, dbVars, rrBudget>>

----------------------------------------------------------------------------

RrInit ==
    /\ today = 1
    /\ forwarded = [e \in Edges |-> Zero]
    /\ adding = [e \in Edges |-> Absent]
    /\ counters = [e \in Edges |-> Zero]
    /\ sequence = [e \in Edges |-> 0]
    /\ ledger = [e \in Edges |-> [sequence |-> 0, counters |-> Zero]]
    /\ flush = [e \in Edges |-> NoFlush]
    /\ posts = {} /\ beats = {}
    /\ cursor = [e \in Edges |-> [k \in Entries |-> Absent]]
    /\ daily = Zero
    /\ edgeDaily = [e \in Edges |-> [d \in Days |-> 0]]
    /\ beat = [e \in Edges |-> Absent]
    /\ conn = [e \in Edges |-> [s \in Customers |-> Absent]]

Reporter(e) ==
    \/ \E s \in Customers : Forward(e, s)
    \/ AddBatch(e) \/ FlushSnapshot(e) \/ FlushSend(e) \/ FlushSaveFails(e)
    \/ FlushTimeout(e) \/ FlushPrune(e) \/ EdgeRestart(e)

Ingestion == \E q \in posts :
    RefuseDays(q) \/ IngestRead(q) \/ IngestCommit(q) \/ IngestConflict(q) \/ PostLost(q)

Heartbeats ==
    \/ \E e \in Edges, ids \in (SUBSET (Customers \cup Unknown)) \cup {Absent}, t \in BOOLEAN :
         SendHeartbeat(e, ids, t)
    \/ \E b \in beats : HeartbeatLost(b) \/ \E at \in Stamps : RelayHeartbeat(b, at)

RrNext ==
    \/ \E e \in Edges : Reporter(e)
    \/ Ingestion \/ CleanupDailyBandwidth \/ Midnight \/ Heartbeats

RrSpec == RrInit /\ [][RrNext]_rrVars

----------------------------------------------------------------------------
(* Properties.                                                               *)

CursorBytes(e, k) == IF cursor[e][k] = Absent THEN 0 ELSE cursor[e][k].n

\* No byte is counted twice: however requests are repeated, delayed and
\* reordered, and whenever edges restart and cursors are cleaned up, a stored
\* total never exceeds what went through; and while the day may still be
\* reported the totals are exactly the sums of the cursors, per subscription
\* and per edge (ingest_daily_bandwidth, cleanup_daily_bandwidth).
BytesCountedOnce ==
    /\ \A k \in Entries :
         /\ daily[k] <= MapThenSumSet(LAMBDA e : forwarded[e][k], Edges)
         /\ k[2] + MaxAge >= today /\ k[2] + Retention >= today
              => daily[k] = MapThenSumSet(LAMBDA e : CursorBytes(e, k), Edges)
    /\ \A e \in Edges, d \in Days :
         d + MaxAge >= today /\ d + Retention >= today
           => edgeDaily[e][d] = MapThenSumSet(LAMBDA s : CursorBytes(e, <<s, d>>), Customers)

\* The ledger is ahead of the backend: for the current day, what an edge would
\* restart from is never below what the backend has stored, nor numbered before
\* it, so that a restarted edge is not refused for a decrease and its reports
\* are not skipped as old (flush saves before it sends).
LedgerLeads ==
    \A e \in Edges, s \in Customers :
        LET c == cursor[e][<<s, today>>] IN
        c # Absent => /\ ledger[e].counters[<<s, today>>] >= c.n
                      /\ ledger[e].sequence >= c.sequence

\* The stored connections are those of the newest heartbeat: requests received
\* out of order never bring an older picture back, a refused one leaves no
\* trace, and a truncated one disconnects nobody.
ConnectionsMatchHeartbeat ==
    \A e \in Edges :
        /\ \A s \in Customers : conn[e][s] # Absent =>
             beat[e] # Absent /\ conn[e][s].observed <= beat[e].at
        /\ beat[e] # Absent => (beat[e].ids # Absent =>
             LET active == {s \in Customers : conn[e][s] # Absent /\ conn[e][s].active} IN
             beat[e].ids \subseteq active /\ (~beat[e].truncated => active = beat[e].ids))
=============================================================================
