----------------------------- MODULE EdgeProofs -----------------------------
(***************************************************************************)
(* Proofs about the relay edge and the backend, for every set of edges,    *)
(* subscriptions, days, agents and requests: the stored connections are    *)
(* those of the newest heartbeat, the edge's ledger is ahead of the        *)
(* backend's cursors, a WireGuard peer row moves by one generation at a    *)
(* time, and the relay forwards nothing that is out of date for too long.  *)
(***************************************************************************)
EXTENDS WireGuard, RelayReports, TLAPS

-----------------------------------------------------------------------------
(* Heartbeats *)

HeartbeatRequest(b) ==
    b.e \in Edges /\ b.ids \in (SUBSET (Customers \cup Unknown)) \cup {Absent} /\ b.truncated \in BOOLEAN

\* Rows and requests have their types; the picture is the newest one's.
BeatInv ==
    /\ beat \in [Edges -> HeartbeatRow \cup {Absent}]
    /\ conn \in [Edges -> [Customers -> ConnectionRow \cup {Absent}]]
    /\ \A b \in beats : HeartbeatRequest(b)
    /\ ConnectionsMatchHeartbeat

\* What the property says of one edge.
Pictured(bt, cn) ==
    /\ \A s \in Customers : cn[s] # Absent => bt # Absent /\ cn[s].observed <= bt.at
    /\ bt # Absent => (bt.ids # Absent =>
         LET active == {s \in Customers : cn[s] # Absent /\ cn[s].active} IN
         bt.ids \subseteq active /\ (~bt.truncated => active = bt.ids))

\* Nothing is stored at first.
LEMMA BeatInit == RrInit => BeatInv
BY DEF RrInit, BeatInv, ConnectionsMatchHeartbeat

\* A step that leaves the two tables alone and adds no request but a proper one.
LEMMA BeatFrame ==
    ASSUME BeatInv, UNCHANGED <<beat, conn>>, \A b \in beats' : HeartbeatRequest(b)
    PROVE  BeatInv'
BY Zenon DEF BeatInv, ConnectionsMatchHeartbeat, HeartbeatRequest

\* A heartbeat that wins and is accepted brings its own picture.
LEMMA Picture ==
    ASSUME BeatInv, NEW b \in beats, NEW at \in Stamps, Wins(b, at), Accepts(b)
    PROVE  /\ [at |-> at, ids |-> b.ids, truncated |-> b.truncated] \in HeartbeatRow
           /\ Connections(b, at) \in [Customers -> ConnectionRow \cup {Absent}]
           /\ Pictured([at |-> at, ids |-> b.ids, truncated |-> b.truncated], Connections(b, at))
<1>1. /\ b.e \in Edges /\ b.ids \in (SUBSET (Customers \cup Unknown)) \cup {Absent} /\ b.truncated \in BOOLEAN
      /\ at \in Nat /\ Absent \notin ConnectionRow /\ Absent \notin HeartbeatRow
  BY Zenon, RelayReportsAssumption DEF BeatInv, HeartbeatRequest
<1>2. PICK bt \in HeartbeatRow : bt = [at |-> at, ids |-> b.ids, truncated |-> b.truncated]
  BY Zenon, <1>1 DEF HeartbeatRow
<1>3. bt # Absent /\ bt.at = at /\ bt.ids = b.ids /\ bt.truncated = b.truncated
  BY Zenon, <1>1, <1>2
<1>4. PICK old \in [Customers -> ConnectionRow \cup {Absent}] : old = conn[b.e]
  BY Zenon, <1>1 DEF BeatInv
<1>5. \A s \in Customers : old[s] # Absent => old[s] \in ConnectionRow /\ old[s].observed <= at
  <2> SUFFICES ASSUME NEW s \in Customers, old[s] # Absent PROVE old[s] \in ConnectionRow /\ old[s].observed <= at
    BY Zenon
  <2>1. old[s] \in ConnectionRow /\ old[s].observed \in Nat
    BY Zenon, <1>4 DEF ConnectionRow
  <2>2. beat[b.e] # Absent /\ old[s].observed <= beat[b.e].at
    BY Zenon, <1>1, <1>4 DEF BeatInv, ConnectionsMatchHeartbeat
  <2>3. beat[b.e] \in HeartbeatRow /\ beat[b.e].at \in Nat /\ beat[b.e].at < at
    BY Zenon, <1>1, <2>2 DEF BeatInv, HeartbeatRow, Wins
  <2> QED BY <1>1, <2>1, <2>2, <2>3
<1>6. PICK new : new = Connections(b, at)
  BY Zenon
<1>7. CASE b.ids = Absent
  <2>1. new = [s \in Customers |-> old[s]]
    BY Zenon, <1>4, <1>6, <1>7 DEF Connections
  <2>2. new = old
    BY Zenon, <2>1, <1>4
  <2> QED BY Zenon, <1>2, <1>3, <1>4, <1>5, <1>6, <1>7, <2>2 DEF Pictured
<1>8. CASE b.ids # Absent
  <2>1. b.ids \subseteq Customers
    <3>1. b.ids \in SUBSET (Customers \cup Unknown)
      BY Zenon, <1>1, <1>8
    <3>2. b.ids \cap Unknown = {}
      BY Zenon, <1>8 DEF Accepts
    <3> QED BY Zenon, <3>1, <3>2
  <2>2. PICK row \in ConnectionRow : row = [active |-> TRUE, observed |-> at, connected |-> at]
    BY Zenon, <1>1 DEF ConnectionRow
  <2>11. row # Absent /\ row.active = TRUE /\ row.observed = at
    BY Zenon, <1>1, <2>2
  <2>3. \A s \in Customers :
           new[s] = IF s \in b.ids THEN row
                    ELSE IF old[s] # Absent /\ ~b.truncated /\ old[s].active
                         THEN [old[s] EXCEPT !.active = FALSE, !.observed = at]
                         ELSE old[s]
    BY Zenon, <1>4, <1>6, <1>8, <2>2 DEF Connections
  <2>4. \A s \in Customers : old[s] # Absent =>
           /\ [old[s] EXCEPT !.active = FALSE, !.observed = at] \in ConnectionRow
           /\ [old[s] EXCEPT !.active = FALSE, !.observed = at].active = FALSE
           /\ [old[s] EXCEPT !.active = FALSE, !.observed = at].observed = at
    BY Zenon, <1>1, <1>5 DEF ConnectionRow
  <2>5. \A s \in Customers : new[s] \in ConnectionRow \cup {Absent}
    BY Zenon, <1>4, <2>3, <2>4
  <2>6. \A s \in b.ids : new[s] # Absent /\ new[s].active /\ new[s].observed = at
    BY Zenon, <2>1, <2>3, <2>11
  <2>7. \A s \in Customers : new[s] # Absent => new[s].observed <= at
    <3> SUFFICES ASSUME NEW s \in Customers, new[s] # Absent PROVE new[s].observed <= at
      BY Zenon
    <3>1. CASE s \in b.ids
      BY <1>1, <2>6, <3>1
    <3>2. CASE s \notin b.ids
      <4>1. new[s] = old[s] \/ (old[s] # Absent /\ new[s] = [old[s] EXCEPT !.active = FALSE, !.observed = at])
        BY Zenon, <2>3, <3>2
      <4>2. CASE new[s] = old[s]
        BY Zenon, <1>5, <4>2
      <4>3. CASE old[s] # Absent /\ new[s] = [old[s] EXCEPT !.active = FALSE, !.observed = at]
        <5>1. new[s].observed = at
          BY Zenon, <2>4, <4>3
        <5> QED BY <1>1, <5>1
      <4> QED BY Zenon, <4>1, <4>2, <4>3
    <3> QED BY Zenon, <3>1, <3>2
  <2>8. ~b.truncated => \A s \in Customers : new[s] # Absent /\ new[s].active => s \in b.ids
    <3> SUFFICES ASSUME ~b.truncated, NEW s \in Customers, new[s] # Absent, new[s].active, s \notin b.ids
                 PROVE  FALSE
      BY Zenon
    <3>1. CASE old[s] # Absent /\ old[s].active
      <4>1. new[s].active = FALSE
        BY Zenon, <2>3, <2>4, <3>1
      <4> QED BY Zenon, <4>1
    <3>2. CASE ~(old[s] # Absent /\ old[s].active)
      <4>1. new[s] = old[s]
        BY Zenon, <2>3, <3>2
      <4> QED BY Zenon, <3>2, <4>1
    <3> QED BY Zenon, <3>1, <3>2
  <2>9. new \in [Customers -> ConnectionRow \cup {Absent}]
    BY Zenon, <1>6, <2>5 DEF Connections
  <2>10. Pictured(bt, new)
    BY Zenon, <1>3, <2>1, <2>6, <2>7, <2>8 DEF Pictured
  <2> QED BY Zenon, <1>2, <1>6, <2>9, <2>10
<1> QED BY Zenon, <1>7, <1>8

\* The upsert and the connections are one transaction.
LEMMA BeatArrives ==
    ASSUME BeatInv, NEW b \in beats, NEW at \in Stamps, RelayHeartbeat(b, at)
    PROVE  BeatInv'
<1>1. \A c \in beats' : HeartbeatRequest(c)
  BY Zenon DEF BeatInv, RelayHeartbeat
<1>2. CASE ~(Wins(b, at) /\ Accepts(b))
  BY Zenon, <1>1, <1>2, BeatFrame DEF RelayHeartbeat
<1>3. CASE Wins(b, at) /\ Accepts(b)
  <2>1. PICK bt, cn : bt = [at |-> at, ids |-> b.ids, truncated |-> b.truncated] /\ cn = Connections(b, at)
    BY Zenon
  <2>2. bt \in HeartbeatRow /\ cn \in [Customers -> ConnectionRow \cup {Absent}] /\ Pictured(bt, cn)
    BY Zenon, <1>3, <2>1, Picture
  <2>3. beat' = [beat EXCEPT ![b.e] = bt] /\ conn' = [conn EXCEPT ![b.e] = cn]
    BY Zenon, <1>3, <2>1 DEF RelayHeartbeat
  <2>4. /\ beat' \in [Edges -> HeartbeatRow \cup {Absent}]
        /\ conn' \in [Edges -> [Customers -> ConnectionRow \cup {Absent}]]
    BY Zenon, <2>2, <2>3 DEF BeatInv
  <2>5. \A e \in Edges : Pictured(beat'[e], conn'[e])
    BY <2>2, <2>3 DEF BeatInv, ConnectionsMatchHeartbeat, Pictured
  <2>6. ConnectionsMatchHeartbeat'
    BY Zenon, <2>5 DEF ConnectionsMatchHeartbeat, Pictured
  <2> QED BY Zenon, <1>1, <2>4, <2>6 DEF BeatInv, HeartbeatRequest
<1> QED BY Zenon, <1>2, <1>3

\* Every step keeps the picture.
LEMMA BeatNext == BeatInv /\ [RrNext]_rrVars => BeatInv'
<1> SUFFICES ASSUME BeatInv, [RrNext]_rrVars PROVE BeatInv'
  BY Zenon
<1>1. CASE UNCHANGED beatVars
  BY Zenon, <1>1, BeatFrame DEF BeatInv, beatVars
<1>2. CASE Heartbeats
  <2>1. CASE \E e \in Edges, ids \in (SUBSET (Customers \cup Unknown)) \cup {Absent}, t \in BOOLEAN :
                SendHeartbeat(e, ids, t)
    BY <2>1, BeatFrame DEF SendHeartbeat, BeatInv, HeartbeatRequest
  <2>2. CASE \E b \in beats : HeartbeatLost(b)
    BY Zenon, <2>2, BeatFrame DEF HeartbeatLost, BeatInv
  <2>3. CASE \E b \in beats : \E at \in Stamps : RelayHeartbeat(b, at)
    BY Zenon, <2>3, BeatArrives
  <2> QED BY Zenon, <1>2, <2>1, <2>2, <2>3 DEF Heartbeats
<1>3. CASE UNCHANGED rrVars
  BY Zenon, <1>1, <1>3 DEF rrVars
<1>4. CASE \E e \in Edges : Reporter(e)
  BY Zenon, <1>1, <1>4 DEF Reporter, Forward, AddBatch, FlushSnapshot, FlushSend, FlushSaveFails,
                    FlushTimeout, FlushPrune, EdgeRestart
<1>5. CASE Ingestion
  BY Zenon, <1>1, <1>5 DEF Ingestion, RefuseDays, IngestRead, IngestCommit, IngestConflict, PostLost
<1>6. CASE CleanupDailyBandwidth \/ Midnight
  BY Zenon, <1>1, <1>6 DEF CleanupDailyBandwidth, Midnight
<1> QED BY Zenon, <1>2, <1>3, <1>4, <1>5, <1>6 DEF RrNext

\* The connections stored for an edge are those of the newest heartbeat the backend
\* accepted, however heartbeats are lost, delayed and reordered (relay_heartbeat,
\* persist_relay_heartbeat, persist_relay_subscription_connections).
THEOREM NewestPictureStays == RrSpec => []ConnectionsMatchHeartbeat
<1>1. BeatInv => ConnectionsMatchHeartbeat
  BY Zenon DEF BeatInv
<1> QED BY <1>1, BeatInit, BeatNext, PTL DEF RrSpec

-----------------------------------------------------------------------------
(* The ledger and the cursors *)

CursorRow == [sequence : Nat, n : Nat]
FlushState == {NoFlush} \cup [pc : {"send", "wait", "prune"}, due : SUBSET Entries, snap : [Entries -> Nat]]

\* A request carries counters of its edge under a number of its edge.
Report(q) ==
    /\ q.e \in Edges /\ q.sequence \in Nat
    /\ DOMAIN q.n \subseteq Entries /\ \A k \in DOMAIN q.n : q.n[k] \in Nat

LedgerType ==
    /\ today \in Days
    /\ adding \in [Edges -> Entries \cup {Absent}]
    /\ counters \in [Edges -> [Entries -> Nat]]
    /\ sequence \in [Edges -> Nat]
    /\ ledger \in [Edges -> [sequence : Nat, counters : [Entries -> Nat]]]
    /\ flush \in [Edges -> FlushState]
    /\ cursor \in [Edges -> [Entries -> CursorRow \cup {Absent}]]
    /\ \A q \in posts : Report(q)

\* The numbers in use are behind the one in the ledger, which is behind the edge's.
Numbered(e) ==
    /\ ledger[e].sequence <= sequence[e]
    /\ \A q \in posts : q.e = e => q.sequence <= ledger[e].sequence
    /\ \A k \in Entries : cursor[e][k] # Absent => cursor[e][k].sequence <= ledger[e].sequence

\* The counter of a day that is not over: what was sent or stored is in the ledger, and
\* what is in the ledger or about to be sent is in memory.
Leading(e, k) ==
    /\ ledger[e].counters[k] <= counters[e][k]
    /\ flush[e] # NoFlush => flush[e].snap[k] <= counters[e][k]
    /\ \A q \in posts : q.e = e /\ k \in DOMAIN q.n => q.n[k] <= ledger[e].counters[k]
    /\ cursor[e][k] # Absent => cursor[e][k].n <= ledger[e].counters[k]

LedgerInv ==
    /\ LedgerType
    /\ \A e \in Edges : Numbered(e)
    /\ \A e \in Edges, k \in Entries : k[2] >= today => Leading(e, k)

\* What the invariant says of one edge and one entry.
LEMMA LedgerView ==
    ASSUME LedgerInv, NEW e \in Edges, NEW k \in Entries
    PROVE  /\ ledger[e].sequence \in Nat /\ ledger[e].counters \in [Entries -> Nat] /\ ledger[e].counters[k] \in Nat
           /\ counters[e] \in [Entries -> Nat] /\ counters[e][k] \in Nat /\ sequence[e] \in Nat
           /\ flush[e] \in FlushState /\ cursor[e] \in [Entries -> CursorRow \cup {Absent}]
           /\ flush[e] # NoFlush => flush[e].snap \in [Entries -> Nat] /\ flush[e].snap[k] \in Nat
                                    /\ flush[e].due \subseteq Entries
           /\ cursor[e][k] # Absent => cursor[e][k].n \in Nat /\ cursor[e][k].sequence \in Nat
           /\ k[2] \in Nat /\ today \in Nat
           /\ Numbered(e) /\ (k[2] >= today => Leading(e, k))
<1>1. /\ ledger[e] \in [sequence : Nat, counters : [Entries -> Nat]] /\ counters[e] \in [Entries -> Nat]
      /\ sequence[e] \in Nat /\ flush[e] \in FlushState
      /\ cursor[e] \in [Entries -> CursorRow \cup {Absent}] /\ today \in Days
  BY Zenon DEF LedgerInv, LedgerType
<1>2. cursor[e][k] # Absent => cursor[e][k] \in CursorRow
  BY Zenon, <1>1
<1>3. k[2] \in Nat /\ today \in Nat
  BY <1>1 DEF Entries, Days
<1> QED BY Zenon, <1>1, <1>2, <1>3 DEF LedgerInv, CursorRow, FlushState

\* NoFlush has a pc of its own.
LEMMA Flushing ==
    ASSUME LedgerInv, NEW e \in Edges
    PROVE  flush[e].pc # "idle" => flush[e] # NoFlush /\ flush[e] \in
              [pc : {"send", "wait", "prune"}, due : SUBSET Entries, snap : [Entries -> Nat]]
BY DEF LedgerInv, LedgerType, FlushState, NoFlush

\* Nothing is counted, saved or stored at first.
LEMMA LedgerInit == RrInit => LedgerInv
<1> SUFFICES ASSUME RrInit PROVE LedgerInv
  BY Zenon
<1>1. LedgerType
  BY RelayReportsAssumption DEF RrInit, LedgerType, Zero, Days, FlushState, NoFlush
<1>2. \A e \in Edges : Numbered(e)
  BY DEF RrInit, Numbered
<1>3. \A e \in Edges, k \in Entries : Leading(e, k)
  BY DEF RrInit, Leading, Zero, NoFlush
<1> QED BY Zenon, <1>1, <1>2, <1>3 DEF LedgerInv

\* A step of the edge that keeps the stored rows and the requests: it suffices that
\* the ledger and the memory only grow for a day that is not over.
LEMMA EdgeStep ==
    ASSUME LedgerInv, LedgerType', today' = today, UNCHANGED <<posts, cursor>>,
           \A e \in Edges : ledger[e].sequence <= ledger'[e].sequence /\ ledger'[e].sequence <= sequence'[e],
           \A e \in Edges, k \in Entries : k[2] >= today =>
              /\ ledger[e].counters[k] <= ledger'[e].counters[k]
              /\ ledger'[e].counters[k] <= counters'[e][k]
              /\ flush'[e] # NoFlush => flush'[e].snap[k] <= counters'[e][k]
    PROVE  LedgerInv'
<1>1. ASSUME NEW e \in Edges PROVE Numbered(e)'
  <2>1. /\ ledger[e].sequence \in Nat /\ ledger'[e].sequence \in Nat
        /\ \A q \in posts : q.sequence \in Nat
        /\ \A k \in Entries : cursor[e][k] # Absent => cursor[e][k].sequence \in Nat
    BY Zenon, <1>1, LedgerView DEF LedgerInv, LedgerType, Report
  <2> QED BY <1>1, <2>1 DEF LedgerInv, Numbered
<1>2. ASSUME NEW e \in Edges, NEW k \in Entries, k[2] >= today PROVE Leading(e, k)'
  <2>1. ledger[e].counters[k] \in Nat /\ ledger'[e].counters[k] \in Nat
    BY ZenonT(30), <1>2, LedgerView DEF LedgerType
  <2>2. \A q \in posts : q.e = e /\ k \in DOMAIN q.n => q.n[k] \in Nat
    BY Zenon DEF LedgerInv, LedgerType, Report
  <2>3. cursor[e][k] # Absent => cursor[e][k].n \in Nat
    BY Zenon, <1>2, LedgerView
  <2> QED BY <1>2, <2>1, <2>2, <2>3 DEF LedgerInv, Leading
<1> QED BY Zenon, <1>1, <1>2 DEF LedgerInv

\* A step of the backend, or a change of day: a request is dropped or keeps what it
\* carries, a cursor is dropped or takes what a request carries.
LEMMA BackStep ==
    ASSUME LedgerInv, LedgerType', today <= today', UNCHANGED <<counters, sequence, ledger>>,
           \A e \in Edges : flush'[e] # NoFlush => flush[e] # NoFlush /\ flush'[e].snap = flush[e].snap,
           \A q \in posts' : \E o \in posts : q.e = o.e /\ q.sequence = o.sequence /\ q.n = o.n,
           \A e \in Edges, k \in Entries : cursor'[e][k] # Absent =>
              \/ cursor'[e][k] = cursor[e][k]
              \/ \E q \in posts : /\ q.e = e /\ k \in DOMAIN q.n
                                  /\ cursor'[e][k].sequence = q.sequence /\ cursor'[e][k].n = q.n[k]
    PROVE  LedgerInv'
<1>1. ASSUME NEW e \in Edges PROVE Numbered(e)'
  <2>1. Numbered(e)
    BY Zenon, <1>1 DEF LedgerInv
  <2>2. \A q \in posts' : q.e = e => q.sequence <= ledger[e].sequence
    BY <2>1 DEF Numbered
  <2>3. \A k \in Entries : cursor'[e][k] # Absent => cursor'[e][k].sequence <= ledger[e].sequence
    BY <1>1, <2>1 DEF Numbered
  <2> QED BY Zenon, <2>1, <2>2, <2>3 DEF Numbered
<1>2. ASSUME NEW e \in Edges, NEW k \in Entries, k[2] >= today' PROVE Leading(e, k)'
  <2>1. k[2] >= today
    <3>1. k[2] \in Nat /\ today \in Nat /\ today' \in Nat
      BY <1>2, LedgerView DEF LedgerType, Days
    <3> QED BY <1>2, <3>1
  <2>2. Leading(e, k)
    BY Zenon, <1>2, <2>1 DEF LedgerInv
  <2>3. \A q \in posts' : q.e = e /\ k \in DOMAIN q.n => q.n[k] <= ledger[e].counters[k]
    BY <2>2 DEF Leading
  <2>4. cursor'[e][k] # Absent => cursor'[e][k].n <= ledger[e].counters[k]
    BY ZenonT(30), <1>2, <2>2 DEF Leading
  <2> QED BY Zenon, <1>2, <2>2, <2>3, <2>4 DEF Leading
<1> QED BY Zenon, <1>1, <1>2 DEF LedgerInv

\* Traffic is noted, then counted.
LEMMA CountKeeps ==
    ASSUME LedgerInv, NEW e \in Edges, (\E s \in Customers : Forward(e, s)) \/ AddBatch(e)
    PROVE  LedgerInv'
<1>1. CASE \E s \in Customers : Forward(e, s)
  <2>1. LedgerType'
    <3>1. PICK s \in Customers : Forward(e, s)
      BY Zenon, <1>1
    <3>2. <<s, today>> \in Entries
      BY Zenon DEF LedgerInv, LedgerType, Entries
    <3>3. adding' \in [Edges -> Entries \cup {Absent}]
      BY Zenon, <3>1, <3>2 DEF LedgerInv, LedgerType, Forward
    <3> QED BY Zenon, <3>1, <3>3 DEF LedgerInv, LedgerType, Forward, dbVars, Report
  <2>2. UNCHANGED <<today, counters, sequence, ledger, flush, posts, cursor>>
    BY Zenon, <1>1 DEF Forward, dbVars
  <2>3. \A f \in Edges, k \in Entries : ledger[f].sequence \in Nat /\ ledger[f].counters[k] \in Nat
    BY Zenon, LedgerView
  <2> QED BY Zenon, <2>1, <2>2, <2>3, EdgeStep DEF LedgerInv, LedgerType, Leading, Numbered
<1>2. CASE AddBatch(e)
  <2>1. PICK a \in Entries : a = adding[e]
    BY Zenon, <1>2 DEF LedgerInv, LedgerType, AddBatch
  <2>2. PICK m : m = IF counters[e][a] < MaxInt64 THEN counters[e][a] + 1 ELSE counters[e][a]
    BY Zenon
  <2>3. counters' = [counters EXCEPT ![e][a] = m] /\ m \in Nat /\ counters[e][a] <= m
    <3>1. counters' = [counters EXCEPT ![e][a] = m]
      BY Zenon, <1>2, <2>1, <2>2 DEF AddBatch
    <3>2. counters[e][a] \in Nat
      BY Zenon, LedgerView
    <3>3. m = counters[e][a] + 1 \/ m = counters[e][a]
      BY Zenon, <2>2
    <3> QED BY <3>1, <3>2, <3>3
  <2>4. UNCHANGED <<today, sequence, ledger, flush, posts, cursor>> /\ adding' = [adding EXCEPT ![e] = Absent]
    BY Zenon, <1>2 DEF AddBatch, dbVars
  <2>5. counters' \in [Edges -> [Entries -> Nat]] /\ \A f \in Edges, k \in Entries : counters[f][k] <= counters'[f][k]
    <3>1. counters \in [Edges -> [Entries -> Nat]]
      BY Zenon DEF LedgerInv, LedgerType
    <3> QED BY <2>3, <3>1
  <2>6. LedgerType'
    BY Zenon, <2>4, <2>5 DEF LedgerInv, LedgerType, Report
  <2>7. ASSUME NEW f \in Edges, NEW k \in Entries, k[2] >= today
        PROVE  /\ ledger[f].counters[k] <= counters'[f][k]
               /\ flush'[f] # NoFlush => flush'[f].snap[k] <= counters'[f][k]
    <3>1. counters[f][k] <= counters'[f][k] /\ counters'[f][k] \in Nat
      BY Zenon, <2>5, <2>7
    <3> QED BY <2>4, <2>7, <3>1, LedgerView DEF Leading
  <2>8. \A f \in Edges, k \in Entries : ledger[f].sequence \in Nat /\ ledger[f].counters[k] \in Nat
    BY Zenon, LedgerView
  <2> QED BY <2>4, <2>6, <2>7, <2>8, EdgeStep DEF LedgerInv, Numbered
<1> QED BY Zenon, <1>1, <1>2

\* The snapshot is taken and saved.
LEMMA SnapshotKeeps ==
    ASSUME LedgerInv, NEW e \in Edges, FlushSnapshot(e)
    PROVE  LedgerInv'
<1>1. /\ ledger' = [ledger EXCEPT ![e] = [sequence |-> sequence[e], counters |-> counters[e]]]
      /\ UNCHANGED <<today, adding, counters, sequence, posts, cursor>>
  BY Zenon DEF FlushSnapshot, Saved, dbVars
<1>2. PICK fl \in FlushState : flush' = [flush EXCEPT ![e] = fl] /\ (fl # NoFlush => fl.snap = counters[e])
  <2>1. PICK d \in SUBSET Entries : d = {k \in Entries : counters[e][k] > 0}
    BY Zenon
  <2>2. PICK r : r = [pc |-> "send", due |-> d, snap |-> counters[e]]
    BY Zenon
  <2>3. counters[e] \in [Entries -> Nat]
    BY Zenon DEF LedgerInv, LedgerType
  <2>4. r \in FlushState /\ r.snap = counters[e]
    BY Zenon, <2>2, <2>3 DEF FlushState
  <2>5. NoFlush \in FlushState
    BY Zenon DEF FlushState
  <2>6. flush' = [flush EXCEPT ![e] = IF d = {} THEN NoFlush ELSE r]
    BY Zenon, <2>1, <2>2 DEF FlushSnapshot
  <2> QED BY Zenon, <2>4, <2>5, <2>6
<1>3. LedgerType'
  <2>1. [sequence |-> sequence[e], counters |-> counters[e]] \in [sequence : Nat, counters : [Entries -> Nat]]
    BY Zenon DEF LedgerInv, LedgerType
  <2> QED BY Zenon, <1>1, <1>2, <2>1 DEF LedgerInv, LedgerType, Report
<1>4. /\ ledger'[e].sequence = sequence[e] /\ ledger'[e].counters = counters[e]
      /\ \A f \in Edges : f # e => ledger'[f] = ledger[f] /\ flush'[f] = flush[f]
      /\ flush'[e] = fl
  BY Zenon, <1>1, <1>2 DEF LedgerInv, LedgerType
<1>5. ASSUME NEW f \in Edges
      PROVE  ledger[f].sequence <= ledger'[f].sequence /\ ledger'[f].sequence <= sequence'[f]
  <2>1. ledger[f].sequence \in Nat /\ sequence[f] \in Nat /\ ledger[f].sequence <= sequence[f]
    BY Zenon, <1>5 DEF LedgerInv, LedgerType, Numbered
  <2> QED BY <1>1, <1>4, <1>5, <2>1
<1>6. ASSUME NEW f \in Edges, NEW k \in Entries, k[2] >= today
      PROVE  /\ ledger[f].counters[k] <= ledger'[f].counters[k]
             /\ ledger'[f].counters[k] <= counters'[f][k]
             /\ flush'[f] # NoFlush => flush'[f].snap[k] <= counters'[f][k]
  <2>1. ledger[f].counters[k] \in Nat /\ counters[f][k] \in Nat /\ Leading(f, k)
    BY Zenon, <1>6, LedgerView
  <2> QED BY <1>1, <1>2, <1>4, <1>6, <2>1 DEF Leading
<1> QED BY Zenon, <1>1, <1>3, <1>5, <1>6, EdgeStep

\* The flush is given up, or the edge restarts from its ledger.
LEMMA AbandonKeeps ==
    ASSUME LedgerInv, NEW e \in Edges, FlushSaveFails(e) \/ FlushTimeout(e) \/ EdgeRestart(e)
    PROVE  LedgerInv'
<1>1. UNCHANGED <<today, ledger, posts, cursor>> /\ flush' = [flush EXCEPT ![e] = NoFlush]
  BY Zenon DEF FlushSaveFails, FlushTimeout, EdgeRestart, dbVars
<1>2. flush' \in [Edges -> FlushState] /\ \A f \in Edges : flush'[f] # NoFlush => f # e /\ flush'[f] = flush[f]
  BY Zenon, <1>1 DEF LedgerInv, LedgerType, FlushState
<1>3. /\ adding' \in [Edges -> Entries \cup {Absent}] /\ sequence' \in [Edges -> Nat]
      /\ counters' \in [Edges -> [Entries -> Nat]]
      /\ \A f \in Edges : f # e => sequence'[f] = sequence[f] /\ counters'[f] = counters[f]
      /\ sequence'[e] \in {sequence[e], sequence[e] + 1, ledger[e].sequence}
      /\ counters'[e] \in {counters[e], ledger[e].counters}
  <2>1. /\ adding \in [Edges -> Entries \cup {Absent}] /\ sequence \in [Edges -> Nat]
        /\ counters \in [Edges -> [Entries -> Nat]] /\ ledger[e].sequence \in Nat
        /\ ledger[e].counters \in [Entries -> Nat]
    BY Zenon DEF LedgerInv, LedgerType
  <2>2. CASE FlushSaveFails(e)
    BY <2>1, <2>2 DEF FlushSaveFails
  <2>3. CASE FlushTimeout(e)
    BY Zenon, <2>1, <2>3 DEF FlushTimeout
  <2>4. CASE EdgeRestart(e)
    BY Zenon, <2>1, <2>4 DEF EdgeRestart
  <2> QED BY Zenon, <2>2, <2>3, <2>4
<1>4. LedgerType'
  BY Zenon, <1>1, <1>2, <1>3 DEF LedgerInv, LedgerType, Report
<1>5. ASSUME NEW f \in Edges
      PROVE  ledger[f].sequence <= ledger'[f].sequence /\ ledger'[f].sequence <= sequence'[f]
  <2>1. ledger[f].sequence \in Nat /\ sequence[f] \in Nat /\ ledger[f].sequence <= sequence[f]
    BY Zenon, <1>5 DEF LedgerInv, LedgerType, Numbered
  <2> QED BY <1>1, <1>3, <1>5, <2>1
<1>6. ASSUME NEW f \in Edges, NEW k \in Entries, k[2] >= today
      PROVE  /\ ledger[f].counters[k] <= ledger'[f].counters[k]
             /\ ledger'[f].counters[k] <= counters'[f][k]
             /\ flush'[f] # NoFlush => flush'[f].snap[k] <= counters'[f][k]
  <2>1. ledger[f].counters[k] \in Nat /\ counters[f][k] \in Nat /\ Leading(f, k)
    BY Zenon, <1>6, LedgerView
  <2> QED BY <1>1, <1>2, <1>3, <1>6, <2>1 DEF Leading
<1> QED BY Zenon, <1>1, <1>4, <1>5, <1>6, EdgeStep

\* Days that are over are dropped from memory and ledger.
LEMMA PruneKeeps ==
    ASSUME LedgerInv, NEW e \in Edges, FlushPrune(e)
    PROVE  LedgerInv'
<1>1. PICK c : c = [k \in Entries |-> IF k[2] < today THEN 0 ELSE counters[e][k]]
  BY Zenon
<1>2. counters \in [Edges -> [Entries -> Nat]] /\ c \in [Entries -> Nat]
  BY Zenon, <1>1 DEF LedgerInv, LedgerType
<1>3. /\ counters' = [counters EXCEPT ![e] = c] /\ sequence' = sequence
      /\ ledger' = [ledger EXCEPT ![e] = [sequence |-> sequence'[e], counters |-> counters'[e]]]
      /\ flush' = [flush EXCEPT ![e] = NoFlush]
      /\ UNCHANGED <<today, adding, posts, cursor>>
  BY Zenon, <1>1 DEF FlushPrune, Saved, dbVars
<1>4. /\ counters'[e] = c /\ ledger'[e].sequence = sequence[e] /\ ledger'[e].counters = c
      /\ \A f \in Edges : f # e => /\ ledger'[f] = ledger[f] /\ flush'[f] = flush[f]
                                   /\ counters'[f] = counters[f]
      /\ flush'[e] = NoFlush
  BY Zenon, <1>2, <1>3 DEF LedgerInv, LedgerType
<1>5. LedgerType'
  <2>1. ledger' \in [Edges -> [sequence : Nat, counters : [Entries -> Nat]]]
    BY Zenon, <1>2, <1>3, <1>4 DEF LedgerInv, LedgerType
  <2>2. flush' \in [Edges -> FlushState]
    BY Zenon, <1>3 DEF LedgerInv, LedgerType, FlushState
  <2>3. counters' \in [Edges -> [Entries -> Nat]]
    BY Zenon, <1>2, <1>3
  <2> QED BY Zenon, <1>3, <2>1, <2>2, <2>3 DEF LedgerInv, LedgerType, Report
<1>6. ASSUME NEW f \in Edges
      PROVE  ledger[f].sequence <= ledger'[f].sequence /\ ledger'[f].sequence <= sequence'[f]
  <2>1. ledger[f].sequence \in Nat /\ sequence[f] \in Nat /\ ledger[f].sequence <= sequence[f]
    BY Zenon, <1>6 DEF LedgerInv, LedgerType, Numbered
  <2> QED BY <1>3, <1>4, <1>6, <2>1
<1>7. ASSUME NEW f \in Edges, NEW k \in Entries, k[2] >= today
      PROVE  /\ ledger[f].counters[k] <= ledger'[f].counters[k]
             /\ ledger'[f].counters[k] <= counters'[f][k]
             /\ flush'[f] # NoFlush => flush'[f].snap[k] <= counters'[f][k]
  <2>1. ledger[f].counters[k] \in Nat /\ counters[f][k] \in Nat /\ Leading(f, k) /\ ~(k[2] < today)
    BY <1>7, LedgerView
  <2>2. c[k] = counters[e][k]
    BY Zenon, <1>1, <2>1
  <2> QED BY <1>4, <1>7, <2>1, <2>2 DEF Leading
<1> QED BY Zenon, <1>3, <1>5, <1>6, <1>7, EdgeStep

\* A batch is saved, then sent.
LEMMA SendKeeps ==
    ASSUME LedgerInv, NEW e \in Edges, FlushSend(e)
    PROVE  LedgerInv'
<1>1. PICK b \in Batches(flush[e].due) :
         /\ flush' = [flush EXCEPT ![e].pc = "wait", ![e].due = @ \ b]
         /\ posts' = posts \cup {[e |-> e, sequence |-> sequence'[e], pc |-> "sent",
                                  n |-> [k \in b |-> flush[e].snap[k]]]}
  BY Zenon DEF FlushSend
<1>2. /\ flush[e] # NoFlush /\ flush[e].snap \in [Entries -> Nat] /\ flush[e].due \in SUBSET Entries
      /\ flush[e] \in [pc : {"send", "wait", "prune"}, due : SUBSET Entries, snap : [Entries -> Nat]]
  BY Zenon, Flushing DEF FlushSend
<1>3. b \subseteq Entries
  BY Zenon, <1>1, <1>2 DEF Batches
<1>4. PICK n \in Nat : n = sequence[e] + 1
  BY DEF LedgerInv, LedgerType
<1>5. /\ sequence' = [sequence EXCEPT ![e] = n] /\ counters' = counters
      /\ ledger' = [ledger EXCEPT ![e] = [sequence |-> sequence'[e], counters |-> counters'[e]]]
      /\ UNCHANGED <<today, adding, cursor>>
  BY Zenon, <1>4 DEF FlushSend, Saved, dbVars
<1>6. /\ sequence'[e] = n /\ ledger'[e].sequence = n /\ ledger'[e].counters = counters[e]
      /\ \A f \in Edges : f # e => /\ ledger'[f] = ledger[f] /\ sequence'[f] = sequence[f]
  BY Zenon, <1>5 DEF LedgerInv, LedgerType
<1>7. PICK q : q = [e |-> e, sequence |-> n, pc |-> "sent", n |-> [k \in b |-> flush[e].snap[k]]]
  BY Zenon
<1>8. /\ posts' = posts \cup {q} /\ q.e = e /\ q.sequence = n /\ DOMAIN q.n = b
      /\ \A k \in b : q.n[k] = flush[e].snap[k]
  BY Zenon, <1>1, <1>6, <1>7
<1>9. flush' \in [Edges -> FlushState] /\ \A f \in Edges : flush'[f] # NoFlush =>
                                             flush[f] # NoFlush /\ flush'[f].snap = flush[f].snap
  <2>1. PICK r : r = [flush[e] EXCEPT !.pc = "wait", !.due = @ \ b]
    BY Zenon
  <2>2. flush' = [flush EXCEPT ![e] = r]
    BY Zenon, <1>1, <2>1 DEF LedgerInv, LedgerType
  <2>3. r \in [pc : {"send", "wait", "prune"}, due : SUBSET Entries, snap : [Entries -> Nat]]
        /\ r.snap = flush[e].snap
    BY Zenon, <1>2, <2>1
  <2> QED BY Zenon, <1>2, <2>2, <2>3 DEF LedgerInv, LedgerType, FlushState
<1>10. LedgerType'
  <2>1. sequence' \in [Edges -> Nat]
    BY Zenon, <1>5 DEF LedgerInv, LedgerType
  <2>2. ledger' \in [Edges -> [sequence : Nat, counters : [Entries -> Nat]]]
    BY Zenon, <1>5, <1>6 DEF LedgerInv, LedgerType
  <2>3. Report(q)
    BY Zenon, <1>2, <1>3, <1>8 DEF Report
  <2>4. \A o \in posts' : Report(o)
    BY Zenon, <1>8, <2>3 DEF LedgerInv, LedgerType
  <2> QED BY Zenon, <1>5, <1>9, <2>1, <2>2, <2>4 DEF LedgerInv, LedgerType, Report
<1>11. ASSUME NEW f \in Edges PROVE Numbered(f)'
  <2>1. /\ ledger[f].sequence \in Nat /\ sequence[f] \in Nat /\ Numbered(f)
        /\ \A o \in posts : o.sequence \in Nat
        /\ \A k \in Entries : cursor[f][k] # Absent => cursor[f][k].sequence \in Nat
    BY Zenon, <1>11, LedgerView DEF LedgerInv, LedgerType, Report
  <2>2. ledger[f].sequence <= ledger'[f].sequence /\ ledger'[f].sequence \in Nat /\ ledger'[f].sequence <= sequence'[f]
    BY <1>4, <1>6, <1>11, <2>1 DEF Numbered
  <2>3. \A o \in posts' : o.e = f => o.sequence <= ledger'[f].sequence
    BY <1>6, <1>8, <2>1, <2>2 DEF Numbered
  <2>4. \A k \in Entries : cursor[f][k] # Absent => cursor[f][k].sequence <= ledger'[f].sequence
    BY <2>1, <2>2 DEF Numbered
  <2> QED BY Zenon, <1>5, <2>2, <2>3, <2>4 DEF Numbered
<1>12. ASSUME NEW f \in Edges, NEW k \in Entries, k[2] >= today PROVE Leading(f, k)'
  <2>1. /\ ledger[f].counters[k] \in Nat /\ counters[f][k] \in Nat /\ Leading(f, k)
        /\ flush[f] # NoFlush => flush[f].snap[k] \in Nat
        /\ cursor[f][k] # Absent => cursor[f][k].n \in Nat
    BY Zenon, <1>12, LedgerView
  <2>2. \A o \in posts : o.e = f /\ k \in DOMAIN o.n => o.n[k] \in Nat
    BY Zenon DEF LedgerInv, LedgerType, Report
  <2>3. /\ ledger[f].counters[k] <= ledger'[f].counters[k] /\ ledger'[f].counters[k] \in Nat
        /\ ledger'[f].counters[k] <= counters[f][k]
    BY <1>6, <1>12, <2>1 DEF Leading
  <2>4. \A o \in posts' : o.e = f /\ k \in DOMAIN o.n => o.n[k] <= ledger'[f].counters[k]
    <3>1. \A o \in posts : o.e = f /\ k \in DOMAIN o.n => o.n[k] <= ledger'[f].counters[k]
      BY <2>1, <2>2, <2>3 DEF Leading
    <3>2. f = e /\ k \in b => q.n[k] <= ledger'[f].counters[k]
      BY ZenonT(30), <1>2, <1>6, <1>8, <2>1 DEF Leading
    <3> QED BY Zenon, <1>8, <3>1, <3>2
  <2>5. cursor[f][k] # Absent => cursor[f][k].n <= ledger'[f].counters[k]
    BY <2>1, <2>3 DEF Leading
  <2>6. flush'[f] # NoFlush => flush'[f].snap[k] <= counters[f][k]
    BY Zenon, <1>9, <1>12, <2>1 DEF Leading
  <2> QED BY Zenon, <1>5, <2>3, <2>4, <2>5, <2>6 DEF Leading
<1> QED BY Zenon, <1>5, <1>10, <1>11, <1>12 DEF LedgerInv

\* An answer, if it is waited for, ends the flush or moves it on.
LEMMA AnswerKeeps ==
    ASSUME LedgerInv, NEW q \in posts, NEW accepted, flush' = Answered(q, accepted)
    PROVE  /\ flush' \in [Edges -> FlushState]
           /\ \A e \in Edges : flush'[e] # NoFlush => flush[e] # NoFlush /\ flush'[e].snap = flush[e].snap
<1>1. flush \in [Edges -> FlushState] /\ q.e \in Edges
  BY Zenon DEF LedgerInv, LedgerType, Report
<1>2. CASE ~(flush[q.e].pc = "wait" /\ sequence[q.e] = q.sequence)
  BY Zenon, <1>1, <1>2 DEF Answered
<1>3. CASE flush[q.e].pc = "wait" /\ sequence[q.e] = q.sequence
  <2>1. flush[q.e] # NoFlush /\ flush[q.e] \in
           [pc : {"send", "wait", "prune"}, due : SUBSET Entries, snap : [Entries -> Nat]]
    BY Zenon, <1>1, <1>3, Flushing
  <2>2. PICK p \in {"send", "prune"} : p = IF flush[q.e].due # {} THEN "send" ELSE "prune"
    BY Zenon
  <2>3. PICK r : r = [flush[q.e] EXCEPT !.pc = p]
    BY Zenon
  <2>4. r \in FlushState /\ r.snap = flush[q.e].snap
    BY Zenon, <2>1, <2>2, <2>3 DEF FlushState
  <2>5. flush' = [flush EXCEPT ![q.e] = IF ~accepted THEN NoFlush ELSE r]
    BY Zenon, <1>1, <1>3, <2>2, <2>3 DEF Answered
  <2>6. NoFlush \in FlushState
    BY Zenon DEF FlushState
  <2> QED BY ZenonT(30), <1>1, <2>1, <2>4, <2>5, <2>6
<1> QED BY Zenon, <1>2, <1>3

\* A request that is refused or lost changes no row.
LEMMA RefuseKeeps ==
    ASSUME LedgerInv, NEW q \in posts, RefuseDays(q) \/ IngestConflict(q) \/ PostLost(q)
    PROVE  LedgerInv'
<1>1. /\ posts' = posts \ {q} /\ flush' = Answered(q, FALSE)
      /\ UNCHANGED <<today, adding, counters, sequence, ledger, cursor>>
  BY Zenon DEF RefuseDays, IngestConflict, PostLost, dbVars
<1>2. /\ flush' \in [Edges -> FlushState]
      /\ \A e \in Edges : flush'[e] # NoFlush => flush[e] # NoFlush /\ flush'[e].snap = flush[e].snap
  BY Zenon, <1>1, AnswerKeeps
<1>3. LedgerType'
  BY Zenon, <1>1, <1>2 DEF LedgerInv, LedgerType, Report
<1>4. today <= today'
  BY <1>1 DEF LedgerInv, LedgerType, Days
<1> QED BY Zenon, <1>1, <1>2, <1>3, <1>4, BackStep

\* A request takes its locks and reads its cursors.
LEMMA ReadKeeps ==
    ASSUME LedgerInv, NEW q \in posts, IngestRead(q)
    PROVE  LedgerInv'
<1>1. UNCHANGED <<today, adding, counters, sequence, ledger, flush, cursor>>
  BY Zenon DEF IngestRead, edgeVars, dbVars
<1>2. PICK o : /\ posts' = (posts \ {q}) \cup {o}
               /\ o.e = q.e /\ o.sequence = q.sequence /\ o.n = q.n
  <2>1. PICK o : o = [e |-> q.e, sequence |-> q.sequence, n |-> q.n,
                      pc |-> "locked", seen |-> [k \in DOMAIN q.n |-> cursor[q.e][k]],
                      sum |-> [k \in DOMAIN q.n |-> daily[k]]]
    BY Zenon
  <2>2. o.e = q.e /\ o.sequence = q.sequence /\ o.n = q.n
    BY Zenon, <2>1
  <2>3. posts' = (posts \ {q}) \cup {o}
    BY Zenon, <2>1 DEF IngestRead
  <2> QED BY Zenon, <2>2, <2>3
<1>3. LedgerType'
  <2>1. Report(q) /\ \A p \in posts : Report(p)
    BY Zenon DEF LedgerInv, LedgerType
  <2>2. Report(o)
    BY Zenon, <1>2, <2>1 DEF Report
  <2> QED BY Zenon, <1>1, <1>2, <2>1, <2>2 DEF LedgerInv, LedgerType, Report
<1>4. today <= today'
  BY <1>1 DEF LedgerInv, LedgerType, Days
<1> QED BY Zenon, <1>1, <1>2, <1>3, <1>4, BackStep

\* A request is committed: the cursors it is newer than take its counters.
LEMMA CommitKeeps ==
    ASSUME LedgerInv, NEW q \in posts, IngestCommit(q)
    PROVE  LedgerInv'
<1>1. /\ posts' = posts \ {q} /\ flush' = Answered(q, TRUE)
      /\ UNCHANGED <<today, adding, counters, sequence, ledger>>
  BY Zenon DEF IngestCommit
<1>2. /\ flush' \in [Edges -> FlushState]
      /\ \A e \in Edges : flush'[e] # NoFlush => flush[e] # NoFlush /\ flush'[e].snap = flush[e].snap
  BY Zenon, <1>1, AnswerKeeps
<1>3. Report(q) /\ cursor \in [Edges -> [Entries -> CursorRow \cup {Absent}]]
  BY Zenon DEF LedgerInv, LedgerType
<1>4. PICK F \in SUBSET (DOMAIN q.n) : F = Fresh(q)
  BY Zenon DEF Fresh
<1>5. PICK c : c = [k \in Entries |-> IF k \in F THEN [sequence |-> q.sequence, n |-> q.n[k]]
                                                 ELSE cursor[q.e][k]]
  BY Zenon
<1>6. cursor' = [cursor EXCEPT ![q.e] = c]
  BY Zenon, <1>4, <1>5 DEF IngestCommit
<1>7. c \in [Entries -> CursorRow \cup {Absent}]
  <2>1. \A k \in F : [sequence |-> q.sequence, n |-> q.n[k]] \in CursorRow
    BY Zenon, <1>3, <1>4 DEF Report, CursorRow
  <2> QED BY Zenon, <1>3, <1>5, <2>1 DEF Report
<1>8. cursor' \in [Edges -> [Entries -> CursorRow \cup {Absent}]]
  BY Zenon, <1>3, <1>6, <1>7
<1>9. ASSUME NEW e \in Edges, NEW k \in Entries
      PROVE  \/ cursor'[e][k] = cursor[e][k]
             \/ \E o \in posts : /\ o.e = e /\ k \in DOMAIN o.n
                                 /\ cursor'[e][k].sequence = o.sequence /\ cursor'[e][k].n = o.n[k]
  <2>1. CASE e = q.e /\ k \in F
    <3>1. cursor'[e][k] = [sequence |-> q.sequence, n |-> q.n[k]]
      BY Zenon, <1>3, <1>5, <1>6, <1>9, <2>1
    <3> QED BY <1>4, <2>1, <3>1
  <2>2. CASE ~(e = q.e /\ k \in F)
    BY Zenon, <1>3, <1>5, <1>6, <1>9, <2>2
  <2> QED BY Zenon, <2>1, <2>2
<1>10. LedgerType'
  BY Zenon, <1>1, <1>2, <1>8 DEF LedgerInv, LedgerType, Report
<1>11. today <= today'
  BY <1>1 DEF LedgerInv, LedgerType, Days
<1> QED BY Zenon, <1>1, <1>2, <1>9, <1>10, <1>11, BackStep

\* Old cursors go; the day changes; heartbeats are another matter.
LEMMA ClockKeeps ==
    ASSUME LedgerInv, CleanupDailyBandwidth \/ Midnight \/ Heartbeats \/ UNCHANGED rrVars
    PROVE  LedgerInv'
<1>1. UNCHANGED <<adding, counters, sequence, ledger, flush, posts>>
  BY Zenon DEF CleanupDailyBandwidth, Midnight, Heartbeats, SendHeartbeat, HeartbeatLost, RelayHeartbeat,
         rrVars, edgeVars
<1>2. today' \in Days /\ today <= today'
  <2>1. today \in Days /\ today \in Nat /\ today >= 1 /\ MaxDay \in Nat
    BY RelayReportsAssumption DEF LedgerInv, LedgerType, Days
  <2>2. today' = today \/ (today < MaxDay /\ today' = today + 1)
    BY Zenon DEF CleanupDailyBandwidth, Midnight, Heartbeats, SendHeartbeat, HeartbeatLost, RelayHeartbeat, rrVars
  <2> QED BY <2>1, <2>2 DEF Days
<1>3. /\ cursor' \in [Edges -> [Entries -> CursorRow \cup {Absent}]]
      /\ \A e \in Edges, k \in Entries : cursor'[e][k] # Absent => cursor'[e][k] = cursor[e][k]
  <2>1. cursor \in [Edges -> [Entries -> CursorRow \cup {Absent}]]
    BY Zenon DEF LedgerInv, LedgerType
  <2>2. CASE CleanupDailyBandwidth
    <3>1. PICK b : cursor' = [e \in Edges |-> [k \in Entries |-> IF <<e, k>> \in b THEN Absent ELSE cursor[e][k]]]
      BY Zenon, <2>2 DEF CleanupDailyBandwidth
    <3> QED BY Zenon, <2>1, <3>1
  <2>3. CASE Midnight \/ Heartbeats \/ UNCHANGED rrVars
    <3>1. cursor' = cursor
      BY Zenon, <2>3 DEF Midnight, Heartbeats, SendHeartbeat, HeartbeatLost, RelayHeartbeat, rrVars, dbVars
    <3> QED BY Zenon, <2>1, <3>1
  <2> QED BY Zenon, <2>2, <2>3
<1>4. LedgerType'
  BY Zenon, <1>1, <1>2, <1>3 DEF LedgerInv, LedgerType, Report
<1> QED BY Zenon, <1>1, <1>2, <1>3, <1>4, BackStep

\* Every step keeps the ledger ahead.
LEMMA LedgerNext == LedgerInv /\ [RrNext]_rrVars => LedgerInv'
<1> SUFFICES ASSUME LedgerInv, [RrNext]_rrVars PROVE LedgerInv'
  BY Zenon
<1>1. CASE \E e \in Edges : Reporter(e)
  BY Zenon, <1>1, CountKeeps, SnapshotKeeps, SendKeeps, AbandonKeeps, PruneKeeps DEF Reporter
<1>2. CASE Ingestion
  BY Zenon, <1>2, RefuseKeeps, ReadKeeps, CommitKeeps DEF Ingestion
<1>3. CASE CleanupDailyBandwidth \/ Midnight \/ Heartbeats \/ UNCHANGED rrVars
  BY Zenon, <1>3, ClockKeeps
<1> QED BY Zenon, <1>1, <1>2, <1>3 DEF RrNext

\* What an edge would restart from is never behind what the backend has stored for the
\* current day, nor numbered before it (flush and persistLocked save before they send;
\* ingest_daily_bandwidth skips what is numbered before its cursor).
THEOREM LedgerIsAhead == RrSpec => []LedgerLeads
<1>1. LedgerInv => LedgerLeads
  <2> SUFFICES ASSUME LedgerInv, NEW e \in Edges, NEW s \in Customers, cursor[e][<<s, today>>] # Absent
               PROVE  /\ ledger[e].counters[<<s, today>>] >= cursor[e][<<s, today>>].n
                      /\ ledger[e].sequence >= cursor[e][<<s, today>>].sequence
    BY Zenon DEF LedgerLeads
  <2>1. today \in Days /\ today \in Nat
    BY DEF LedgerInv, LedgerType, Days
  <2>2. PICK k \in Entries : k = <<s, today>> /\ k[2] = today
    BY <2>1 DEF Entries
  <2> QED BY <2>1, <2>2, LedgerView DEF Leading, Numbered
<1> QED BY <1>1, LedgerInit, LedgerNext, PTL DEF RrSpec

-----------------------------------------------------------------------------
(* The peer rows *)

\* What an enrolment in progress knows: the next generation for an agent's key and,
\* once it has read the current row, that this row accepts it.
EnrolmentOK(k) ==
    /\ k.pc \in {"post", "current", "write"} => k.a \in Agents /\ k.generation \in Nat
    /\ k.pc = "write" => Acceptable(k.cur, k.a, k.generation)

PeerInv ==
    /\ wgPeer \in [Users -> PeerRow \cup {Nobody}]
    /\ \A r \in KeyRequests : EnrolmentOK(keyReq[r])
    /\ DOMAIN keyReq = KeyRequests

\* No enrolment is in progress at first.
LEMMA PeerInit == WgInit => PeerInv
BY DEF WgInit, PeerInv, PeerRow, EnrolmentOK, NoRequest

\* A request takes a step that does not write.
LEMMA RequestStep ==
    ASSUME PeerInv, wgPeer' = wgPeer, NEW r, NEW k, KeyStep(r, k), EnrolmentOK(k)
    PROVE  PeerInv'
BY Zenon DEF PeerInv, KeyStep, EnrolmentOK, Acceptable

\* GET /client/wireguard hands out the next generation.
LEMMA ConfigKeeps ==
    ASSUME PeerInv, NEW r \in KeyRequests, NEW a \in Agents, WireguardConfig(r, a)
    PROVE  PeerInv'
<1>1. AgentUser[a] \in Users
  BY Zenon, WireGuardAssumption
<1>2. PICK g \in Nat : g = GenerationOf(EnrolledPeer(AgentUser[a])) + 1
  <2>1. EnrolledPeer(AgentUser[a]) \in PeerRow \cup {Nobody}
    BY Zenon, <1>1 DEF PeerInv, EnrolledPeer
  <2>2. GenerationOf(EnrolledPeer(AgentUser[a])) \in Nat
    BY Zenon, <2>1 DEF GenerationOf, PeerRow
  <2> QED BY <2>2
<1>3. PICK k : k = [pc |-> "post", a |-> a, generation |-> g]
  BY Zenon
<1>4. EnrolmentOK(k)
  BY Zenon, <1>3 DEF EnrolmentOK
<1>5. KeyStep(r, k) /\ wgPeer' = wgPeer
  BY Zenon, <1>2, <1>3 DEF WireguardConfig
<1> QED BY Zenon, <1>4, <1>5, RequestStep

\* The checks before the write, and the answer after it.
LEMMA CheckKeeps ==
    ASSUME PeerInv, NEW r \in KeyRequests, WireguardKey(r) \/ ReadCurrent(r) \/ AnswerKey(r)
    PROVE  PeerInv'
<1>1. wgPeer' = wgPeer /\ EnrolmentOK(keyReq[r])
  BY Zenon DEF WireguardKey, ReadCurrent, AnswerKey, PeerInv
<1>2. EnrolmentOK(NoRequest)
  BY Zenon DEF EnrolmentOK, NoRequest
<1>3. CASE KeyStep(r, NoRequest)
  BY Zenon, <1>1, <1>2, <1>3, RequestStep
<1>4. CASE WireguardKey(r) /\ ~KeyStep(r, NoRequest)
  <2>1. PICK k : k = [pc |-> "current", a |-> keyReq[r].a, generation |-> keyReq[r].generation]
    BY Zenon
  <2>2. KeyStep(r, k) /\ keyReq[r].pc = "post"
    BY Zenon, <1>4, <2>1 DEF WireguardKey
  <2>3. EnrolmentOK(k)
    BY Zenon, <1>1, <2>1, <2>2 DEF EnrolmentOK
  <2> QED BY Zenon, <1>1, <2>2, <2>3, RequestStep
<1>5. CASE ReadCurrent(r) /\ ~KeyStep(r, NoRequest)
  <2>1. PICK c : c = wgPeer[AgentUser[keyReq[r].a]]
    BY Zenon
  <2>2. PICK k : k = [pc |-> "write", a |-> keyReq[r].a, generation |-> keyReq[r].generation, cur |-> c]
    BY Zenon
  <2>3. KeyStep(r, k) /\ keyReq[r].pc = "current" /\ Acceptable(c, keyReq[r].a, keyReq[r].generation)
    BY Zenon, <1>5, <2>1, <2>2 DEF ReadCurrent
  <2>4. k.pc = "write" /\ k.a = keyReq[r].a /\ k.generation = keyReq[r].generation /\ k.cur = c
    BY Zenon, <2>2
  <2>5. EnrolmentOK(k)
    BY Zenon, <1>1, <2>3, <2>4 DEF EnrolmentOK
  <2> QED BY Zenon, <1>1, <2>3, <2>5, RequestStep
<1> QED BY Zenon, <1>3, <1>4, <1>5 DEF AnswerKey

\* The write is fenced: the row that is replaced is still the one that was read.
LEMMA WriteAdvances ==
    ASSUME PeerInv, NEW r \in KeyRequests, WriteKey(r)
    PROVE  /\ PeerInv'
           /\ \A u \in Users : wgPeer'[u] # wgPeer[u] =>
                /\ wgPeer'[u] # Nobody
                /\ wgPeer'[u].generation =
                     IF wgPeer[u] # Nobody /\ wgPeer[u].identity = wgPeer'[u].identity
                     THEN wgPeer[u].generation + 1 ELSE 1
<1>1. PICK a, g, c : a = keyReq[r].a /\ g = keyReq[r].generation /\ c = keyReq[r].cur
  BY Zenon
<1>2. a \in Agents /\ g \in Nat /\ Acceptable(c, a, g) /\ wgPeer \in [Users -> PeerRow \cup {Nobody}]
  BY Zenon, <1>1 DEF WriteKey, PeerInv, EnrolmentOK
<1>3. PICK w \in Users : w = AgentUser[a]
  BY Zenon, <1>2, WireGuardAssumption
<1>4. PICK row : row = [identity |-> AgentIdentity[a], key |-> AgentKey[a], generation |-> g]
  BY Zenon
<1>5. row \in PeerRow /\ row # Nobody /\ row.identity = AgentIdentity[a] /\ row.generation = g
  BY <1>2, <1>4, WireGuardAssumption DEF PeerRow
<1>6. PICK k : k = [pc |-> "answer", a |-> a]
  BY Zenon
<1>7. EnrolmentOK(k)
  BY Zenon, <1>6 DEF EnrolmentOK
<1>8. KeyStep(r, k)
  BY Zenon, <1>1, <1>6 DEF WriteKey
<1>9. DOMAIN keyReq' = KeyRequests /\ \A q \in KeyRequests : EnrolmentOK(keyReq'[q])
  BY Zenon, <1>7, <1>8 DEF KeyStep, PeerInv
<1>10. \/ wgPeer' = wgPeer
       \/ wgPeer' = [wgPeer EXCEPT ![w] = row] /\ FencedPeer(w, c)
  BY Zenon, <1>1, <1>3, <1>4 DEF WriteKey
<1>11. wgPeer' \in [Users -> PeerRow \cup {Nobody}]
  BY Zenon, <1>2, <1>5, <1>10
<1>12. PeerInv'
  BY Zenon, <1>9, <1>11 DEF PeerInv, EnrolmentOK, Acceptable
<1>13. ASSUME NEW u \in Users, wgPeer'[u] # wgPeer[u]
       PROVE  /\ wgPeer'[u] # Nobody
              /\ wgPeer'[u].generation =
                   IF wgPeer[u] # Nobody /\ wgPeer[u].identity = wgPeer'[u].identity
                   THEN wgPeer[u].generation + 1 ELSE 1
  <2>1. u = w /\ wgPeer'[u] = row /\ FencedPeer(u, c)
    BY Zenon, <1>2, <1>10, <1>13
  <2>2. CASE c = Nobody
    BY Zenon, <1>2, <1>5, <2>1, <2>2 DEF FencedPeer, Acceptable
  <2>3. CASE c # Nobody
    BY Zenon, <1>2, <1>5, <2>1, <2>3 DEF FencedPeer, Acceptable
  <2> QED BY Zenon, <2>2, <2>3
<1> QED BY Zenon, <1>12, <1>13

\* Only the write of an enrolment changes a peer row.
LEMMA PeerStep ==
    ASSUME PeerInv, [WgNext]_wgVars
    PROVE  PeerInv' /\ (wgPeer' = wgPeer \/ \E r \in KeyRequests : WriteKey(r))
<1>1. CASE UNCHANGED <<wgPeer, keyReq>>
  BY Zenon, <1>1 DEF PeerInv, EnrolmentOK, Acceptable
<1>2. CASE Enrolment
  <2>1. PICK r \in KeyRequests :
           \/ \E a \in Agents : WireguardConfig(r, a)
           \/ WireguardKey(r) \/ ReadCurrent(r) \/ WriteKey(r) \/ AnswerKey(r)
    BY Zenon, <1>2 DEF Enrolment
  <2>2. CASE \E a \in Agents : WireguardConfig(r, a)
    BY Zenon, <2>2, ConfigKeeps DEF WireguardConfig
  <2>3. CASE WireguardKey(r) \/ ReadCurrent(r) \/ AnswerKey(r)
    BY Zenon, <2>3, CheckKeeps DEF WireguardKey, ReadCurrent, AnswerKey
  <2>4. CASE WriteKey(r)
    BY Zenon, <2>4, WriteAdvances
  <2> QED BY Zenon, <2>1, <2>2, <2>3, <2>4
<1>3. CASE Backend
  BY Zenon, <1>1, <1>3 DEF Backend, SettleRouted, ReleaseRouted, ApproveSmtp, RevokeSmtp, ReviewSmtp,
     AdminApproveSmtp, AdminRevokeSmtp, SuspendRouted, UnsuspendRouted, ResetIdentity, EnrolIdentity
<1>4. CASE Snapshot
  BY Zenon, <1>1, <1>4 DEF Snapshot, FetchRows, ReadPeer, ReadCredential, SkipPeer, DesiredState,
     DesiredStateV2, DesiredStateV3, NoStep
<1>5. CASE Manager
  BY Zenon, <1>1, <1>5 DEF Manager, CycleFetchFailed, CycleAccountingFailed, CycleTableMissing, CycleApplyFailed,
     CycleInstallFailed, CycleApplied, RelayRestart, EndCycle, NoBackend
<1>6. CASE WgTick \/ UNCHANGED wgVars
  BY Zenon, <1>1, <1>6 DEF WgTick, wgVars
<1> QED BY Zenon, <1>2, <1>3, <1>4, <1>5, <1>6 DEF WgNext

\* A peer row only moves to the next generation of its identity or to the first of
\* another, however the requests of several agents overlap (enroll_key, whose update
\* matches the identity and the generation it has read).
THEOREM RotationsAdvance == WgSpec => RotationAdvances
<1>1. PeerInv /\ [WgNext]_wgVars => PeerInv'
  BY Zenon, PeerStep
<1>2. PeerInv /\ [WgNext]_wgVars =>
         [\A u \in Users : wgPeer'[u] # wgPeer[u] =>
            /\ wgPeer'[u] # Nobody
            /\ wgPeer'[u].generation =
                 IF wgPeer[u] # Nobody /\ wgPeer[u].identity = wgPeer'[u].identity
                 THEN wgPeer[u].generation + 1 ELSE 1]_wgVars
  BY Zenon, PeerStep, WriteAdvances
<1> QED BY <1>1, <1>2, PeerInit, PTL DEF WgSpec, RotationAdvances

-----------------------------------------------------------------------------
(* The routed plane *)

\* Nothing is forwarded.
Dark == \A p \in Prefixes : Forwards(kernel, p) = Nobody

\* How long what is forwarded may have been without backing, so far: the fetch that
\* read it, the time since then, and the fetch of the cycle that will close the plane.
Room == FetchTicks + manager.age + (IF manager.age = MaxStaleness /\ fetch.pc # "idle" THEN fetch.age ELSE 0)

FetchOK ==
    /\ "pc" \in DOMAIN fetch /\ "due" \in DOMAIN fetch
    /\ fetch.pc # "idle" => "age" \in DOMAIN fetch /\ fetch.age \in 0 .. FetchTicks

ManagerOK ==
    /\ "age" \in DOMAIN manager /\ "closed" \in DOMAIN manager /\ "wedged" \in DOMAIN manager
    /\ manager.age \in 0 .. MaxStaleness /\ manager.closed \in BOOLEAN /\ manager.wedged \in BOOLEAN

\* Only what is forwarded is counted.
LateOK ==
    /\ DOMAIN late = Prefixes
    /\ \A p \in Prefixes : /\ late[p].route \in Nat /\ late[p].smtp \in Nat
                           /\ Forwards(kernel, p) = Nobody => late[p].route = 0
                           /\ ~SmtpOpen(kernel, p) => late[p].smtp = 0

\* A plane marked closed is dark. One that is not has its next cycle coming when its
\* state is too old, and the counts have room.
PlaneOK ==
    /\ manager.closed => Dark
    /\ ~manager.closed =>
         /\ manager.age = MaxStaleness /\ fetch.pc = "idle" /\ ~fetch.due => Dark
         /\ \A p \in Prefixes : late[p].route <= Room /\ late[p].smtp <= Room

PlaneInv == FetchOK /\ ManagerOK /\ LateOK /\ (~manager.wedged => PlaneOK)

\* In the dark nothing is counted.
LEMMA DarkCounts ==
    ASSUME LateOK, Dark
    PROVE  \A p \in Prefixes : late[p].route = 0 /\ late[p].smtp = 0
BY Zenon DEF LateOK, Dark, SmtpOpen

\* A closed plane forwards nothing.
LEMMA ClosedIsDark == ASSUME kernel = Closed PROVE Dark
BY Zenon DEF Dark, Forwards, Closed

\* Every part of the bound is a natural number, and there is room for nothing.
LEMMA RoomOK ==
    ASSUME FetchOK, ManagerOK
    PROVE  Room \in Nat /\ Room <= LateBound /\ FetchTicks \in Nat /\ MaxStaleness \in Nat
           /\ MaxStaleness > 1
<1>1. FetchTicks \in Nat /\ MaxStaleness \in Nat /\ MaxStaleness > 1
  BY WireGuardAssumption
<1>2. manager.age \in Nat /\ manager.age <= MaxStaleness
  BY <1>1 DEF ManagerOK
<1>3. PICK n \in Nat : /\ n = IF manager.age = MaxStaleness /\ fetch.pc # "idle" THEN fetch.age ELSE 0
                       /\ n <= FetchTicks
  BY <1>1 DEF FetchOK
<1> QED BY <1>1, <1>2, <1>3 DEF Room, LateBound

\* The counts of the invariant are within the bound.
LEMMA PlaneBound == PlaneInv => PlaneFresh
<1> SUFFICES ASSUME PlaneInv, ~manager.wedged, NEW p \in Prefixes
             PROVE  late[p].route <= LateBound /\ late[p].smtp <= LateBound
  BY Zenon DEF PlaneFresh
<1>1. /\ FetchOK /\ ManagerOK /\ LateOK /\ PlaneOK /\ manager.closed \in BOOLEAN
      /\ late[p].route \in Nat /\ late[p].smtp \in Nat
  BY Zenon DEF PlaneInv, ManagerOK, LateOK
<1>2. Room \in Nat /\ Room <= LateBound /\ LateBound \in Nat
  BY <1>1, RoomOK DEF LateBound
<1>3. CASE manager.closed
  BY <1>1, <1>2, <1>3, DarkCounts DEF PlaneOK
<1>4. CASE ~manager.closed
  <2>1. late[p].route <= Room /\ late[p].smtp <= Room
    BY Zenon, <1>1, <1>4 DEF PlaneOK
  <2> QED BY <1>1, <1>2, <2>1
<1> QED BY Zenon, <1>3, <1>4

\* At first the plane is dark or in step.
LEMMA PlaneInit == WgInit => PlaneInv
<1> SUFFICES ASSUME WgInit PROVE PlaneInv
  BY Zenon
<1>1. FetchTicks \in Nat /\ MaxStaleness \in Nat /\ MaxStaleness > 1
  BY WireGuardAssumption
<1>2. fetch.pc = "idle" /\ FetchOK
  BY Zenon DEF WgInit, NoFetch, FetchOK
<1>3. PICK metered \in BOOLEAN :
         manager = [NewManager(metered) EXCEPT !.age = IF kernel = Closed THEN @ ELSE 0]
  BY Zenon DEF WgInit
<1>4. /\ "age" \in DOMAIN manager /\ "closed" \in DOMAIN manager /\ "wedged" \in DOMAIN manager
      /\ manager.age = (IF kernel = Closed THEN MaxStaleness ELSE 0)
      /\ manager.closed = FALSE /\ manager.wedged = FALSE
  BY Zenon, <1>3 DEF NewManager
<1>5. ManagerOK
  <2>1. manager.age \in 0 .. MaxStaleness
    BY <1>1, <1>4
  <2> QED BY Zenon, <1>4, <2>1 DEF ManagerOK
<1>6. LateOK /\ \A p \in Prefixes : late[p].route = 0 /\ late[p].smtp = 0
  <2>1. late = [p \in Prefixes |-> [route |-> 0, smtp |-> 0]]
    BY Zenon DEF WgInit, NoLate
  <2>2. DOMAIN late = Prefixes /\ \A p \in Prefixes : late[p].route = 0 /\ late[p].smtp = 0
    BY Zenon, <2>1
  <2> QED BY <2>2 DEF LateOK
<1>7. manager.age = MaxStaleness => Dark
  BY <1>1, <1>4, ClosedIsDark
<1>8. PlaneOK
  BY <1>1, <1>2, <1>4, <1>5, <1>6, <1>7, RoomOK DEF PlaneOK
<1> QED BY Zenon, <1>2, <1>5, <1>6, <1>8 DEF PlaneInv

\* A step of the backend or of a fetch: no count grows and no cycle ends.
LEMMA CountsFall ==
    ASSUME PlaneInv, UNCHANGED <<kernel, manager>>, FetchOK',
           \/ fetch' = fetch
           \/ fetch'.pc # "idle" /\ fetch'.age = (IF fetch.pc = "idle" THEN 0 ELSE fetch.age),
           DOMAIN late' = Prefixes,
           \A p \in Prefixes : late'[p].route \in {0, late[p].route} /\ late'[p].smtp \in {0, late[p].smtp}
    PROVE  PlaneInv'
<1>1. FetchOK /\ ManagerOK /\ LateOK
  BY Zenon DEF PlaneInv
<1>2. ManagerOK'
  BY Zenon, <1>1 DEF ManagerOK
<1>3. LateOK'
  BY <1>1 DEF LateOK, Forwards, SmtpOpen
<1>4. Room' = Room /\ Room \in Nat
  <2>1. CASE fetch' = fetch
    BY Zenon, <1>1, <2>1, RoomOK DEF Room
  <2>2. CASE fetch'.pc # "idle" /\ fetch'.age = (IF fetch.pc = "idle" THEN 0 ELSE fetch.age)
    BY Zenon, <1>1, <2>2, RoomOK DEF Room
  <2> QED BY Zenon, <2>1, <2>2
<1>5. Dark' <=> Dark
  BY Zenon DEF Dark, Forwards
<1>6. ASSUME ~manager.wedged PROVE PlaneOK'
  <2>1. PlaneOK
    BY Zenon, <1>6 DEF PlaneInv
  <2>2. manager'.closed => Dark'
    BY Zenon, <1>5, <2>1 DEF PlaneOK
  <2>3. ASSUME ~manager.closed
        PROVE  /\ manager'.age = MaxStaleness /\ fetch'.pc = "idle" /\ ~fetch'.due => Dark'
               /\ \A p \in Prefixes : late'[p].route <= Room' /\ late'[p].smtp <= Room'
    BY <1>1, <1>4, <1>5, <2>1, <2>3 DEF PlaneOK, LateOK
  <2> QED BY Zenon, <2>2, <2>3 DEF PlaneOK
<1> QED BY Zenon, <1>2, <1>3, <1>6 DEF PlaneInv

\* Rebacked only resets counts.
LEMMA RebackedFalls ==
    ASSUME LateOK, Rebacked \/ late' = late
    PROVE  /\ DOMAIN late' = Prefixes
           /\ \A p \in Prefixes : late'[p].route \in {0, late[p].route} /\ late'[p].smtp \in {0, late[p].smtp}
<1>1. CASE late' = late
  BY Zenon, <1>1 DEF LateOK
<1>2. CASE Rebacked
  BY Zenon, <1>2 DEF Rebacked
<1> QED BY Zenon, <1>1, <1>2

\* The backend does not touch the relay.
LEMMA BackendPlane ==
    ASSUME PlaneInv, Backend \/ Enrolment
    PROVE  PlaneInv'
<1>1. UNCHANGED <<fetch, manager, kernel>> /\ (Rebacked \/ late' = late)
  <2>1. CASE Backend
    BY Zenon, <2>1 DEF Backend, SettleRouted, ReleaseRouted, ApproveSmtp, RevokeSmtp, ReviewSmtp,
       AdminApproveSmtp, AdminRevokeSmtp, SuspendRouted, UnsuspendRouted, ResetIdentity, EnrolIdentity
  <2>2. CASE Enrolment
    BY Zenon, <2>2 DEF Enrolment, WireguardConfig, WireguardKey, ReadCurrent, WriteKey, AnswerKey, NoPlane
  <2> QED BY Zenon, <2>1, <2>2
<1>2. FetchOK /\ LateOK
  BY Zenon DEF PlaneInv
<1>3. FetchOK'
  BY Zenon, <1>1, <1>2 DEF FetchOK
<1> QED BY Zenon, <1>1, <1>2, <1>3, RebackedFalls, CountsFall

\* A fetch reads on.
LEMMA SnapshotPlane ==
    ASSUME PlaneInv, Snapshot
    PROVE  PlaneInv'
<1>1. FetchOK /\ LateOK /\ FetchTicks \in Nat
  BY Zenon, WireGuardAssumption DEF PlaneInv
<1>2. UNCHANGED <<manager, kernel, late>>
  BY Zenon DEF Snapshot, FetchRows, ReadPeer, ReadCredential, SkipPeer, DesiredState, DesiredStateV2, DesiredStateV3, NoStep
<1>3. /\ fetch'.pc # "idle" /\ fetch'.age = (IF fetch.pc = "idle" THEN 0 ELSE fetch.age)
      /\ "pc" \in DOMAIN fetch' /\ "due" \in DOMAIN fetch' /\ "age" \in DOMAIN fetch'
  <2>1. CASE \E v \in Versions : FetchRows(v)
    BY <2>1 DEF FetchRows
  <2>2. CASE \E u \in Users : ReadPeer(u)
    BY Zenon, <1>1, <2>2 DEF ReadPeer, FetchOK
  <2>3. CASE \E u \in Users : ReadCredential(u)
    BY Zenon, <1>1, <2>3 DEF ReadCredential, FetchOK
  <2>4. CASE SkipPeer
    BY Zenon, <1>1, <2>4 DEF SkipPeer, FetchOK
  <2>5. CASE DesiredState
    BY Zenon, <1>1, <2>5 DEF DesiredState, FetchOK
  <2>6. CASE DesiredStateV2
    BY Zenon, <1>1, <2>6 DEF DesiredStateV2, FetchOK
  <2>7. CASE DesiredStateV3
    BY Zenon, <1>1, <2>7 DEF DesiredStateV3, FetchOK
  <2> QED BY ZenonT(30), <2>1, <2>2, <2>3, <2>4, <2>5, <2>6, <2>7 DEF Snapshot
<1>4. FetchOK'
  BY <1>1, <1>3 DEF FetchOK
<1> QED BY Zenon, <1>1, <1>2, <1>3, <1>4, RebackedFalls, CountsFall

\* An unchanged flow is unchanged in both parts.
LEMMA FlowParts ==
    ASSUME NEW k, NEW l, NEW p, Flow(k, p) = Flow(l, p)
    PROVE  Forwards(k, p) = Forwards(l, p) /\ SmtpOpen(k, p) = SmtpOpen(l, p)
BY Zenon DEF Flow

\* The end of a cycle: no fetch, and counts that did not grow.
LEMMA CycleEnds ==
    ASSUME LateOK, NEW count, EndCycle(count),
           \A p \in Prefixes : /\ count[p].route \in Nat /\ count[p].route <= late[p].route
                               /\ count[p].smtp \in Nat /\ count[p].smtp <= late[p].smtp
    PROVE  /\ FetchOK' /\ LateOK' /\ fetch'.pc = "idle"
           /\ \A p \in Prefixes : late'[p].route \in {0, count[p].route} /\ late'[p].smtp \in {0, count[p].smtp}
<1>1. fetch'.pc = "idle" /\ FetchOK'
  BY Zenon DEF EndCycle, NoFetch, FetchOK
<1>2. /\ DOMAIN late' = Prefixes
      /\ \A p \in Prefixes : late'[p] = IF Flow(kernel', p) = Flow(kernel, p) THEN count[p]
                                         ELSE [route |-> 0, smtp |-> 0]
  BY Zenon DEF EndCycle
<1>3. \A p \in Prefixes : late'[p].route \in {0, count[p].route} /\ late'[p].smtp \in {0, count[p].smtp}
  BY <1>2
<1>4. ASSUME NEW p \in Prefixes
      PROVE  /\ Forwards(kernel', p) = Nobody => late'[p].route = 0
             /\ ~SmtpOpen(kernel', p) => late'[p].smtp = 0
  <2>1. CASE Flow(kernel', p) = Flow(kernel, p)
    <3>1. Forwards(kernel', p) = Forwards(kernel, p) /\ SmtpOpen(kernel', p) = SmtpOpen(kernel, p)
      BY Zenon, <2>1, FlowParts
    <3>2. late'[p] = count[p] /\ late[p].route \in Nat /\ late[p].smtp \in Nat
      BY Zenon, <1>2, <1>4, <2>1 DEF LateOK
    <3>3. ASSUME Forwards(kernel', p) = Nobody PROVE late'[p].route = 0
      <4>1. late[p].route = 0
        BY Zenon, <1>4, <3>1, <3>3 DEF LateOK
      <4>2. count[p].route \in Nat /\ count[p].route <= late[p].route
        BY Zenon, <1>4
      <4> QED BY <3>2, <4>1, <4>2
    <3>4. ~SmtpOpen(kernel', p) => late'[p].smtp = 0
      BY <1>4, <3>1, <3>2 DEF LateOK
    <3> QED BY Zenon, <3>3, <3>4
  <2>2. CASE Flow(kernel', p) # Flow(kernel, p)
    BY <1>2, <1>4, <2>2
  <2> QED BY Zenon, <2>1, <2>2
<1>5. LateOK'
  BY <1>2, <1>3, <1>4 DEF LateOK
<1> QED BY Zenon, <1>1, <1>3, <1>5

\* m is the manager, with other bindings perhaps.
SameManager(m) ==
    /\ "age" \in DOMAIN m /\ "closed" \in DOMAIN m /\ "wedged" \in DOMAIN m
    /\ m.age = manager.age /\ m.closed = manager.closed /\ m.wedged = manager.wedged

\* failClosed leaves a plane that is dark, or wedged.
LEMMA ClosingPlane ==
    ASSUME PlaneInv, NEW m, SameManager(m), NEW k, NEW n, FailClosed(m, k, n), EndCycle(late)
    PROVE  PlaneInv'
<1>1. FetchOK /\ ManagerOK /\ LateOK
  BY Zenon DEF PlaneInv
<1>2. FetchOK' /\ LateOK'
  BY <1>1, CycleEnds DEF LateOK
<1>3. /\ "age" \in DOMAIN manager' /\ "closed" \in DOMAIN manager' /\ "wedged" \in DOMAIN manager'
      /\ manager'.age = manager.age
      /\ \/ manager.closed /\ manager'.closed = TRUE /\ kernel' = k
            /\ manager'.wedged = (manager.wedged \/ k # kernel)
         \/ ~manager.closed /\ manager'.closed = TRUE /\ kernel' = Closed /\ manager'.wedged = FALSE
         \/ ~manager.closed /\ manager'.closed = FALSE /\ manager'.wedged = TRUE
  <2>1. CASE m.closed /\ kernel' = k /\ manager' = [m EXCEPT !.wedged = @ \/ k # kernel]
    BY Zenon, <1>1, <2>1 DEF SameManager, ManagerOK
  <2>2. CASE ~m.closed /\ kernel' = Closed /\ manager' = [m EXCEPT !.closed = TRUE, !.wedged = FALSE]
    BY Zenon, <2>2 DEF SameManager
  <2>3. CASE ~m.closed /\ kernel' = k /\ manager' = [m EXCEPT !.wedged = TRUE]
    BY Zenon, <1>1, <2>3 DEF SameManager, ManagerOK
  <2> QED BY Zenon, <2>1, <2>2, <2>3 DEF FailClosed
<1>4. ManagerOK'
  BY Zenon, <1>1, <1>3 DEF ManagerOK
<1>5. ASSUME ~manager'.wedged PROVE PlaneOK'
  <2>1. CASE manager.closed /\ manager'.closed = TRUE /\ kernel' = k
             /\ manager'.wedged = (manager.wedged \/ k # kernel)
    <3>1. ~manager.wedged /\ kernel' = kernel
      BY Zenon, <1>1, <1>5, <2>1 DEF ManagerOK
    <3>2. Dark
      BY Zenon, <2>1, <3>1 DEF PlaneInv, PlaneOK
    <3> QED BY Zenon, <2>1, <3>1, <3>2 DEF PlaneOK, Dark, Forwards
  <2>2. CASE ~manager.closed /\ manager'.closed = TRUE /\ kernel' = Closed
    BY Zenon, <2>2 DEF PlaneOK, Dark, Forwards, Closed
  <2> QED BY Zenon, <1>3, <1>5, <2>1, <2>2
<1> QED BY Zenon, <1>2, <1>4, <1>5 DEF PlaneInv

\* failClosedIfStale: the plane is kept as it is, or closed.
LEMMA StalePlane ==
    ASSUME PlaneInv, NEW k, NEW n, FailClosedIfStale(manager, k, n), EndCycle(late)
    PROVE  PlaneInv'
<1>1. FetchOK /\ ManagerOK /\ LateOK /\ SameManager(manager)
  BY Zenon DEF PlaneInv, ManagerOK, SameManager
<1>2. CASE ~(~manager.closed /\ manager.age < MaxStaleness)
  BY Zenon, <1>1, <1>2, ClosingPlane DEF FailClosedIfStale
<1>3. CASE ~manager.closed /\ manager.age < MaxStaleness
  <2>1. manager' = manager
    BY ZenonT(30), <1>3 DEF FailClosedIfStale
  <2>2. /\ FetchOK' /\ LateOK' /\ fetch'.pc = "idle"
        /\ \A p \in Prefixes : late'[p].route \in {0, late[p].route} /\ late'[p].smtp \in {0, late[p].smtp}
    BY <1>1, CycleEnds DEF LateOK
  <2>3. ManagerOK'
    BY Zenon, <1>1, <2>1 DEF ManagerOK
  <2>4. manager.age # MaxStaleness /\ Room \in Nat /\ Room' = Room
    BY <1>1, <1>3, <2>1, RoomOK DEF Room, ManagerOK
  <2>5. ASSUME ~manager.wedged PROVE PlaneOK'
    <3>1. \A p \in Prefixes : late[p].route <= Room /\ late[p].smtp <= Room
      BY ZenonT(30), <1>3, <2>5 DEF PlaneInv, PlaneOK
    <3>2. \A p \in Prefixes : late'[p].route <= Room /\ late'[p].smtp <= Room
      BY <2>2, <2>4, <3>1
    <3> QED BY Zenon, <1>3, <2>1, <2>4, <3>2 DEF PlaneOK
  <2> QED BY Zenon, <2>1, <2>2, <2>3, <2>5 DEF PlaneInv
<1> QED BY Zenon, <1>2, <1>3

\* A state is applied: what is forwarded was read since the fetch began.
LEMMA AppliedPlane ==
    ASSUME PlaneInv, CycleApplied
    PROVE  PlaneInv'
<1>1. FetchOK /\ ManagerOK /\ LateOK /\ fetch.pc = "ready" /\ EndCycle(ReadWithin(fetch.age))
  BY Zenon DEF PlaneInv, CycleApplied
<1>2. PICK a \in Nat : a = fetch.age /\ a <= FetchTicks
  BY <1>1, WireGuardAssumption DEF FetchOK
<1>3. PICK count : count = ReadWithin(a)
  BY ZenonT(30)
<1>4. \A p \in Prefixes : /\ count[p].route \in Nat /\ count[p].route <= late[p].route /\ count[p].route <= a
                          /\ count[p].smtp \in Nat /\ count[p].smtp <= late[p].smtp /\ count[p].smtp <= a
  BY <1>1, <1>3 DEF ReadWithin, Least, LateOK
<1>5. /\ FetchOK' /\ LateOK' /\ fetch'.pc = "idle"
      /\ \A p \in Prefixes : late'[p].route \in {0, count[p].route} /\ late'[p].smtp \in {0, count[p].smtp}
  BY Zenon, <1>1, <1>2, <1>3, <1>4, CycleEnds
<1>6. /\ "age" \in DOMAIN manager' /\ "closed" \in DOMAIN manager' /\ "wedged" \in DOMAIN manager'
      /\ manager'.age = 0 /\ manager'.closed = FALSE /\ manager'.wedged = FALSE
  BY Zenon, <1>1 DEF CycleApplied, ManagerOK
<1>7. MaxStaleness \in Nat /\ MaxStaleness > 1 /\ FetchTicks \in Nat
  BY WireGuardAssumption
<1>8. ManagerOK'
  <2>1. manager'.age \in 0 .. MaxStaleness
    BY <1>6, <1>7
  <2> QED BY Zenon, <1>6, <2>1 DEF ManagerOK
<1>9. Room' = FetchTicks /\ manager'.age # MaxStaleness
  BY <1>5, <1>6, <1>7 DEF Room
<1>10. \A p \in Prefixes : late'[p].route <= FetchTicks /\ late'[p].smtp <= FetchTicks
  BY <1>2, <1>4, <1>5, <1>7
<1>11. PlaneOK'
  BY Zenon, <1>6, <1>9, <1>10 DEF PlaneOK
<1> QED BY Zenon, <1>5, <1>8, <1>11 DEF PlaneInv

\* No count at all, with a plane that is taken for fresh, or whose cycle is due.
LEMMA UncountedPlane ==
    ASSUME PlaneInv, kernel' = kernel, late' = NoLate, FetchOK', ManagerOK',
           fetch'.pc = "idle",
           ~manager'.wedged => (~manager.wedged /\ manager'.closed = manager.closed) \/ ~manager'.closed,
           ~manager'.closed => manager'.age # MaxStaleness \/ fetch'.due
    PROVE  PlaneInv'
<1>1. \A p \in Prefixes : late'[p].route = 0 /\ late'[p].smtp = 0
  BY Zenon DEF NoLate
<1>2. LateOK'
  BY Zenon, <1>1 DEF LateOK, NoLate
<1>3. Room' \in Nat
  BY WireGuardAssumption DEF Room, ManagerOK
<1>4. ASSUME ~manager'.wedged PROVE PlaneOK'
  <2>1. CASE manager'.closed
    <3>1. Dark
      BY Zenon, <1>4, <2>1 DEF PlaneInv, PlaneOK
    <3> QED BY Zenon, <2>1, <3>1 DEF PlaneOK, Dark, Forwards
  <2>2. CASE ~manager'.closed
    <3>1. \A p \in Prefixes : late'[p].route <= Room' /\ late'[p].smtp <= Room'
      BY <1>1, <1>3
    <3> QED BY Zenon, <2>2, <3>1 DEF PlaneOK
  <2> QED BY Zenon, <2>1, <2>2
<1> QED BY Zenon, <1>2, <1>4 DEF PlaneInv

\* The two steps that forget the counts: a missing table put back, and a restart.
LEMMA ForgettingPlane ==
    ASSUME PlaneInv, CycleTableMissing \/ RelayRestart
    PROVE  PlaneInv'
<1>1. FetchOK /\ ManagerOK /\ MaxStaleness \in Nat /\ MaxStaleness > 1
  BY WireGuardAssumption DEF PlaneInv
<1>2. CASE CycleTableMissing
  <2>1. kernel' = kernel /\ late' = NoLate /\ fetch' = [NoFetch EXCEPT !.due = fetch.due] /\ ~manager.closed
    BY Zenon, <1>2 DEF CycleTableMissing
  <2>2. /\ "age" \in DOMAIN manager' /\ "closed" \in DOMAIN manager' /\ "wedged" \in DOMAIN manager'
        /\ manager'.age = 0 /\ manager'.closed = manager.closed /\ manager'.wedged = manager.wedged
    BY Zenon, <1>1, <1>2 DEF CycleTableMissing, ManagerOK
  <2>3. manager'.age \in 0 .. MaxStaleness /\ manager'.age # MaxStaleness
    BY <1>1, <2>2
  <2>4. ManagerOK'
    BY Zenon, <1>1, <2>2, <2>3 DEF ManagerOK
  <2>5. FetchOK' /\ fetch'.pc = "idle"
    BY Zenon, <2>1 DEF FetchOK, NoFetch
  <2> QED BY Zenon, <2>1, <2>2, <2>3, <2>4, <2>5, UncountedPlane
<1>3. CASE RelayRestart
  <2>1. kernel' = kernel /\ late' = NoLate /\ fetch' = [NoFetch EXCEPT !.due = TRUE]
    BY Zenon, <1>3 DEF RelayRestart
  <2>2. /\ "age" \in DOMAIN manager' /\ "closed" \in DOMAIN manager' /\ "wedged" \in DOMAIN manager'
        /\ manager'.age = MaxStaleness /\ manager'.closed = FALSE /\ manager'.wedged = FALSE
    BY Zenon, <1>3 DEF RelayRestart, NewManager
  <2>3. manager'.age \in 0 .. MaxStaleness
    BY <1>1, <2>2
  <2>4. ManagerOK'
    BY Zenon, <2>2, <2>3 DEF ManagerOK
  <2>5. FetchOK' /\ fetch'.pc = "idle" /\ fetch'.due
    BY Zenon, <2>1 DEF FetchOK, NoFetch
  <2> QED BY Zenon, <2>1, <2>2, <2>4, <2>5, UncountedPlane
<1> QED BY Zenon, <1>2, <1>3

\* Every way a cycle of the relay's manager ends.
LEMMA ManagerPlane ==
    ASSUME PlaneInv, Manager
    PROVE  PlaneInv'
<1>1. SameManager(manager)
  BY Zenon DEF PlaneInv, ManagerOK, SameManager
<1>2. CASE CycleFetchFailed
  BY Zenon, <1>2, StalePlane DEF CycleFetchFailed
<1>3. CASE CycleAccountingFailed
  BY Zenon, <1>3, StalePlane DEF CycleAccountingFailed
<1>4. CASE CycleTableMissing \/ RelayRestart
  BY Zenon, <1>4, ForgettingPlane
<1>5. CASE CycleApplyFailed
  <2>1. PICK k \in Partial(fetch) : FailClosed(manager, k, 1) \/ FailClosedIfStale(manager, k, 1)
    BY Zenon, <1>5 DEF CycleApplyFailed
  <2>2. EndCycle(late)
    BY Zenon, <1>5 DEF CycleApplyFailed
  <2>3. CASE FailClosed(manager, k, 1)
    BY Zenon, <1>1, <2>2, <2>3, ClosingPlane
  <2>4. CASE FailClosedIfStale(manager, k, 1)
    BY Zenon, <2>2, <2>4, StalePlane
  <2> QED BY Zenon, <2>1, <2>3, <2>4
<1>6. CASE CycleInstallFailed
  <2>1. PICK m : m = [manager EXCEPT !.bound = fetch.bound]
    BY Zenon
  <2>2. SameManager(m)
    BY Zenon, <1>1, <2>1 DEF SameManager
  <2>3. FailClosed(m, Applied(fetch), 1) /\ EndCycle(late)
    BY Zenon, <1>6, <2>1 DEF CycleInstallFailed
  <2> QED BY Zenon, <2>2, <2>3, ClosingPlane
<1>7. CASE CycleApplied
  BY Zenon, <1>7, AppliedPlane
<1> QED BY Zenon, <1>2, <1>3, <1>4, <1>5, <1>6, <1>7 DEF Manager

\* A tick: what is forwarded without backing has been so for one tick more, and there is
\* one tick more of room, unless nothing is forwarded.
LEMMA TickPlane ==
    ASSUME PlaneInv, WgTick
    PROVE  PlaneInv'
<1>1. /\ FetchOK /\ ManagerOK /\ LateOK
      /\ MaxStaleness \in Nat /\ FetchTicks \in Nat /\ manager.age \in Nat /\ manager.age <= MaxStaleness
  BY WireGuardAssumption DEF PlaneInv, ManagerOK
<1>2. /\ "age" \in DOMAIN manager' /\ "closed" \in DOMAIN manager' /\ "wedged" \in DOMAIN manager'
      /\ manager'.age = (IF manager.age < MaxStaleness THEN manager.age + 1 ELSE manager.age)
      /\ manager'.closed = manager.closed /\ manager'.wedged = manager.wedged
  BY Zenon, <1>1 DEF WgTick, ManagerOK
<1>3. /\ "pc" \in DOMAIN fetch' /\ "due" \in DOMAIN fetch' /\ fetch'.due = TRUE /\ fetch'.pc = fetch.pc
      /\ fetch.pc = "idle" => ~fetch.due
      /\ fetch.pc # "idle" => "age" \in DOMAIN fetch' /\ fetch'.age = fetch.age + 1 /\ fetch.age < FetchTicks
  <2>1. CASE fetch.pc = "idle"
    BY Zenon, <1>1, <2>1 DEF WgTick, FetchOK
  <2>2. CASE fetch.pc # "idle"
    BY Zenon, <1>1, <2>2 DEF WgTick, FetchOK
  <2> QED BY Zenon, <2>1, <2>2
<1>4. ManagerOK'
  <2>1. manager'.age \in 0 .. MaxStaleness
    BY <1>1, <1>2
  <2> QED BY Zenon, <1>1, <1>2, <2>1 DEF ManagerOK
<1>5. FetchOK'
  <2>1. fetch.pc # "idle" => fetch'.age \in 0 .. FetchTicks
    BY <1>1, <1>3 DEF FetchOK
  <2> QED BY Zenon, <1>3, <2>1 DEF FetchOK
<1>6. kernel' = kernel /\ DOMAIN late' = Prefixes
  BY ZenonT(30) DEF WgTick
<1>7. ASSUME NEW p \in Prefixes
      PROVE  /\ late'[p].route \in Nat /\ late'[p].smtp \in Nat
             /\ late'[p].route <= late[p].route + 1 /\ late'[p].smtp <= late[p].smtp + 1
             /\ Forwards(kernel, p) = Nobody => late'[p].route = 0
             /\ ~SmtpOpen(kernel, p) => late'[p].smtp = 0
  <2>1. late[p].route \in Nat /\ late[p].smtp \in Nat
    BY Zenon, <1>1 DEF LateOK
  <2>2. late'[p].route \in {0, late[p].route, late[p].route + 1} /\ late'[p].smtp \in {0, late[p].smtp, late[p].smtp + 1}
    BY Zenon DEF WgTick, Later
  <2>3. (Backed(p) => late'[p].route = 0) /\ (SmtpBacked(p) => late'[p].smtp = 0)
    BY Zenon DEF WgTick
  <2>4. (Forwards(kernel, p) = Nobody => Backed(p)) /\ (~SmtpOpen(kernel, p) => SmtpBacked(p))
    BY Zenon DEF Backed, SmtpBacked
  <2> QED BY <2>1, <2>2, <2>3, <2>4
<1>8. LateOK'
  BY Zenon, <1>6, <1>7 DEF LateOK, Forwards, SmtpOpen
<1>9. ASSUME ~manager.wedged PROVE PlaneOK'
  <2>1. PlaneOK /\ (Dark => Dark')
    BY Zenon, <1>6, <1>9 DEF PlaneInv, PlaneOK, Dark, Forwards
  <2>2. CASE manager.closed
    BY Zenon, <1>2, <2>1, <2>2 DEF PlaneOK
  <2>3. CASE ~manager.closed /\ Dark
    <3>1. Room' \in Nat
      <4>1. CASE fetch.pc = "idle"
        BY <1>1, <1>2, <1>3, <4>1 DEF Room
      <4>2. CASE fetch.pc # "idle"
        BY <1>1, <1>2, <1>3, <4>2 DEF Room, FetchOK
      <4> QED BY Zenon, <4>1, <4>2
    <3>2. \A p \in Prefixes : late'[p].route = 0 /\ late'[p].smtp = 0
      BY Zenon, <1>7, <2>3 DEF Dark, SmtpOpen
    <3>3. \A p \in Prefixes : late'[p].route <= Room' /\ late'[p].smtp <= Room'
      BY <3>1, <3>2
    <3> QED BY Zenon, <1>2, <1>3, <2>3, <3>3 DEF PlaneOK
  <2>4. CASE ~manager.closed /\ ~Dark
    <3>1. /\ manager.age = MaxStaleness => fetch.pc # "idle"
          /\ \A p \in Prefixes : late[p].route <= Room /\ late[p].smtp <= Room
      BY Zenon, <1>3, <2>1, <2>4 DEF PlaneOK
    <3>2. Room \in Nat /\ Room' \in Nat /\ Room + 1 <= Room'
      <4>1. CASE manager.age = MaxStaleness
        BY <1>1, <1>2, <1>3, <3>1, <4>1 DEF Room, FetchOK
      <4>2. CASE manager.age # MaxStaleness /\ fetch.pc = "idle"
        BY <1>1, <1>2, <1>3, <4>2 DEF Room
      <4>3. CASE manager.age # MaxStaleness /\ fetch.pc # "idle"
        BY <1>1, <1>2, <1>3, <4>3 DEF Room, FetchOK
      <4> QED BY ZenonT(30), <4>1, <4>2, <4>3
    <3>3. ASSUME NEW p \in Prefixes PROVE late'[p].route <= Room' /\ late'[p].smtp <= Room'
      <4>1. late[p].route \in Nat /\ late[p].smtp \in Nat
        BY Zenon, <1>1 DEF LateOK
      <4> QED BY <1>7, <3>1, <3>2, <4>1
    <3> QED BY Zenon, <1>2, <1>3, <2>4, <3>3 DEF PlaneOK
  <2> QED BY Zenon, <2>2, <2>3, <2>4
<1> QED BY Zenon, <1>2, <1>4, <1>5, <1>8, <1>9 DEF PlaneInv

\* Every step keeps the counts of the plane.
LEMMA PlaneNext == PlaneInv /\ [WgNext]_wgVars => PlaneInv'
<1> SUFFICES ASSUME PlaneInv, [WgNext]_wgVars PROVE PlaneInv'
  BY Zenon
<1>1. CASE Backend \/ Enrolment
  BY Zenon, <1>1, BackendPlane
<1>2. CASE Snapshot
  BY Zenon, <1>2, SnapshotPlane
<1>3. CASE Manager
  BY Zenon, <1>3, ManagerPlane
<1>4. CASE WgTick
  BY Zenon, <1>4, TickPlane
<1>5. CASE UNCHANGED wgVars
  <2>1. UNCHANGED <<fetch, manager, kernel, late>>
    BY Zenon, <1>5 DEF wgVars
  <2>2. FetchOK /\ LateOK
    BY Zenon DEF PlaneInv
  <2>3. FetchOK'
    BY Zenon, <2>1, <2>2 DEF FetchOK
  <2> QED BY Zenon, <2>1, <2>2, <2>3, RebackedFalls, CountsFall
<1> QED BY Zenon, <1>1, <1>2, <1>3, <1>4, <1>5 DEF WgNext

\* What the relay forwards, and the SMTP it lets through, is backed by the database or
\* has been without backing for no longer than two fetches and the staleness bound,
\* however the backend, the requests of the agents and the cycles of the relay's
\* manager overlap or fail - unless the relay's host refused to close the plane
\* (reconcile, failClosedIfStale).
THEOREM PlaneStaysFresh == WgSpec => []PlaneFresh
<1> QED BY PlaneInit, PlaneNext, PlaneBound, PTL DEF WgSpec
=============================================================================
