-------------------------- MODULE CredentialsProofs --------------------------
(***************************************************************************)
(* Proofs about client identity: one root, exact slots, a bounded number of *)
(* admissions, retry-safe enrollment and entitlements that agree.           *)
(*                                                                         *)
(* The inductive invariant CredInv says what a request in flight may        *)
(* remember of the shared state.  The root a request carries is the one in  *)
(* the files.  The buckets a cleanup will remove are expired and its        *)
(* request holds the maintenance row.  The row of an account that anybody   *)
(* still knows, stored or read earlier, has the identity of the stored one  *)
(* and a generation of its own, and so has the period of a subscription:    *)
(* that is why an answer or an artifact made late agrees with one made      *)
(* from what is stored now.                                                 *)
(***************************************************************************)
EXTENDS Credentials, FiniteSetTheorems, TLAPS

Fields == {"pc", "op", "p", "c", "gen", "now", "stale", "row", "cand", "root", "seen", "to", "subs"}

\* A request that is, or will be once it has the root, at `to`.
Way(st, to) == st.pc = to \/ (st.pc \in {"root", "flock", "key", "cert"} /\ st.to = to)

\* On the way to a new credential.
Signs(st) == (Way(st, "sign") /\ st.op = "enroll") \/ st.pc = "commit"

\* What the program counter of a request says about its other fields.
RequestOK(st) ==
    /\ DOMAIN st = Fields
    /\ st.pc # "idle" => st.p \in Procs
    /\ st.pc \in {"root", "flock", "key", "cert"} => st.to \in {"sign", "respond"}
    /\ st.pc \in {"limit", "slot", "load", "reload", "config", "subs", "entitle"} \/ Signs(st) \/ Way(st, "respond")
         => st.c \in Clients
    /\ st.pc \in {"limit", "slot", "load", "reload"} \/ Signs(st) => st.gen \in Nat \ {0}
    /\ Signs(st) => st.gen = IF st.row = None THEN 1 ELSE st.row.gen + 1
    /\ st.pc = "commit" => st.cand \in Cert
    /\ Way(st, "respond") => st.row # None

\* The rows of an account that somebody knows: the stored one, and what a request
\* read before.
Readers(u) == {q \in Requests : req[q].c \in Clients /\ Owner[req[q].c] = u}
Known(u) == ({cred[u]} \cup {req[q].row : q \in Readers(u)}) \ {None}

\* The periods of a subscription that somebody knows.
Holders(s) == {q \in Requests : req[q].pc = "entitle" /\ s \in DOMAIN req[q].subs}
Spans(s) == {<<sub[s].start, sub[s].end>>}
            \cup {<<req[q].subs[s].start, req[q].subs[s].end>> : q \in Holders(s)}

\* What a request did with the files belongs to the one root.
RootOK(q) ==
    /\ req[q].pc \in {"key", "cert"} => flock = q
    /\ req[q].pc = "key" => req[q].seen = caKey
    /\ req[q].pc = "cert" => req[q].root = caKey /\ caKey # None
    /\ req[q].pc \in {"sign", "respond"} => req[q].root = caCert /\ caCert # None
    /\ req[q].pc = "commit" => req[q].cand.key = caCert /\ caCert # None

RootInv ==
    /\ caKey \in Nat \cup {None} /\ serial \in Nat /\ clock \in 0..MaxClock
    /\ cache \in [Procs -> Nat \cup {None}]
    /\ OneRoot
    /\ answers # {} => caCert # None
    /\ \A u \in Users : \A x \in Known(u) : x.cert.key = caCert /\ caCert # None
    /\ \A q \in Requests : RootOK(q)

\* The limiter.
LimitOK(q) ==
    /\ req[q].now \in 0..clock
    /\ req[q].pc \in {"limit", "slot"} => clock <= req[q].now + Retention
    /\ req[q].stale # {} => /\ req[q].pc = "slot" /\ mlock = q /\ req[q].stale \subseteq Rows
                            /\ \A b \in req[q].stale : Expiry(b) <= req[q].now

Counted(u, w) ==
    /\ <<u, w>> \in Rows => admitted[u][w] <= buckets[<<u, w>>]
    /\ <<u, w>> \notin Rows => admitted[u][w] = 0 \/ w + 1 + Retention <= clock

LimitInv ==
    /\ buckets \in [Rows -> Nat] /\ Rows \subseteq Users \X (0..MaxClock) /\ IsFiniteSet(Rows)
    /\ admitted \in [Users -> [0..MaxClock -> Nat]]
    /\ SlotsExact /\ LimitHolds
    /\ \A u \in Users, w \in 0..MaxClock : Counted(u, w)
    /\ \A q \in Requests : LimitOK(q)

\* Credentials.
RowInv ==
    /\ cred \in [Users -> CredentialRow \cup {None}]
    /\ \A u \in Users : \A x \in Known(u) :
         /\ x \in CredentialRow /\ cred[u] # None
         /\ x.c = cred[u].c /\ x.inst = cred[u].inst /\ Owner[x.c] = u /\ x.gen <= cred[u].gen
         /\ \A y \in Known(u) : x.gen = y.gen => x = y

AnswerOK(a) ==
    /\ a = [c |-> a.c, gen |-> a.gen, serial |-> a.serial, key |-> a.key, ca |-> a.ca]
    /\ a.gen \in Nat
    /\ a.gen > 0 =>
         LET u == Owner[a.c] IN
         /\ a.c \in Clients /\ cred[u] # None /\ a.c = cred[u].c /\ a.gen <= cred[u].gen
         /\ \A x \in Known(u) : x.gen = a.gen => x.cert.serial = a.serial

AnswerInv == RetrySafe /\ \A a \in answers : AnswerOK(a)

\* Entitlements.
PeriodOK(q) ==
    /\ req[q].pc \in {"subs", "entitle"} => cred[Owner[req[q].c]] # None
    /\ req[q].pc = "entitle" => \A s \in DOMAIN req[q].subs : s \in Subs /\ SubOwner[s] = Owner[req[q].c]

SpanInv ==
    /\ sub \in [Subs -> [start : Nat, end : Nat, active : BOOLEAN]]
    /\ \A s \in Subs : \A x \in Spans(s) :
         /\ x[2] \in Nat /\ x[2] <= sub[s].end
         /\ \A y \in Spans(s) : x[2] = y[2] => x[1] = y[1]
    /\ \A q \in Requests : PeriodOK(q)

Later(a, b) == IF a > b THEN a ELSE b

ArtifactOK(a) ==
    LET s == a.claim.sub  u == SubOwner[s]  e == a.claim.edge  g == a.jti[3] IN
    /\ s \in Subs /\ cred[u] # None
    /\ g \in 0..(2 ^ GenBits - 1) /\ g <= cred[u].gen
    /\ a.claim.paid \in Nat /\ a.claim.paid <= sub[s].end
    /\ a = [claim |-> [sub |-> s, edge |-> e, c |-> cred[u].c, paid |-> a.claim.paid],
            jti |-> <<s, cred[u].inst, g, cred[u].c, e, a.claim.paid, s \in Wildcard>>,
            iat |-> a.iat, gen |-> a.claim.paid * 2 ^ GenBits + g]
    /\ \A x \in Known(u), y \in Spans(s) :
         x.gen = g /\ y[2] = a.claim.paid => a.iat = Later(x.cert.notBefore, y[1])

ArtifactInv ==
    /\ \A a \in artifacts : ArtifactOK(a)
    /\ \A a, b \in artifacts : a.jti = b.jti => a.iat = b.iat

\* The inductive invariant.
CredInv ==
    /\ DOMAIN req = Requests
    /\ \A q \in Requests : RequestOK(req[q])
    /\ RootInv /\ LimitInv /\ RowInv /\ AnswerInv /\ SpanInv /\ ArtifactInv

----------------------------------------------------------------------------
(* Frames: what a step leaves alone *)

\* Only the request r moves.
Moves(r) == DOMAIN req' = Requests /\ \A q \in Requests : q # r => req'[q] = req[q]

\* It forgets its row, keeps it, or reads the stored one.
Inherits(r) ==
    \/ req'[r].row = None
    \/ req'[r].c = req[r].c /\ req'[r].row = req[r].row
    \/ req'[r].c \in Clients /\ req'[r].row = cred[Owner[req'[r].c]]

\* Nobody learns of a row that nobody knew.
LEMMA KnownStays ==
    ASSUME CredInv, NEW r \in Requests, Moves(r), Inherits(r), cred' = cred
    PROVE  \A u \in Users : Known(u)' \subseteq Known(u)
<1> SUFFICES ASSUME NEW u \in Users, NEW x \in Known(u)'
             PROVE  x \in Known(u)
  BY Zenon
<1>1. x # None /\ (x = cred[u] \/ \E q \in Requests : req'[q].c \in Clients /\ Owner[req'[q].c] = u /\ x = req'[q].row)
  BY Zenon DEF Known, Readers
<1>2. ASSUME NEW q \in Requests, req'[q].c \in Clients, Owner[req'[q].c] = u, x = req'[q].row
      PROVE  x \in Known(u)
  <2>1. CASE q # r
    BY Zenon, <1>1, <1>2, <2>1 DEF Moves, Known, Readers
  <2>2. CASE q = r
    BY Zenon, <1>1, <1>2, <2>2 DEF Inherits, Known, Readers
  <2> QED BY Zenon, <2>1, <2>2
<1> QED BY Zenon, <1>1, <1>2 DEF Known

\* Nobody learns of a period that nobody knew.
LEMMA SpansStay ==
    ASSUME CredInv, NEW r \in Requests, Moves(r), req'[r].pc # "entitle",
           \A s \in Subs : sub'[s].start = sub[s].start /\ sub'[s].end = sub[s].end
    PROVE  \A s \in Subs : Spans(s)' \subseteq Spans(s)
<1> SUFFICES ASSUME NEW s \in Subs
             PROVE  Spans(s)' \subseteq Spans(s)
  BY Zenon
<1>1. Holders(s)' \subseteq Holders(s) /\ \A q \in Holders(s)' : req'[q] = req[q]
  BY Zenon DEF Holders, Moves
<1> QED BY Zenon, <1>1 DEF Spans

\* The rows of the accounts.
LEMMA RowsStay ==
    ASSUME CredInv, cred' = cred, \A u \in Users : Known(u)' \subseteq Known(u)
    PROVE  RowInv'
  BY DEF CredInv, RowInv

\* The answers given so far.
LEMMA AnswersStay ==
    ASSUME CredInv, cred' = cred, answers' = answers, \A u \in Users : Known(u)' \subseteq Known(u)
    PROVE  AnswerInv'
<1>1. RetrySafe'
  BY Zenon DEF CredInv, AnswerInv, RetrySafe
<1>2. ASSUME NEW a \in answers
      PROVE  AnswerOK(a)'
  <2>1. AnswerOK(a)
    BY Zenon DEF CredInv, AnswerInv
  <2> QED BY Zenon, <2>1, CredentialsAssumption DEF AnswerOK
<1> QED BY Zenon, <1>1, <1>2 DEF AnswerInv

\* An entitlement issued so far.
LEMMA ArtifactStays ==
    ASSUME CredInv, NEW a, ArtifactOK(a), cred' = cred,
           \A s \in Subs : sub'[s].end = sub[s].end,
           \A u \in Users : Known(u)' \subseteq Known(u), \A s \in Subs : Spans(s)' \subseteq Spans(s)
    PROVE  ArtifactOK(a)'
<1>1. a.claim.sub \in Subs /\ SubOwner[a.claim.sub] \in Users
  BY Zenon, CredentialsAssumption DEF ArtifactOK
<1> QED BY Zenon, <1>1 DEF ArtifactOK

\* The entitlements issued so far.
LEMMA ArtifactsStay ==
    ASSUME CredInv, cred' = cred, artifacts' = artifacts,
           \A s \in Subs : sub'[s].end = sub[s].end,
           \A u \in Users : Known(u)' \subseteq Known(u), \A s \in Subs : Spans(s)' \subseteq Spans(s)
    PROVE  ArtifactInv'
<1>1. \A a \in artifacts : ArtifactOK(a)'
  BY Zenon, ArtifactStays DEF CredInv, ArtifactInv
<1> QED BY Zenon, <1>1 DEF CredInv, ArtifactInv

\* The periods.
LEMMA PeriodsStay ==
    ASSUME CredInv, NEW r \in Requests, Moves(r), PeriodOK(r)', cred' = cred,
           sub' \in [Subs -> [start : Nat, end : Nat, active : BOOLEAN]],
           \A s \in Subs : sub'[s].end = sub[s].end, \A s \in Subs : Spans(s)' \subseteq Spans(s)
    PROVE  SpanInv'
<1>1. \A q \in Requests : PeriodOK(q)'
  BY DEF CredInv, SpanInv, PeriodOK, Moves
<1> QED BY <1>1 DEF CredInv, SpanInv

\* The limiter.
LEMMA LimitsStay ==
    ASSUME CredInv, NEW r \in Requests, Moves(r), UNCHANGED <<buckets, slots, admitted, mlock, clock>>,
           LimitOK(r)'
    PROVE  LimitInv'
<1>1. ASSUME NEW q \in Requests
      PROVE  LimitOK(q)'
  <2>2. CASE q # r
    <3>1. LimitOK(q) /\ req'[q] = req[q]
      BY Zenon, <2>2 DEF CredInv, LimitInv, Moves
    <3> QED BY Zenon, <3>1 DEF LimitOK, Rows, Expiry
  <2> QED BY Zenon, <2>2
<1>2. \A u \in Users, w \in 0..MaxClock : Counted(u, w)'
  BY Zenon DEF CredInv, LimitInv, Counted, Rows
<1> QED BY Zenon, <1>1, <1>2 DEF CredInv, LimitInv, SlotsExact, LimitHolds, Rows

\* The root.
LEMMA RootStays ==
    ASSUME CredInv, NEW r \in Requests, Moves(r), UNCHANGED <<caKey, caCert, cache, flock>>,
           serial' \in Nat, clock' \in 0..MaxClock,
           \A a \in answers' : a \in answers \/ (a.key = caCert /\ a.ca = caCert /\ caCert # None),
           \A u \in Users : Known(u)' \subseteq Known(u), RootOK(r)'
    PROVE  RootInv'
<1>1. RootInv
  BY Zenon DEF CredInv
<1>2. ASSUME NEW q \in Requests
      PROVE  RootOK(q)'
  <2>1. CASE q # r
    BY Zenon, <1>1, <2>1 DEF RootInv, RootOK, Moves
  <2> QED BY Zenon, <2>1
<1>3. OneRoot' /\ (answers' # {} => caCert' # None)
  BY Zenon, <1>1 DEF RootInv, OneRoot
<1> QED BY Zenon, <1>1, <1>2, <1>3 DEF RootInv

\* The other requests keep to their program.
LEMMA RequestsStay ==
    ASSUME CredInv, NEW r \in Requests, Moves(r), RequestOK(req'[r])
    PROVE  DOMAIN req' = Requests /\ \A q \in Requests : RequestOK(req'[q])
  BY Zenon DEF CredInv, Moves

\* A step of one request that reads and answers nothing new.
LEMMA CountKeeps ==
    ASSUME CredInv, NEW r \in Requests, Moves(r), Inherits(r), RequestOK(req'[r]),
           RootInv', AnswerInv', LimitInv', PeriodOK(r)', UNCHANGED <<cred, sub, artifacts>>,
           req'[r].pc # "entitle"
    PROVE  CredInv'
<1>1. \A u \in Users : Known(u)' \subseteq Known(u)
  BY Zenon, KnownStays
<1>2. \A s \in Subs : Spans(s)' \subseteq Spans(s)
  BY Zenon, SpansStay
<1>3. RowInv'
  BY Zenon, <1>1, RowsStay
<1>4. ArtifactInv'
  BY Zenon, <1>1, <1>2, ArtifactsStay
<1>5. SpanInv'
  BY Zenon, <1>2, PeriodsStay DEF CredInv, SpanInv
<1> QED BY Zenon, <1>3, <1>4, <1>5, RequestsStay DEF CredInv

\* A step of one request that reads, answers or counts nothing new.
LEMMA StepKeeps ==
    ASSUME CredInv, NEW r \in Requests, Moves(r), Inherits(r), RequestOK(req'[r]),
           RootInv', AnswerInv', PeriodOK(r)', LimitOK(r)',
           UNCHANGED <<cred, sub, artifacts, buckets, slots, admitted, mlock, clock>>,
           req'[r].pc # "entitle"
    PROVE  CredInv'
  BY Zenon, LimitsStay, CountKeeps

\* In particular one that leaves the answers alone and does not wait for the limiter.
LEMMA CalmKeeps ==
    ASSUME CredInv, NEW r \in Requests, Moves(r), Inherits(r), RequestOK(req'[r]), RootInv',
           UNCHANGED <<cred, sub, answers, artifacts, buckets, slots, admitted, mlock, clock>>,
           req'[r].stale = {}, req'[r].now \in 0..clock,
           req'[r].pc \notin {"limit", "slot", "subs", "entitle"}
    PROVE  CredInv'
<1>1. AnswerInv'
  BY Zenon, KnownStays, AnswersStay
<1>2. PeriodOK(r)' /\ LimitOK(r)'
  BY Zenon DEF PeriodOK, LimitOK
<1> QED BY Zenon, <1>1, <1>2, StepKeeps

\* A request that is over.
LEMMA IdleOK ==
    /\ RequestOK(Idle) /\ Idle.row = None /\ Idle.stale = {} /\ Idle.now = 0 /\ Idle.pc = "idle"
    /\ Idle.c = None
  BY Zenon DEF Idle, RequestOK, Fields, Way, Signs

\* What the limiter leaves in a request.
LEMMA Quiet ==
    ASSUME CredInv, NEW r \in Requests
    PROVE  /\ DOMAIN req = Requests /\ DOMAIN req[r] = Fields
           /\ req[r].now \in 0..clock /\ clock \in Nat /\ 0 \in 0..clock
           /\ req[r].pc # "slot" => req[r].stale = {}
  BY CredentialsAssumption DEF CredInv, RequestOK, RootInv, LimitInv, LimitOK

\* A request that is not between the files and its answer has no root.
LEMMA RootFree ==
    ASSUME NEW r, req'[r].pc \notin {"key", "cert", "sign", "respond", "commit"}
    PROVE  RootOK(r)'
  BY Zenon DEF RootOK

\* The end of a request that changes nothing else.
LEMMA EndKeeps ==
    ASSUME CredInv, NEW r \in Requests, Ends(r),
           UNCHANGED <<caKey, caCert, cache, flock, serial, cred, sub, answers, artifacts, buckets, slots,
                       admitted, mlock, clock>>
    PROVE  CredInv'
<1>1. Moves(r) /\ req'[r] = Idle
  BY Zenon, Quiet DEF Ends, Moves
<1>2. Inherits(r)
  BY Zenon, <1>1, IdleOK DEF Inherits
<1>3. \A u \in Users : Known(u)' \subseteq Known(u)
  BY Zenon, <1>1, <1>2, KnownStays
<1>4. RootInv'
  BY Zenon, <1>1, <1>3, IdleOK, RootFree, RootStays DEF CredInv, RootInv
<1> QED BY Zenon, <1>1, <1>2, <1>4, IdleOK, Quiet, CalmKeeps

----------------------------------------------------------------------------
(* The certificate authority *)

\* A root from the cache is the root.
LEMMA TakeRootKeeps ==
    ASSUME CredInv, NEW r \in Requests, TakeRoot(r)
    PROVE  CredInv'
<1>1. /\ Moves(r) /\ DOMAIN req'[r] = Fields
      /\ req'[r].c = req[r].c /\ req'[r].row = req[r].row /\ req'[r].gen = req[r].gen /\ req'[r].p = req[r].p
      /\ req'[r].op = req[r].op /\ req'[r].to = req[r].to
      /\ req'[r].now = req[r].now /\ req'[r].stale = req[r].stale
      /\ \/ req'[r].pc = req[r].to /\ req'[r].root = cache[req[r].p] /\ cache[req[r].p] # None
         \/ req'[r].pc = "flock"
  BY Quiet DEF TakeRoot, Moves, Fields
<1>2. req[r].pc = "root" /\ req[r].to \in {"sign", "respond"} /\ RequestOK(req[r])
  BY Zenon DEF CredInv, RequestOK, TakeRoot, At
<1>3. RequestOK(req'[r])
  BY Zenon, <1>1, <1>2 DEF RequestOK, Way, Signs
<1>4. Inherits(r)
  BY Zenon, <1>1 DEF Inherits
<1>5. \A u \in Users : Known(u)' \subseteq Known(u)
  BY Zenon, <1>1, <1>4, KnownStays DEF TakeRoot, credVars
<1>6. req'[r].pc \in {"sign", "respond"} => req'[r].root = caCert /\ caCert # None
  BY Zenon, <1>1, <1>2 DEF CredInv, RootInv, OneRoot, RequestOK
<1>7. RootOK(r)'
  BY Zenon, <1>1, <1>2, <1>6 DEF RootOK, TakeRoot
<1>8. UNCHANGED <<caKey, caCert, cache, flock, serial, clock, cred, sub, answers, artifacts, buckets, slots,
                  admitted, mlock>>
  BY Zenon DEF TakeRoot, credVars, subVars, outVars, limitVars
<1>9. RootInv'
  BY Zenon, <1>1, <1>5, <1>7, <1>8, RootStays DEF CredInv, RootInv
<1> QED BY Zenon, <1>1, <1>2, <1>3, <1>4, <1>8, <1>9, Quiet, CalmKeeps

\* The files are looked at under the lock.
LEMMA LockRootKeeps ==
    ASSUME CredInv, NEW r \in Requests, LockRoot(r)
    PROVE  CredInv'
<1>1. ~(caCert # None /\ caKey = None)
  BY Zenon DEF CredInv, RootInv, OneRoot
<1>2. /\ Moves(r) /\ DOMAIN req'[r] = Fields
      /\ req'[r].c = req[r].c /\ req'[r].row = req[r].row /\ req'[r].gen = req[r].gen /\ req'[r].p = req[r].p
      /\ req'[r].op = req[r].op /\ req'[r].to = req[r].to
      /\ req'[r].now = req[r].now /\ req'[r].stale = req[r].stale
      /\ req'[r].pc = "key" /\ req'[r].seen = caKey
  BY <1>1, Quiet DEF LockRoot, Moves, Fields
<1>3. req[r].pc = "flock" /\ RequestOK(req[r]) /\ flock = None /\ flock' = r
  BY Zenon, <1>1 DEF CredInv, LockRoot, At
<1>4. RequestOK(req'[r])
  BY Zenon, <1>2, <1>3 DEF RequestOK, Way, Signs
<1>5. Inherits(r)
  BY Zenon, <1>2 DEF Inherits
<1>6. UNCHANGED <<caKey, caCert, cache, serial, clock, cred, sub, answers, artifacts, buckets, slots,
                  admitted, mlock>>
  BY Zenon DEF LockRoot, credVars, subVars, outVars, limitVars
<1>7. \A u \in Users : Known(u)' \subseteq Known(u)
  BY Zenon, <1>2, <1>5, <1>6, KnownStays
<1>8. ASSUME NEW q \in Requests
      PROVE  RootOK(q)'
  <2>1. CASE q = r
    BY Zenon, <1>2, <1>3, <1>6, <2>1 DEF RootOK
  <2>2. CASE q # r
    <3>1. RootOK(q) /\ req'[q] = req[q] /\ req[q].pc \notin {"key", "cert"}
      BY Zenon, <1>2, <1>3, <2>2, CredentialsAssumption DEF CredInv, RootInv, RootOK, Moves
    <3> QED BY Zenon, <1>6, <3>1 DEF RootOK
  <2> QED BY Zenon, <2>1, <2>2
<1>9. RootInv'
  BY Zenon, <1>6, <1>7, <1>8 DEF CredInv, RootInv, OneRoot
<1> QED BY Zenon, <1>2, <1>3, <1>4, <1>5, <1>6, <1>9, Quiet, CalmKeeps

\* Whoever holds the lock is alone with the files.
LEMMA Alone ==
    ASSUME CredInv, NEW r \in Requests, req[r].pc \in {"key", "cert"}, NEW q \in Requests, q # r
    PROVE  req[q].pc \notin {"key", "cert"}
  BY Zenon DEF CredInv, RootInv, RootOK

\* The key is read, or made by the first.
LEMMA LoadRootKeyKeeps ==
    ASSUME CredInv, NEW r \in Requests, LoadRootKey(r)
    PROVE  CredInv'
<1>0. req[r].pc = "key" /\ RequestOK(req[r]) /\ flock = r /\ req[r].seen = caKey /\ serial \in Nat
  BY Zenon DEF CredInv, LoadRootKey, At, RootInv, RootOK
<1>1. PICK k : k = IF caKey # None THEN caKey ELSE serial
  BY Zenon
<1>2. /\ Moves(r) /\ DOMAIN req'[r] = Fields
      /\ req'[r].c = req[r].c /\ req'[r].row = req[r].row /\ req'[r].gen = req[r].gen /\ req'[r].p = req[r].p
      /\ req'[r].op = req[r].op /\ req'[r].to = req[r].to
      /\ req'[r].now = req[r].now /\ req'[r].stale = req[r].stale
      /\ req'[r].pc = "cert" /\ req'[r].root = k
  BY <1>0, <1>1, Quiet DEF LoadRootKey, Moves, Fields
<1>3. /\ caKey' = k /\ k \in Nat /\ k # None /\ serial' \in Nat /\ (caKey # None => k = caKey)
      /\ (caCert # None => k = caKey)
  BY SMTT(30), <1>0, <1>1, CredentialsAssumption DEF LoadRootKey, CredInv, RootInv, OneRoot
<1>4. RequestOK(req'[r])
  BY Zenon, <1>0, <1>2 DEF RequestOK, Way, Signs
<1>5. Inherits(r)
  BY Zenon, <1>2 DEF Inherits
<1>6. UNCHANGED <<caCert, cache, flock, clock, cred, sub, answers, artifacts, buckets, slots, admitted, mlock>>
  BY Zenon DEF LoadRootKey, credVars, subVars, outVars, limitVars
<1>7. \A u \in Users : Known(u)' \subseteq Known(u)
  BY Zenon, <1>2, <1>5, <1>6, KnownStays
<1>8. ASSUME NEW q \in Requests
      PROVE  RootOK(q)'
  <2>1. CASE q = r
    BY Zenon, <1>0, <1>2, <1>3, <1>6, <2>1 DEF RootOK
  <2>2. CASE q # r
    <3>1. RootOK(q) /\ req'[q] = req[q] /\ req[q].pc \notin {"key", "cert"}
      BY Zenon, <1>0, <1>2, <2>2, Alone DEF CredInv, RootInv, Moves
    <3> QED BY Zenon, <1>6, <3>1 DEF RootOK
  <2> QED BY Zenon, <2>1, <2>2
<1>9. RootInv'
  BY Zenon, <1>3, <1>6, <1>7, <1>8 DEF CredInv, RootInv, OneRoot
<1> QED BY Zenon, <1>0, <1>2, <1>4, <1>5, <1>6, <1>9, Quiet, CalmKeeps

\* The certificate is read, or made for that key.
LEMMA LoadRootCertKeeps ==
    ASSUME CredInv, NEW r \in Requests, LoadRootCert(r)
    PROVE  CredInv'
<1>0. /\ req[r].pc = "cert" /\ RequestOK(req[r]) /\ flock = r /\ req[r].root = caKey /\ caKey # None
      /\ req[r].to \in {"sign", "respond"} /\ req[r].p \in Procs
  BY Zenon DEF CredInv, LoadRootCert, At, RootInv, RootOK, RequestOK
<1>1. caCert' = caKey /\ (caCert # None => caCert = caKey)
  BY Zenon, <1>0 DEF LoadRootCert, RootCert, CredInv, RootInv, OneRoot
<1>2. cache' = [cache EXCEPT ![req[r].p] = caKey] /\ req' = [req EXCEPT ![r].pc = req[r].to]
  BY Zenon, <1>0, <1>1 DEF LoadRootCert, Paired, RootCert
<1>3. /\ Moves(r) /\ DOMAIN req'[r] = Fields
      /\ req'[r].c = req[r].c /\ req'[r].row = req[r].row /\ req'[r].gen = req[r].gen /\ req'[r].p = req[r].p
      /\ req'[r].op = req[r].op /\ req'[r].to = req[r].to
      /\ req'[r].now = req[r].now /\ req'[r].stale = req[r].stale
      /\ req'[r].pc = req[r].to /\ req'[r].root = caKey
  BY Zenon, <1>0, <1>2, Quiet DEF Moves, Fields
<1>4. RequestOK(req'[r])
  BY Zenon, <1>0, <1>3 DEF RequestOK, Way, Signs
<1>5. Inherits(r)
  BY Zenon, <1>3 DEF Inherits
<1>6. /\ UNCHANGED <<caKey, serial, clock, cred, sub, answers, artifacts, buckets, slots, admitted, mlock>>
      /\ flock' = None
  BY Zenon DEF LoadRootCert, credVars, subVars, outVars, limitVars
<1>7. \A u \in Users : Known(u)' \subseteq Known(u)
  BY Zenon, <1>3, <1>5, <1>6, KnownStays
<1>8. ASSUME NEW q \in Requests
      PROVE  RootOK(q)'
  <2>1. CASE q = r
    BY Zenon, <1>0, <1>1, <1>3, <2>1 DEF RootOK
  <2>2. CASE q # r
    <3>1. RootOK(q) /\ req'[q] = req[q] /\ req[q].pc \notin {"key", "cert"}
      BY Zenon, <1>0, <1>3, <2>2, Alone DEF CredInv, RootInv, Moves
    <3> QED BY Zenon, <1>0, <1>1, <3>1 DEF RootOK
  <2> QED BY Zenon, <2>1, <2>2
<1>9. OneRoot'
  BY Zenon, <1>0, <1>1, <1>2, <1>6 DEF CredInv, RootInv, OneRoot
<1>10. cache' \in [Procs -> Nat \cup {None}]
  BY Zenon, <1>0, <1>2 DEF CredInv, RootInv
<1>11. RootInv'
  BY Zenon, <1>0, <1>1, <1>6, <1>7, <1>8, <1>9, <1>10 DEF CredInv, RootInv
<1> QED BY Zenon, <1>0, <1>3, <1>4, <1>5, <1>6, <1>11, Quiet, CalmKeeps

\* The end of a request with an answer.
LEMMA AnswerKeeps ==
    ASSUME CredInv, NEW r \in Requests, Ends(r), NEW a, answers' = answers \cup {a},
           a.key = caCert, a.ca = caCert, caCert # None, AnswerOK(a),
           \A b \in answers : a.gen > 0 /\ a.gen = b.gen /\ Owner[a.c] = Owner[b.c] => a = b,
           UNCHANGED <<caKey, caCert, cache, flock, cred, sub, artifacts, buckets, slots, admitted, mlock, clock>>,
           serial' \in Nat
    PROVE  CredInv'
<1>1. Moves(r) /\ req'[r] = Idle
  BY Zenon, Quiet DEF Ends, Moves
<1>2. Inherits(r)
  BY Zenon, <1>1, IdleOK DEF Inherits
<1>3. \A u \in Users : Known(u)' \subseteq Known(u)
  BY Zenon, <1>1, <1>2, KnownStays
<1>4. ASSUME NEW b \in answers'
      PROVE  AnswerOK(b)'
  <2>1. AnswerOK(b)
    BY Zenon, <1>4 DEF CredInv, AnswerInv
  <2> QED BY Zenon, <1>3, <2>1, CredentialsAssumption DEF AnswerOK
<1>5. AnswerInv'
  <2>1. RetrySafe'
    BY ZenonT(30) DEF CredInv, AnswerInv, RetrySafe
  <2> QED BY Zenon, <1>4, <2>1 DEF AnswerInv
<1>6. RootOK(r)' /\ PeriodOK(r)' /\ LimitOK(r)'
  BY Zenon, <1>1, IdleOK, Quiet DEF RootOK, PeriodOK, LimitOK
<1>7. RootInv'
  BY Zenon, <1>1, <1>3, <1>6, RootStays DEF CredInv, RootInv
<1> QED BY Zenon, <1>1, <1>2, <1>5, <1>6, <1>7, IdleOK, StepKeeps

\* Certificates that belong to no row.
LEMMA IssueKeeps ==
    ASSUME CredInv, NEW r \in Requests, IssueUnbound(r)
    PROVE  CredInv'
<1>1. PICK a : a = Answer(req[r].c, 0, Certificate(r), req[r].root)
  BY Zenon 
<1>2. req[r].root = caCert /\ caCert # None /\ serial \in Nat
  BY Zenon DEF IssueUnbound, At, CredInv, RootInv, RootOK
<1>3. /\ a.gen = 0 /\ a.key = caCert /\ a.ca = caCert
      /\ a = [c |-> a.c, gen |-> a.gen, serial |-> a.serial, key |-> a.key, ca |-> a.ca]
  BY Zenon, <1>1, <1>2 DEF Answer, Certificate
<1>4. AnswerOK(a)
  BY <1>3 DEF AnswerOK
<1>5. answers' = answers \cup {a} /\ Ends(r)
  BY Zenon, <1>1 DEF IssueUnbound
<1>6. /\ UNCHANGED <<caKey, caCert, cache, flock, cred, sub, artifacts, buckets, slots, admitted, mlock, clock>>
      /\ serial' \in Nat
  BY <1>2 DEF IssueUnbound, caVars, limitVars, credVars, subVars
<1> QED BY <1>2, <1>3, <1>4, <1>5, <1>6, AnswerKeeps

\* A certificate for a new or renewed credential.
LEMMA NewCredentialKeeps ==
    ASSUME CredInv, NEW r \in Requests, NewCredential(r)
    PROVE  CredInv'
<1>0. /\ req[r].pc = "sign" /\ req[r].op = "enroll" /\ RequestOK(req[r]) /\ serial \in Nat /\ clock \in Nat
      /\ req[r].root = caCert /\ caCert # None /\ caCert \in Nat
  BY CredentialsAssumption DEF NewCredential, At, CredInv, RootInv, RootOK, OneRoot
<1>1. Certificate(r) \in Cert /\ Certificate(r).key = caCert
  BY <1>0, CredentialsAssumption DEF Certificate, Cert
<1>2. /\ Moves(r) /\ DOMAIN req'[r] = Fields
      /\ req'[r].c = req[r].c /\ req'[r].row = req[r].row /\ req'[r].gen = req[r].gen /\ req'[r].p = req[r].p
      /\ req'[r].op = req[r].op /\ req'[r].to = req[r].to
      /\ req'[r].now = req[r].now /\ req'[r].stale = req[r].stale
      /\ req'[r].pc = "commit" /\ req'[r].cand = Certificate(r)
  BY Zenon, <1>0, Quiet DEF NewCredential, Moves, Fields
<1>3. RequestOK(req'[r])
  BY Zenon, <1>0, <1>1, <1>2 DEF RequestOK, Way, Signs
<1>4. Inherits(r)
  BY Zenon, <1>2 DEF Inherits
<1>5. /\ UNCHANGED <<caKey, caCert, cache, flock, clock, cred, sub, answers, artifacts, buckets, slots, admitted, mlock>>
      /\ serial' \in Nat
  BY <1>0 DEF NewCredential, caVars, credVars, subVars, outVars, limitVars
<1>6. \A u \in Users : Known(u)' \subseteq Known(u)
  BY Zenon, <1>2, <1>4, <1>5, KnownStays
<1>7. RootOK(r)'
  BY Zenon, <1>0, <1>1, <1>2, <1>5 DEF RootOK
<1>8. RootInv'
  BY Zenon, <1>2, <1>5, <1>6, <1>7, RootStays DEF CredInv, RootInv
<1> QED BY Zenon, <1>0, <1>2, <1>3, <1>4, <1>5, <1>8, Quiet, CalmKeeps

----------------------------------------------------------------------------
(* Enrollment *)

\* The row of an account is known.
LEMMA StoredIsKnown ==
    ASSUME CredInv, NEW u \in Users, cred[u] # None
    PROVE  cred[u] \in Known(u) /\ cred[u] \in CredentialRow /\ cred[u].gen \in Nat /\ cred[u].cert \in Cert
<1>1. cred[u] \in Known(u)
  BY Zenon DEF Known
<1>2. cred[u] \in CredentialRow
  BY DEF CredInv, RowInv
<1> QED BY Zenon, <1>1, <1>2 DEF CredentialRow

\* So is the row of a request.
LEMMA HeldIsKnown ==
    ASSUME CredInv, NEW r \in Requests, req[r].c \in Clients, req[r].row # None
    PROVE  /\ Owner[req[r].c] \in Users /\ req[r].row \in Known(Owner[req[r].c])
           /\ req[r].row \in CredentialRow /\ req[r].row.gen \in Nat
<1>1. Owner[req[r].c] \in Users /\ req[r].row \in Known(Owner[req[r].c])
  BY Zenon, CredentialsAssumption DEF Known, Readers
<1>2. req[r].row \in CredentialRow
  BY Zenon, <1>1 DEF CredInv, RowInv
<1> QED BY Zenon, <1>1, <1>2 DEF CredentialRow

\* What the stored row allows.
LEMMA LoadCredentialKeeps ==
    ASSUME CredInv, NEW r \in Requests, LoadCredential(r)
    PROVE  CredInv'
<1>0. /\ req[r].pc = "load" /\ RequestOK(req[r]) /\ req[r].c \in Clients /\ req[r].gen \in Nat \ {0}
      /\ Owner[req[r].c] \in Users
  BY Zenon, CredentialsAssumption DEF LoadCredential, At, CredInv, RequestOK
<1>1. UNCHANGED <<caKey, caCert, cache, flock, serial, clock, cred, sub, answers, artifacts, buckets, slots,
                  admitted, mlock>>
  BY Zenon DEF LoadCredential, caVars, credVars, subVars, outVars, limitVars
<1>2. CASE Ends(r)
  BY Zenon, <1>1, <1>2, EndKeeps
<1>3. CASE ~Ends(r)
  <2>1. PICK row : row = cred[Owner[req[r].c]]
    BY Zenon
  <2>2. PICK to \in {"sign", "respond"} :
          /\ req' = [req EXCEPT ![r].pc = "root", ![r].to = to, ![r].row = row]
          /\ \/ to = "sign" /\ row = None /\ req[r].gen = 1
             \/ to = "respond" /\ row # None
             \/ to = "sign" /\ row # None /\ req[r].gen = row.gen + 1
    BY Zenon, <1>3, <2>1 DEF LoadCredential, User
  <2>3. /\ Moves(r) /\ DOMAIN req'[r] = Fields
        /\ req'[r].c = req[r].c /\ req'[r].row = row /\ req'[r].gen = req[r].gen /\ req'[r].p = req[r].p
        /\ req'[r].op = req[r].op /\ req'[r].to = to
        /\ req'[r].now = req[r].now /\ req'[r].stale = req[r].stale
        /\ req'[r].pc = "root"
    BY Zenon, <2>2, Quiet DEF Moves, Fields
  <2>4. RequestOK(req'[r])
    BY Zenon, <1>0, <2>2, <2>3 DEF RequestOK, Way, Signs
  <2>5. Inherits(r)
    BY Zenon, <1>0, <2>1, <2>3 DEF Inherits
  <2>6. \A u \in Users : Known(u)' \subseteq Known(u)
    BY Zenon, <1>1, <2>3, <2>5, KnownStays
  <2>7. RootInv'
    BY Zenon, <1>1, <2>3, <2>6, RootFree, RootStays DEF CredInv, RootInv
  <2> QED BY Zenon, <1>0, <1>1, <2>3, <2>4, <2>5, <2>7, Quiet, CalmKeeps
<1> QED BY Zenon, <1>2, <1>3

\* The winner is read back.
LEMMA ReloadCredentialKeeps ==
    ASSUME CredInv, NEW r \in Requests, ReloadCredential(r)
    PROVE  CredInv'
<1>0. /\ req[r].pc = "reload" /\ RequestOK(req[r]) /\ req[r].c \in Clients /\ Owner[req[r].c] \in Users
  BY Zenon, CredentialsAssumption DEF ReloadCredential, At, CredInv, RequestOK
<1>1. UNCHANGED <<caKey, caCert, cache, flock, serial, clock, cred, sub, answers, artifacts, buckets, slots,
                  admitted, mlock>>
  BY Zenon DEF ReloadCredential, caVars, credVars, subVars, outVars, limitVars
<1>2. CASE Ends(r)
  BY Zenon, <1>1, <1>2, EndKeeps
<1>3. CASE ~Ends(r)
  <2>1. PICK row : row = cred[Owner[req[r].c]]
    BY Zenon
  <2>2. /\ req' = [req EXCEPT ![r].pc = "root", ![r].to = "respond", ![r].row = row,
                              ![r].cand = None, ![r].seen = None, ![r].root = None]
        /\ row # None
    BY Zenon, <1>3, <2>1 DEF ReloadCredential, User
  <2>3. /\ Moves(r) /\ DOMAIN req'[r] = Fields
        /\ req'[r].c = req[r].c /\ req'[r].row = row /\ req'[r].gen = req[r].gen /\ req'[r].p = req[r].p
        /\ req'[r].to = "respond"
        /\ req'[r].now = req[r].now /\ req'[r].stale = req[r].stale
        /\ req'[r].pc = "root"
    BY <2>2, Quiet DEF Moves, Fields
  <2>4. RequestOK(req'[r])
    BY Zenon, <1>0, <2>2, <2>3 DEF RequestOK, Way, Signs
  <2>5. Inherits(r)
    BY Zenon, <1>0, <2>1, <2>3 DEF Inherits
  <2>6. \A u \in Users : Known(u)' \subseteq Known(u)
    BY Zenon, <1>1, <2>3, <2>5, KnownStays
  <2>7. RootInv'
    BY Zenon, <1>1, <2>3, <2>6, RootFree, RootStays DEF CredInv, RootInv
  <2> QED BY Zenon, <1>0, <1>1, <2>3, <2>4, <2>5, <2>7, Quiet, CalmKeeps
<1> QED BY Zenon, <1>2, <1>3

\* The stored certificate is answered.
LEMMA RespondKeeps ==
    ASSUME CredInv, NEW r \in Requests, Respond(r)
    PROVE  CredInv'
<1>0. PICK row, u, a : row = req[r].row /\ u = Owner[req[r].c] /\ a = Answer(row.c, row.gen, row.cert, req[r].root)
  BY Zenon
<1>1. /\ req[r].pc = "respond" /\ req[r].c \in Clients /\ row # None
      /\ req[r].root = caCert /\ caCert # None
  BY Zenon, <1>0 DEF Respond, At, CredInv, RequestOK, Way, RootInv, RootOK
<1>2. u \in Users /\ row \in Known(u) /\ row \in CredentialRow /\ row.gen \in Nat
  BY Zenon, <1>0, <1>1, HeldIsKnown
<1>3. /\ row.cert.key = caCert /\ cred[u] # None /\ row.c = cred[u].c /\ Owner[row.c] = u
      /\ row.gen <= cred[u].gen /\ row.c \in Clients
      /\ \A y \in Known(u) : row.gen = y.gen => row = y
  BY Zenon, <1>2 DEF CredInv, RootInv, RowInv, CredentialRow
<1>4. /\ a.c = row.c /\ a.gen = row.gen /\ a.serial = row.cert.serial /\ a.key = caCert /\ a.ca = caCert
      /\ a = [c |-> a.c, gen |-> a.gen, serial |-> a.serial, key |-> a.key, ca |-> a.ca]
  BY Zenon, <1>0, <1>1, <1>3 DEF Answer
<1>5. AnswerOK(a)
  BY Zenon, <1>2, <1>3, <1>4 DEF AnswerOK
<1>6. ASSUME NEW b \in answers, a.gen > 0, a.gen = b.gen, Owner[a.c] = Owner[b.c]
      PROVE  a = b
  <2>1. AnswerOK(b) /\ b.key = caCert /\ b.ca = caCert
    BY Zenon DEF CredInv, AnswerInv, RootInv, OneRoot
  <2>2. b.c = cred[u].c /\ row.cert.serial = b.serial
    BY Zenon, <1>2, <1>3, <1>4, <1>6, <2>1 DEF AnswerOK
  <2> QED BY Zenon, <1>3, <1>4, <1>6, <2>1, <2>2 DEF AnswerOK
<1>7. answers' = answers \cup {a} /\ Ends(r)
  BY Zenon, <1>0 DEF Respond
<1>8. /\ UNCHANGED <<caKey, caCert, cache, flock, cred, sub, artifacts, buckets, slots, admitted, mlock, clock>>
      /\ serial' \in Nat
  BY Zenon DEF Respond, caVars, limitVars, credVars, subVars, CredInv, RootInv
<1> QED BY Zenon, <1>1, <1>4, <1>5, <1>6, <1>7, <1>8, AnswerKeeps

\* The row a commit writes is the next generation of the account.
LEMMA CommitRow ==
    ASSUME CredInv, NEW r \in Requests, req[r].pc = "commit", NEW u, u = Owner[req[r].c],
           IF req[r].row = None THEN Insertable(r) ELSE Fenced(r),
           NEW new, new = Credential(req[r].c, req[r].gen, req[r].cand)
    PROVE  /\ u \in Users /\ new \in CredentialRow /\ new # None /\ Owner[new.c] = u
           /\ new.cert.key = caCert /\ caCert # None
           /\ new.gen = IF cred[u] = None THEN 1 ELSE cred[u].gen + 1
           /\ cred[u] # None => new.c = cred[u].c /\ new.inst = cred[u].inst
<1>1. /\ req[r].c \in Clients /\ req[r].gen \in Nat \ {0} /\ req[r].cand \in Cert
      /\ req[r].gen = IF req[r].row = None THEN 1 ELSE req[r].row.gen + 1
      /\ req[r].cand.key = caCert /\ caCert # None
  BY Zenon DEF CredInv, RequestOK, Signs, RootInv, RootOK
<1>2. /\ new \in CredentialRow /\ new.c = req[r].c /\ new.gen = req[r].gen /\ new.cert = req[r].cand
      /\ new.inst = InstanceOf[req[r].c]
  BY Zenon, <1>1, CredentialsAssumption DEF Credential, CredentialRow
<1>3. u \in Users /\ new # None
  BY Zenon, <1>1, <1>2, CredentialsAssumption
<1>4. CASE req[r].row = None
  BY Zenon, <1>1, <1>2, <1>3, <1>4 DEF Insertable, User
<1>5. CASE req[r].row # None
  BY Zenon, <1>1, <1>2, <1>3, <1>5 DEF Fenced, User, SameIdentity
<1> QED BY Zenon, <1>4, <1>5

\* The insert or the update, or nothing.
LEMMA CommitCredentialKeeps ==
    ASSUME CredInv, NEW r \in Requests, CommitCredential(r)
    PROVE  CredInv'
<1>0. req[r].pc = "commit" /\ RequestOK(req[r])
  BY Zenon DEF CommitCredential, At, CredInv
<1>1. PICK u, new, ok : /\ u = Owner[req[r].c] /\ new = Credential(req[r].c, req[r].gen, req[r].cand)
                        /\ ok = IF req[r].row = None THEN Insertable(r) ELSE Fenced(r)
  BY Zenon
<1>2. /\ Moves(r) /\ DOMAIN req'[r] = Fields
      /\ req'[r].c = req[r].c /\ req'[r].row = req[r].row /\ req'[r].gen = req[r].gen /\ req'[r].p = req[r].p
      /\ req'[r].now = req[r].now /\ req'[r].stale = req[r].stale
      /\ req'[r].pc = "reload"
  BY Zenon, Quiet DEF CommitCredential, Moves, Fields
<1>3. RequestOK(req'[r])
  BY Zenon, <1>0, <1>2 DEF RequestOK, Way, Signs
<1>4. Inherits(r)
  BY Zenon, <1>2 DEF Inherits
<1>5. UNCHANGED <<caKey, caCert, cache, flock, serial, clock, sub, answers, artifacts, buckets, slots, admitted, mlock>>
  BY Zenon DEF CommitCredential, caVars, subVars, outVars, limitVars
<1>6. CASE cred' = cred
  <2>1. \A v \in Users : Known(v)' \subseteq Known(v)
    BY Zenon, <1>2, <1>4, <1>6, KnownStays
  <2>2. RootInv'
    BY Zenon, <1>2, <1>5, <2>1, RootFree, RootStays DEF CredInv, RootInv
  <2> QED BY Zenon, <1>0, <1>2, <1>3, <1>4, <1>5, <1>6, <2>2, Quiet, CalmKeeps
<1>7. ASSUME cred' # cred
      PROVE  CredInv'
  <2>1. cred' = [cred EXCEPT ![u] = new] /\ (IF req[r].row = None THEN Insertable(r) ELSE Fenced(r))
    BY ZenonT(30), <1>1, <1>7 DEF CommitCredential, User
  <2>2. /\ u \in Users /\ new \in CredentialRow /\ new # None /\ Owner[new.c] = u
        /\ new.cert.key = caCert /\ caCert # None
        /\ new.gen = IF cred[u] = None THEN 1 ELSE cred[u].gen + 1
        /\ cred[u] # None => new.c = cred[u].c /\ new.inst = cred[u].inst
    BY <1>0, <1>1, <2>1, CommitRow
  <2>3. cred'[u] = new /\ \A v \in Users : v # u => cred'[v] = cred[v]
    BY Zenon, <2>1, <2>2 DEF CredInv, RowInv
  <2>4. \A v \in Users : \A x \in Known(v)' : x \in Known(v) \/ (v = u /\ x = new)
    BY <1>2, <2>3 DEF Known, Readers, Moves
  <2>5. RowInv'
    <3>1. cred' \in [Users -> CredentialRow \cup {None}]
      BY Zenon, <2>1, <2>2 DEF CredInv, RowInv
    <3>2. ASSUME NEW v \in Users, NEW x \in Known(v)'
          PROVE  /\ x \in CredentialRow /\ cred'[v] # None
                 /\ x.c = cred'[v].c /\ x.inst = cred'[v].inst /\ Owner[x.c] = v /\ x.gen <= cred'[v].gen
                 /\ x = new \/ v # u \/ x.gen < new.gen
      <4>1. CASE v = u /\ x = new
        BY SMTT(30), <2>2, <2>3, <4>1 DEF CredentialRow
      <4>2. CASE x \in Known(v)
        <5>1. /\ x \in CredentialRow /\ cred[v] # None /\ cred[v] \in CredentialRow
              /\ x.c = cred[v].c /\ x.inst = cred[v].inst /\ Owner[x.c] = v /\ x.gen <= cred[v].gen
          BY <4>2 DEF CredInv, RowInv
        <5>2. x.gen \in Nat /\ cred[v].gen \in Nat
          BY Zenon, <5>1 DEF CredentialRow
        <5> QED BY SMTT(30), <2>2, <2>3, <5>1, <5>2
      <4> QED BY Zenon, <2>4, <3>2, <4>1, <4>2
    <3>3. ASSUME NEW v \in Users, NEW x \in Known(v)', NEW y \in Known(v)', x.gen = y.gen
          PROVE  x = y
      <4>1. CASE x \in Known(v) /\ y \in Known(v)
        BY Zenon, <3>3, <4>1 DEF CredInv, RowInv
      <4>2. CASE v = u /\ (x = new \/ y = new)
        <5>1. x.gen \in Nat /\ y.gen \in Nat /\ new.gen \in Nat
          BY Zenon, <2>2, <3>2, <3>3 DEF CredentialRow
        <5> QED BY SMTT(30), <3>2, <3>3, <4>2, <5>1
      <4> QED BY Zenon, <2>4, <3>3, <4>1, <4>2
    <3> QED BY Zenon, <3>1, <3>2, <3>3 DEF RowInv
  <2>6. AnswerInv'
    <3>1. ASSUME NEW a \in answers
          PROVE  AnswerOK(a)'
      <4>1. AnswerOK(a)
        BY Zenon DEF CredInv, AnswerInv
      <4>2. CASE a.gen > 0
        <5>1. PICK v \in Users : v = Owner[a.c]
          BY Zenon, <4>1, <4>2, CredentialsAssumption DEF AnswerOK
        <5>2. /\ cred[v] # None /\ cred[v].gen \in Nat /\ a.gen <= cred[v].gen /\ a.c = cred[v].c /\ a.gen \in Nat
          BY Zenon, <4>1, <4>2, <5>1, StoredIsKnown DEF AnswerOK
        <5>3. cred'[v] # None /\ a.gen <= cred'[v].gen /\ a.c = cred'[v].c
          BY <2>2, <2>3, <5>2
        <5>4. \A x \in Known(v)' : x.gen = a.gen => x \in Known(v)
          BY <2>2, <2>4, <5>2
        <5> QED BY Zenon, <4>1, <4>2, <5>1, <5>3, <5>4 DEF AnswerOK
      <4> QED BY Zenon, <4>1, <4>2 DEF AnswerOK
    <3> QED BY Zenon, <1>5, <3>1 DEF CredInv, AnswerInv, RetrySafe
  <2>7. \A s \in Subs : Spans(s)' \subseteq Spans(s)
    BY Zenon, <1>2, <1>5, SpansStay
  <2>8. SpanInv'
    <3>1. \A q \in Requests : PeriodOK(q)'
      <4> SUFFICES ASSUME NEW q \in Requests
                   PROVE  PeriodOK(q)'
        BY Zenon 
      <4>1. CASE q = r
        BY Zenon, <1>2, <4>1 DEF PeriodOK
      <4>2. CASE q # r
        <5>1. PeriodOK(q) /\ req'[q] = req[q] /\ RequestOK(req[q])
          BY Zenon, <1>2, <4>2 DEF CredInv, SpanInv, Moves
        <5>2. req[q].pc \in {"subs", "entitle"} => Owner[req[q].c] \in Users
          BY Zenon, <5>1, CredentialsAssumption DEF RequestOK
        <5> QED BY Zenon, <2>2, <2>3, <5>1, <5>2 DEF PeriodOK
      <4> QED BY Zenon, <4>1, <4>2
    <3> QED BY <1>5, <2>7, <3>1 DEF CredInv, SpanInv
  <2>9. ArtifactInv'
    <3>1. ASSUME NEW a \in artifacts
          PROVE  ArtifactOK(a)'
      <4>1. ArtifactOK(a)
        BY Zenon DEF CredInv, ArtifactInv
      <4>2. PICK v, s, g : v = SubOwner[a.claim.sub] /\ s = a.claim.sub /\ g = a.jti[3]
        BY Zenon
      <4>3. /\ s \in Subs /\ v \in Users /\ cred[v] # None /\ g <= cred[v].gen /\ cred[v].gen \in Nat
            /\ g \in 0..(2 ^ GenBits - 1)
        BY Zenon, <4>1, <4>2, CredentialsAssumption, StoredIsKnown DEF ArtifactOK
      <4>4. g \in Nat
        BY SMTT(30), <4>3
      <4>5. /\ cred'[v] # None /\ g <= cred'[v].gen /\ cred'[v].c = cred[v].c /\ cred'[v].inst = cred[v].inst
        BY SMTT(30), <2>2, <2>3, <4>3, <4>4
      <4>6. \A x \in Known(v)' : x.gen = g => x \in Known(v)
        BY <2>2, <2>4, <4>3, <4>4
      <4> QED BY Zenon, <1>5, <2>7, <4>1, <4>2, <4>3, <4>5, <4>6 DEF ArtifactOK
    <3> QED BY Zenon, <1>5, <3>1 DEF CredInv, ArtifactInv
  <2>10. RootInv'
    <3>1. \A v \in Users : \A x \in Known(v)' : x.cert.key = caCert /\ caCert # None
      BY Zenon, <2>2, <2>4 DEF CredInv, RootInv
    <3>2. ASSUME NEW q \in Requests
          PROVE  RootOK(q)'
      BY ZenonT(30), <1>2, <1>5, RootFree DEF CredInv, RootInv, RootOK, Moves
    <3> QED BY Zenon, <1>5, <3>1, <3>2 DEF CredInv, RootInv, OneRoot
  <2>11. LimitInv'
    <3>1. LimitOK(r)'
      BY Zenon, <1>0, <1>2, <1>5, Quiet DEF LimitOK
    <3> QED BY Zenon, <1>2, <1>5, <3>1, LimitsStay
  <2> QED BY Zenon, <1>2, <1>3, <2>5, <2>6, <2>8, <2>9, <2>10, <2>11, RequestsStay DEF CredInv
<1> QED BY Zenon, <1>6, <1>7

----------------------------------------------------------------------------
(* Entitlements *)

\* The locked row is the stored one.
LEMMA LockCredentialKeeps ==
    ASSUME CredInv, NEW r \in Requests, LockCredential(r)
    PROVE  CredInv'
<1>1. /\ req[r].pc = "config" /\ RequestOK(req[r])
      /\ UNCHANGED <<caKey, caCert, cache, flock, serial, cred, sub, answers, artifacts, buckets, slots,
                     admitted, mlock, clock>>
  BY Zenon DEF LockCredential, At, CredInv, caVars, subVars, outVars, limitVars
<1>2. CASE Ends(r)
  BY Zenon, <1>1, <1>2, EndKeeps
<1>3. CASE EnrolledKey(cred[User(r)], req[r].c)
  <2>1. /\ Moves(r) /\ DOMAIN req'[r] = Fields
        /\ req'[r].c = req[r].c /\ req'[r].row = cred[Owner[req[r].c]] /\ req'[r].p = req[r].p
        /\ req'[r].now = req[r].now /\ req'[r].stale = req[r].stale /\ req'[r].pc = "subs"
    BY <1>3, Quiet DEF LockCredential, Moves, Fields, User
  <2>2. RequestOK(req'[r]) /\ req[r].c \in Clients
    BY Zenon, <1>1, <2>1 DEF RequestOK, Way, Signs
  <2>3. Inherits(r)
    BY Zenon, <2>1, <2>2 DEF Inherits
  <2>4. \A u \in Users : Known(u)' \subseteq Known(u)
    BY Zenon, <1>1, <2>1, <2>3, KnownStays
  <2>5. RootInv'
    BY Zenon, <1>1, <2>1, <2>4, RootFree, RootStays DEF CredInv, RootInv
  <2>6. AnswerInv'
    BY Zenon, <1>1, <2>4, AnswersStay
  <2>7. LimitOK(r)'
    BY Zenon, <1>1, <2>1, Quiet DEF LimitOK
  <2>8. PeriodOK(r)'
    BY Zenon, <1>1, <1>3, <2>1 DEF PeriodOK, EnrolledKey, User
  <2> QED BY ZenonT(30), <1>1, <2>1, <2>2, <2>3, <2>5, <2>6, <2>7, <2>8, StepKeeps
<1> QED BY Zenon, <1>2, <1>3 DEF LockCredential

\* What is read of the subscriptions is what is stored of them.
LEMMA ReadSubscriptionsKeeps ==
    ASSUME CredInv, NEW r \in Requests, ReadSubscriptions(r)
    PROVE  CredInv'
<1>1. /\ req[r].pc = "subs" /\ RequestOK(req[r]) /\ PeriodOK(r)
      /\ UNCHANGED <<caKey, caCert, cache, flock, serial, cred, answers, artifacts, buckets, slots,
                     admitted, mlock, clock>>
  BY Zenon DEF ReadSubscriptions, At, CredInv, SpanInv, caVars, outVars, limitVars
<1>2. PICK D : D = Mine(r) \ Elapsed(Mine(r))
  BY Zenon
<1>3. D \subseteq Subs /\ \A s \in D : SubOwner[s] = Owner[req[r].c]
  BY Zenon, <1>2 DEF Mine, Elapsed, User
<1>4. /\ Moves(r) /\ DOMAIN req'[r] = Fields
      /\ req'[r].c = req[r].c /\ req'[r].row \in {None, req[r].row} /\ req'[r].p = req[r].p
      /\ req'[r].now = req[r].now /\ req'[r].stale = req[r].stale /\ req'[r].pc = "entitle"
      /\ req'[r].subs = [s \in D |-> sub[s]]
  <2>1. PICK reaped \in BOOLEAN :
          req' = [req EXCEPT ![r].pc = "entitle",
                             ![r].row = IF reaped \/ Elapsed(Mine(r)) # {} THEN None ELSE @,
                             ![r].subs = [s \in D |-> sub[s]]]
    BY Zenon, <1>2 DEF ReadSubscriptions
  <2>2. PICK forgets \in BOOLEAN : forgets = (reaped \/ Elapsed(Mine(r)) # {})
    BY Zenon
  <2>3. req' = [req EXCEPT ![r].pc = "entitle", ![r].row = IF forgets THEN None ELSE @,
                           ![r].subs = [s \in D |-> sub[s]]]
    BY Zenon, <2>1, <2>2, Zenon
  <2> QED BY Zenon, <2>3, Quiet DEF Moves, Fields
<1>5. RequestOK(req'[r])
  BY Zenon, <1>1, <1>4 DEF RequestOK, Way, Signs
<1>6. \A u \in Users : Known(u)' \subseteq Known(u)
  BY Zenon, <1>1, <1>4, KnownStays DEF Inherits
<1>7. /\ sub' \in [Subs -> [start : Nat, end : Nat, active : BOOLEAN]]
      /\ \A s \in Subs : sub'[s].start = sub[s].start /\ sub'[s].end = sub[s].end
  <2>1. sub \in [Subs -> [start : Nat, end : Nat, active : BOOLEAN]]
    BY Zenon DEF CredInv, SpanInv
  <2>2. PICK G : sub' = [s \in Subs |-> IF s \in G THEN [sub[s] EXCEPT !.active = FALSE] ELSE sub[s]]
    BY Zenon DEF ReadSubscriptions
  <2>3. \A s \in Subs : sub'[s] = IF s \in G THEN [sub[s] EXCEPT !.active = FALSE] ELSE sub[s]
    BY Zenon, <2>2
  <2>4. \A s \in Subs : /\ sub'[s] \in [start : Nat, end : Nat, active : BOOLEAN]
                        /\ sub'[s].start = sub[s].start /\ sub'[s].end = sub[s].end
    BY Zenon, <2>1, <2>3
  <2> QED BY Zenon, <2>2, <2>4
<1>8. \A s \in Subs : Spans(s)' \subseteq Spans(s)
  <2> SUFFICES ASSUME NEW s \in Subs, NEW x \in Spans(s)'
               PROVE  x \in Spans(s)
    BY Zenon
  <2>1. CASE x = <<sub'[s].start, sub'[s].end>>
    BY Zenon, <1>7, <2>1 DEF Spans
  <2>2. ASSUME NEW q \in Requests, req'[q].pc = "entitle", s \in DOMAIN req'[q].subs,
               x = <<req'[q].subs[s].start, req'[q].subs[s].end>>
        PROVE  x \in Spans(s)
    <3>1. CASE q = r
      BY Zenon, <1>4, <2>2, <3>1 DEF Spans
    <3>2. CASE q # r
      BY Zenon, <1>4, <2>2, <3>2 DEF Spans, Holders, Moves
    <3> QED BY Zenon, <3>1, <3>2
  <2> QED BY Zenon, <2>1, <2>2 DEF Spans, Holders
<1>9. PeriodOK(r)'
  BY Zenon, <1>1, <1>3, <1>4 DEF PeriodOK
<1>10. RowInv' /\ AnswerInv' /\ ArtifactInv' /\ SpanInv'
  BY Zenon, <1>1, <1>4, <1>6, <1>7, <1>8, <1>9, RowsStay, AnswersStay, ArtifactsStay, PeriodsStay
<1>11. RootInv'
  BY Zenon, <1>1, <1>4, <1>6, RootFree, RootStays DEF CredInv, RootInv
<1>12. LimitOK(r)'
  BY Zenon, <1>1, <1>4, Quiet DEF LimitOK
<1>13. LimitInv'
  BY Zenon, <1>1, <1>4, <1>12, LimitsStay
<1> QED BY Zenon, <1>4, <1>5, <1>10, <1>11, <1>13, RequestsStay DEF CredInv

\* An artifact made from a known row and a known period.
LEMMA ArtifactMade ==
    ASSUME CredInv, NEW s \in Subs, NEW e, NEW row, NEW p,
           row \in Known(SubOwner[s]), InRange(row), <<p.start, p.end>> \in Spans(s),
           NEW a, a = Artifact(s, p, e, row)
    PROVE  /\ ArtifactOK(a)
           /\ \A b : ArtifactOK(b) /\ a.jti = b.jti => a.iat = b.iat
<1>1. PICK u \in Users : u = SubOwner[s]
  BY Zenon, CredentialsAssumption
<1>2. /\ row \in CredentialRow /\ cred[u] # None /\ cred[u] \in CredentialRow
      /\ row.c = cred[u].c /\ row.inst = cred[u].inst /\ row.gen <= cred[u].gen
      /\ \A x \in Known(u) : row.gen = x.gen => row = x
  BY <1>1 DEF CredInv, RowInv
<1>3. /\ p.end \in Nat /\ p.end <= sub[s].end
      /\ \A y \in Spans(s) : p.end = y[2] => p.start = y[1]
  <2>1. PICK x \in Spans(s) : x = <<p.start, p.end>>
    BY Zenon
  <2>2. x[1] = p.start /\ x[2] = p.end
    BY Zenon, <2>1
  <2> QED BY Zenon, <2>1, <2>2 DEF CredInv, SpanInv
<1>4. row.gen \in 0..(2 ^ GenBits - 1)
  BY <1>2, CredentialsAssumption DEF InRange, CredentialRow
<1>5. /\ a = [claim |-> [sub |-> s, edge |-> e, c |-> cred[u].c, paid |-> p.end],
              jti |-> <<s, cred[u].inst, row.gen, cred[u].c, e, p.end, s \in Wildcard>>,
              iat |-> a.iat, gen |-> p.end * 2 ^ GenBits + row.gen]
      /\ a.iat = Later(row.cert.notBefore, p.start)
  BY Zenon, <1>2 DEF Artifact, Claim, Jti, IssuedAt, Generation, Later
<1>6. a.claim.sub = s /\ a.claim.edge = e /\ a.claim.paid = p.end /\ a.jti[3] = row.gen
  BY SMTT(30), <1>5
<1>7. \A x \in Known(u), y \in Spans(s) :
         x.gen = row.gen /\ y[2] = p.end => a.iat = Later(x.cert.notBefore, y[1])
  BY ZenonT(30), <1>2, <1>3, <1>5
<1>8. ArtifactOK(a)
  BY <1>1, <1>2, <1>3, <1>4, <1>5, <1>6, <1>7 DEF ArtifactOK
<1>9. ASSUME NEW b, ArtifactOK(b), a.jti = b.jti
      PROVE  a.iat = b.iat
  <2>1. b.jti[1] = b.claim.sub /\ b.jti[6] = b.claim.paid
    BY <1>9 DEF ArtifactOK
  <2>2. b.claim.sub = s /\ b.claim.paid = p.end /\ b.jti[3] = row.gen
    BY <1>5, <1>6, <1>9, <2>1
  <2>3. PICK x, y : x = row /\ y = <<p.start, p.end>>
    BY Zenon 
  <2>4. x \in Known(u) /\ y \in Spans(s) /\ x.gen = row.gen /\ y[2] = p.end /\ y[1] = p.start
    BY Zenon, <1>1, <2>3
  <2>5. b.iat = Later(x.cert.notBefore, y[1])
    BY Zenon, <1>1, <1>9, <2>2, <2>4 DEF ArtifactOK
  <2> QED BY Zenon, <1>5, <2>3, <2>4, <2>5
<1> QED BY Zenon, <1>8, <1>9

\* Every artifact of an answer comes from a known row and known periods.
LEMMA IssueEntitlementsKeeps ==
    ASSUME CredInv, NEW r \in Requests, IssueEntitlements(r)
    PROVE  CredInv'
<1>1. /\ req[r].pc = "entitle" /\ RequestOK(req[r]) /\ PeriodOK(r)
      /\ UNCHANGED <<caKey, caCert, cache, flock, serial, cred, sub, answers, buckets, slots,
                     admitted, mlock, clock>>
  BY Zenon DEF IssueEntitlements, At, CredInv, SpanInv, caVars, outVars, limitVars
<1>2. Moves(r) /\ req'[r] = Idle
  BY Zenon, Quiet DEF IssueEntitlements, Ends, Moves
<1>3. \A u \in Users : Known(u)' \subseteq Known(u)
  BY Zenon, <1>1, <1>2, IdleOK, KnownStays DEF Inherits
<1>4. \A s \in Subs : Spans(s)' \subseteq Spans(s)
  BY Zenon, <1>1, <1>2, IdleOK, SpansStay
<1>5. PICK row, period : /\ row = IF req[r].row = None THEN cred[User(r)] ELSE req[r].row
                         /\ period = req[r].subs
  BY Zenon
<1>6. req[r].c \in Clients /\ User(r) \in Users /\ cred[User(r)] # None
  BY Zenon, <1>1, CredentialsAssumption DEF RequestOK, PeriodOK, User
<1>7. row \in Known(User(r))
  BY Zenon, <1>5, <1>6 DEF Known, Readers, User
<1>8. \A s \in DOMAIN period : s \in Subs /\ SubOwner[s] = User(r) /\ <<period[s].start, period[s].end>> \in Spans(s)
  BY Zenon, <1>1, <1>5 DEF PeriodOK, User, Spans, Holders
<1>9. \A a \in artifacts' :
         a \in artifacts
         \/ (InRange(row) /\ \E s \in DOMAIN period, e \in Edges : a = Artifact(s, period[s], e, row))
  <2>1. PICK chosen : chosen = DOMAIN period \ (IF req[r].op = "config2" THEN Wildcard ELSE {})
    BY ZenonT(30)
  <2>2. \/ artifacts' = artifacts
        \/ InRange(row) /\ artifacts' = artifacts \cup {Artifact(s, period[s], e, row) : s \in chosen, e \in Edges}
    BY <1>5, <2>1 DEF IssueEntitlements
  <2> SUFFICES ASSUME NEW a \in artifacts', a \notin artifacts
               PROVE  InRange(row) /\ \E s \in DOMAIN period, e \in Edges : a = Artifact(s, period[s], e, row)
    BY Zenon
  <2>3. InRange(row) /\ a \in {Artifact(s, period[s], e, row) : s \in chosen, e \in Edges}
    BY <2>2
  <2>4. \E s \in chosen, e \in Edges : a = Artifact(s, period[s], e, row)
    BY <2>3
  <2> QED BY <2>1, <2>3, <2>4
<1>10. ASSUME NEW a \in artifacts'
       PROVE  ArtifactOK(a) /\ \A b \in artifacts' : ArtifactOK(b) /\ a.jti = b.jti => a \in artifacts \/ a.iat = b.iat
  <2>1. CASE a \in artifacts
    BY Zenon, <2>1 DEF CredInv, ArtifactInv
  <2>2. CASE a \notin artifacts
    <3>1. PICK s \in DOMAIN period, e \in Edges : a = Artifact(s, period[s], e, row) /\ InRange(row)
      BY Zenon, <1>9, <1>10, <2>2
    <3>2. PICK p : p = period[s]
      BY Zenon
    <3>3. /\ s \in Subs /\ row \in Known(SubOwner[s]) /\ InRange(row) /\ <<p.start, p.end>> \in Spans(s)
          /\ a = Artifact(s, p, e, row)
      BY Zenon, <1>7, <1>8, <3>1, <3>2
    <3>4. ArtifactOK(a) /\ \A b : ArtifactOK(b) /\ a.jti = b.jti => a.iat = b.iat
      BY <3>3, ArtifactMade
    <3> QED BY Zenon, <3>4
  <2> QED BY Zenon, <2>1, <2>2
<1>11. ArtifactInv'
  <2>1. \A a \in artifacts' : ArtifactOK(a)'
    BY Zenon, <1>1, <1>3, <1>4, <1>10, ArtifactStays
  <2>2. \A a, b \in artifacts' : a.jti = b.jti => a.iat = b.iat
    BY Zenon, <1>10 DEF CredInv, ArtifactInv
  <2> QED BY Zenon, <2>1, <2>2 DEF ArtifactInv
<1>12. PeriodOK(r)' /\ LimitOK(r)' /\ RootOK(r)'
  BY Zenon, <1>1, <1>2, IdleOK, Quiet, RootFree DEF PeriodOK, LimitOK
<1>13. RowInv' /\ AnswerInv'
  BY Zenon, <1>1, <1>3, RowsStay, AnswersStay
<1>14. SpanInv'
  BY Zenon, <1>1, <1>2, <1>4, <1>12, PeriodsStay DEF CredInv, SpanInv
<1>15. RootInv'
  BY Zenon, <1>1, <1>2, <1>3, <1>12, RootStays DEF CredInv, RootInv
<1>16. LimitInv'
  BY Zenon, <1>1, <1>2, <1>12, LimitsStay
<1> QED BY Zenon, <1>2, <1>11, <1>13, <1>14, <1>15, <1>16, IdleOK, RequestsStay DEF CredInv

----------------------------------------------------------------------------
(* The limiter *)

\* A transaction of the limiter: expired buckets go, at most one is counted or inserted.
LEMMA LimitsKept ==
    ASSUME CredInv, NEW u \in Users, NEW now \in 0..clock, NEW b, b = <<u, now>>,
           NEW gone, \A d \in gone : Expiry(d) <= clock,
           clock' = clock, buckets' \in [Rows' -> Nat], IsFiniteSet(Rows'),
           Rows' \subseteq (Rows \ gone) \cup {b}, Rows \ gone \subseteq Rows',
           \A d \in Rows \ gone : buckets'[d] >= buckets[d],
           slots' = Cardinality(Rows'), slots' <= MaxBuckets,
           \/ admitted' = admitted /\ (b \in Rows' => b \in Rows \ gone)
           \/ /\ admitted' = [admitted EXCEPT ![u][now] = @ + 1]
              /\ b \in Rows' /\ admitted[u][now] + 1 <= buckets'[b] /\ admitted[u][now] + 1 <= Limit,
           \A q \in Requests : LimitOK(q)'
    PROVE  LimitInv'
<1>1. /\ LimitInv /\ clock \in 0..MaxClock /\ MaxClock \in Nat
  BY Zenon, CredentialsAssumption DEF CredInv, RootInv
<1>2. b \in Users \X (0..MaxClock) /\ now \in 0..MaxClock
  BY SMTT(30), <1>1
<1>3. Rows' \subseteq Users \X (0..MaxClock)
  BY Zenon, <1>1, <1>2 DEF LimitInv
<1>4. admitted \in [Users -> [0..MaxClock -> Nat]]
  BY Zenon, <1>1 DEF LimitInv
<1>5. /\ admitted' \in [Users -> [0..MaxClock -> Nat]]
      /\ \A v \in Users, w \in 0..MaxClock :
            \/ admitted'[v][w] = admitted[v][w]
            \/ v = u /\ w = now /\ admitted'[v][w] = admitted[v][w] + 1
      /\ [admitted EXCEPT ![u][now] = @ + 1] # admitted
  <2>1. PICK W, h : W = 0..MaxClock /\ h = admitted[u]
    BY Zenon
  <2>2. h \in [W -> Nat] /\ now \in W /\ h[now] \in Nat
    BY Zenon, <1>2, <1>4, <2>1
  <2>3. PICK f : f = [h EXCEPT ![now] = @ + 1]
    BY Zenon
  <2>4. f \in [W -> Nat] /\ f[now] = h[now] + 1 /\ \A w \in W : w # now => f[w] = h[w]
    BY <2>2, <2>3
  <2>5. PICK g : g = [admitted EXCEPT ![u] = f]
    BY Zenon
  <2>6. g = [admitted EXCEPT ![u][now] = @ + 1]
    BY Zenon, <2>1, <2>3, <2>5
  <2>7. g \in [Users -> [W -> Nat]] /\ g[u] = f /\ \A v \in Users : v # u => g[v] = admitted[v]
    <3>1. PICK F : F = [W -> Nat]
      BY Zenon
    <3>2. admitted \in [Users -> F] /\ f \in F
      BY Zenon, <1>4, <2>1, <2>4, <3>1
    <3> QED BY Zenon, <2>5, <3>1, <3>2
  <2>8. g # admitted
    <3>1. g[u][now] = admitted[u][now] + 1 /\ admitted[u][now] \in Nat
      BY Zenon, <2>1, <2>2, <2>4, <2>7
    <3>2. g[u][now] # admitted[u][now]
      BY SMTT(30), <3>1
    <3> QED BY Zenon, <3>2
  <2>9. \A v \in Users, w \in W : \/ g[v][w] = admitted[v][w]
                                  \/ v = u /\ w = now /\ g[v][w] = admitted[v][w] + 1
    BY Zenon, <2>1, <2>4, <2>7
  <2>10. admitted' = admitted \/ admitted' = g
    BY Zenon, <2>6
  <2>11. CASE admitted' = admitted
    BY Zenon, <1>4, <2>6, <2>8, <2>11
  <2>12. CASE admitted' = g
    BY Zenon, <2>1, <2>6, <2>7, <2>8, <2>9, <2>12
  <2> QED BY Zenon, <2>10, <2>11, <2>12
<1>6. ASSUME NEW v \in Users, NEW w \in 0..MaxClock
      PROVE  admitted'[v][w] <= Limit /\ Counted(v, w)'
  <2>0. /\ admitted[v][w] \in Nat /\ admitted[v][w] <= Limit /\ Counted(v, w)
        /\ buckets \in [Rows -> Nat]
    BY Zenon, <1>1, <1>4 DEF LimitInv, LimitHolds
  <2>1. CASE v = u /\ w = now /\ admitted' = [admitted EXCEPT ![u][now] = @ + 1]
    <3>1. admitted'[v][w] = admitted[v][w] + 1
      BY Zenon, <1>2, <1>4, <2>1
    <3>2. admitted[u][now] + 1 # admitted[u][now]
      BY <2>0, <2>1
    <3>3. admitted' # admitted
      BY Zenon, <2>1, <3>1, <3>2
    <3>4. <<v, w>> = b
      BY Zenon, <2>1
    <3>5. b \in Rows' /\ admitted[v][w] + 1 <= buckets'[b] /\ admitted[v][w] + 1 <= Limit
      BY Zenon, <2>1, <3>3
    <3> QED BY Zenon, <3>1, <3>4, <3>5 DEF Counted
  <2>2. CASE ~(v = u /\ w = now /\ admitted' = [admitted EXCEPT ![u][now] = @ + 1])
    <3>1. admitted'[v][w] = admitted[v][w] /\ (<<v, w>> \in Rows' => <<v, w>> \in Rows \ gone)
      <4>1. CASE admitted' = admitted
        <5>1. b \in Rows' => b \in Rows \ gone
          BY Zenon, <1>5, <4>1
        <5> QED BY Zenon, <4>1, <5>1
      <4>2. CASE admitted' = [admitted EXCEPT ![u][now] = @ + 1]
        <5>1. ~(v = u /\ w = now)
          BY Zenon, <2>2, <4>2
        <5>2. <<v, w>> # b
          BY Zenon, <5>1
        <5> QED BY Zenon, <1>2, <1>4, <4>2, <5>1, <5>2
      <4> QED BY Zenon, <4>1, <4>2
    <3>2. PICK d : d = <<v, w>>
      BY Zenon
    <3>3. d \in gone => w + 1 + Retention <= clock
      BY Zenon, <3>2 DEF Expiry
    <3>4. d \in Rows' => d \in Rows /\ buckets'[d] >= buckets[d] /\ buckets[d] \in Nat /\ buckets'[d] \in Nat
      BY Zenon, <2>0, <3>1, <3>2
    <3>5. d \notin Rows' => d \notin Rows \/ d \in gone
      BY Zenon 
    <3>6. d \in Rows' => admitted'[v][w] <= buckets'[d]
      BY SMTT(30), <2>0, <3>1, <3>2, <3>4 DEF Counted
    <3>7. d \notin Rows' => admitted'[v][w] = 0 \/ w + 1 + Retention <= clock'
      BY Zenon, <2>0, <3>1, <3>2, <3>3, <3>5 DEF Counted
    <3> QED BY Zenon, <2>0, <3>1, <3>2, <3>6, <3>7 DEF Counted
  <2> QED BY Zenon, <2>1, <2>2
<1> QED BY Zenon, <1>3, <1>5, <1>6 DEF LimitInv, SlotsExact, LimitHolds

\* What the limiter knows of a request that is in it: its account and window,
\* whose bucket no cleanup of its own removes.
LEMMA InWindow ==
    ASSUME CredInv, NEW r \in Requests, req[r].pc \in {"limit", "slot"}
    PROVE  /\ req[r].c \in Clients /\ User(r) \in Users /\ req[r].now \in 0..clock
           /\ req[r].now \in Nat /\ clock \in Nat /\ req[r].now \in 0..MaxClock
           /\ Bucket(r) = <<User(r), req[r].now>>
           /\ Expiry(Bucket(r)) > req[r].now /\ Expiry(Bucket(r)) > clock
<1>1. RequestOK(req[r]) /\ LimitOK(r) /\ clock \in 0..MaxClock
  BY Zenon DEF CredInv, LimitInv, RootInv
<1>2. req[r].c \in Clients /\ User(r) \in Users
  BY Zenon, <1>1, CredentialsAssumption DEF RequestOK, User
<1>3. req[r].now \in 0..clock /\ clock <= req[r].now + Retention
  BY Zenon, <1>1 DEF LimitOK
<1> QED BY <1>1, <1>2, <1>3, CredentialsAssumption DEF Bucket, Expiry

\* Removing buckets leaves as many slots as buckets.
LEMMA FreedExact ==
    ASSUME CredInv, NEW gone, gone \subseteq Rows
    PROVE  /\ Freed(gone) = Cardinality(Rows \ gone) /\ Freed(gone) <= MaxBuckets
           /\ Freed(gone) \in Nat /\ IsFiniteSet(Rows \ gone)
           /\ Without(gone) \in [Rows \ gone -> Nat] /\ DOMAIN Without(gone) = Rows \ gone
           /\ \A d \in Rows \ gone : Without(gone)[d] = buckets[d]
<1>1. /\ IsFiniteSet(Rows) /\ slots = Cardinality(Rows) /\ slots <= MaxBuckets
      /\ buckets \in [Rows -> Nat] /\ MaxBuckets \in Nat
  BY Zenon, CredentialsAssumption DEF CredInv, LimitInv, SlotsExact
<1>2. /\ IsFiniteSet(gone) /\ Cardinality(gone) <= Cardinality(Rows)
  BY Zenon, <1>1, FS_Subset
<1>3. Cardinality(Rows) \in Nat /\ Cardinality(gone) \in Nat
  BY Zenon, <1>1, <1>2, FS_CardinalityType
<1>4. /\ IsFiniteSet(Rows \ gone)
      /\ Cardinality(Rows \ gone) = Cardinality(Rows) - Cardinality(Rows \cap gone)
  BY Zenon, <1>1, FS_Difference
<1>5. Rows \cap gone = gone
  BY Zenon
<1>6. Freed(gone) = Cardinality(Rows) - Cardinality(gone)
  BY Zenon, <1>1, <1>2, <1>3 DEF Freed
<1>7. /\ Without(gone) \in [Rows \ gone -> Nat] /\ DOMAIN Without(gone) = Rows \ gone
      /\ \A d \in Rows \ gone : Without(gone)[d] = buckets[d]
  BY Zenon, <1>1 DEF Without
<1>8. Freed(gone) \in Nat /\ Freed(gone) <= MaxBuckets
  BY <1>1, <1>2, <1>3, <1>6
<1> QED BY Zenon, <1>4, <1>5, <1>6, <1>7, <1>8

\* A request that leaves the limiter, or waits in it for its slot.
LEMMA LimiterStep ==
    ASSUME CredInv, NEW r \in Requests, req[r].pc \in {"limit", "slot"}, LimitInv', Moves(r),
           \/ req'[r] = Idle
           \/ /\ DOMAIN req'[r] = Fields /\ req'[r].pc \in {"slot", "load"}
              /\ req'[r].c = req[r].c /\ req'[r].row = req[r].row /\ req'[r].gen = req[r].gen
              /\ req'[r].p = req[r].p,
           UNCHANGED <<caKey, caCert, cache, flock, serial, cred, sub, answers, artifacts, clock>>
    PROVE  CredInv'
<1>1. RequestOK(req[r])
  BY Zenon DEF CredInv
<1>2. RequestOK(req'[r]) /\ req'[r].pc \in {"idle", "slot", "load"}
  BY Zenon, <1>1, IdleOK DEF RequestOK, Way, Signs
<1>3. Inherits(r)
  BY Zenon, IdleOK DEF Inherits
<1>4. \A u \in Users : Known(u)' \subseteq Known(u)
  BY Zenon, <1>3, KnownStays
<1>5. RootInv'
  BY Zenon, <1>2, <1>4, RootFree, RootStays DEF CredInv, RootInv
<1>6. AnswerInv'
  BY Zenon, <1>4, AnswersStay
<1>7. PeriodOK(r)'
  BY Zenon, <1>2 DEF PeriodOK
<1> QED BY Zenon, <1>2, <1>3, <1>5, <1>6, <1>7, CountKeeps

\* Admitting a request.
LEMMA AdmitShape ==
    ASSUME CredInv, NEW r \in Requests, NEW n, Admit(r, n)
    PROVE  /\ Moves(r)
           /\ \/ n > Limit /\ req'[r] = Idle /\ admitted' = admitted
              \/ /\ ~(n > Limit) /\ admitted' = [admitted EXCEPT ![User(r)][req[r].now] = @ + 1]
                 /\ DOMAIN req'[r] = Fields /\ req'[r].pc = "load" /\ req'[r].stale = {}
                 /\ req'[r].c = req[r].c /\ req'[r].row = req[r].row /\ req'[r].gen = req[r].gen
                 /\ req'[r].p = req[r].p /\ req'[r].now = req[r].now
<1>1. CASE n > Limit
  BY Zenon, <1>1, Quiet DEF Admit, Ends, Moves
<1>2. CASE ~(n > Limit)
  BY SMTT(30), <1>2, Quiet DEF Admit, Moves, Fields
<1> QED BY Zenon, <1>1, <1>2

\* A request that is out of the limiter.
LEMMA OutOfLimiter ==
    ASSUME CredInv, NEW r \in Requests, clock' = clock,
           \/ req'[r] = Idle
           \/ req'[r].pc = "load" /\ req'[r].stale = {} /\ req'[r].now = req[r].now
    PROVE  LimitOK(r)'
  BY Zenon, Quiet, IdleOK DEF LimitOK

\* Counting a request in the bucket of its window.
LEMMA CountedInBucket ==
    ASSUME CredInv, NEW r \in Requests, req[r].pc \in {"limit", "slot"},
           NEW gone, gone \subseteq Rows, \A d \in gone : Expiry(d) <= req[r].now,
           Bucket(r) \in Rows \ gone,
           buckets' = [Without(gone) EXCEPT ![Bucket(r)] = @ + 1], slots' = Freed(gone),
           Admit(r, buckets[Bucket(r)] + 1), clock' = clock,
           \A q \in Requests : q # r => LimitOK(q)'
    PROVE  LimitInv'
<1>1. PICK b, u, now : b = Bucket(r) /\ u = User(r) /\ now = req[r].now
  BY Zenon
<1>2. u \in Users /\ now \in 0..clock /\ b = <<u, now>> /\ now \in 0..MaxClock /\ now \in Nat /\ clock \in Nat
  BY Zenon, <1>1, InWindow
<1>3. /\ Without(gone) \in [Rows \ gone -> Nat] /\ DOMAIN Without(gone) = Rows \ gone
      /\ \A d \in Rows \ gone : Without(gone)[d] = buckets[d]
      /\ Freed(gone) = Cardinality(Rows \ gone) /\ Freed(gone) <= MaxBuckets /\ IsFiniteSet(Rows \ gone)
  BY Zenon, FreedExact
<1>4. buckets \in [Rows -> Nat] /\ admitted \in [Users -> [0..MaxClock -> Nat]] /\ Counted(u, now) /\ Limit \in Nat
  BY Zenon, <1>2, CredentialsAssumption DEF CredInv, LimitInv
<1>5. PICK f : f = Without(gone)
  BY Zenon
<1>6. buckets' = [f EXCEPT ![b] = @ + 1] /\ b \in Rows \ gone
  BY Zenon, <1>1, <1>5
<1>7. /\ buckets' \in [Rows \ gone -> Nat] /\ DOMAIN buckets' = Rows \ gone
      /\ buckets'[b] = buckets[b] + 1 /\ \A d \in Rows \ gone : d # b => buckets'[d] = buckets[d]
  BY <1>3, <1>5, <1>6
<1>8. Rows' = Rows \ gone
  BY Zenon, <1>7 DEF Rows
<1>9. \A d \in Rows \ gone : buckets'[d] >= buckets[d]
  BY <1>4, <1>7
<1>10. admitted[u][now] \in Nat /\ admitted[u][now] <= buckets[b] /\ buckets[b] \in Nat
  <2>1. b \in Rows /\ buckets[b] \in Nat
    BY Zenon, <1>4, <1>6
  <2>2. admitted[u][now] \in Nat
    BY Zenon, <1>2, <1>4
  <2>3. admitted[u][now] <= buckets[b]
    BY Zenon, <1>2, <1>4, <2>1 DEF Counted
  <2> QED BY Zenon, <2>1, <2>2, <2>3
<1>11. \/ admitted' = admitted /\ (b \in Rows' => b \in Rows \ gone)
       \/ /\ admitted' = [admitted EXCEPT ![u][now] = @ + 1]
          /\ b \in Rows' /\ admitted[u][now] + 1 <= buckets'[b] /\ admitted[u][now] + 1 <= Limit
  <2>1. CASE buckets[b] + 1 > Limit /\ admitted' = admitted
    BY Zenon, <1>6, <2>1
  <2>2. CASE ~(buckets[b] + 1 > Limit) /\ admitted' = [admitted EXCEPT ![u][now] = @ + 1]
    BY <1>4, <1>6, <1>7, <1>8, <1>10, <2>2
  <2> QED BY Zenon, <1>1, <2>1, <2>2, AdmitShape
<1>12. \A q \in Requests : LimitOK(q)'
  BY Zenon, AdmitShape, OutOfLimiter
<1>13. \A d \in gone : Expiry(d) <= clock
  <2>1. \A d \in gone : Expiry(d) \in Int
    <3>1. Rows \subseteq Users \X (0..MaxClock) /\ MaxClock \in Nat /\ Retention \in Nat
      BY Zenon, CredentialsAssumption DEF CredInv, LimitInv
    <3>2. \A d \in Rows : d[2] \in 0..MaxClock
      BY Zenon, <3>1
    <3> QED BY <3>1, <3>2 DEF Expiry
  <2> QED BY <1>1, <1>2, <2>1
<1> QED BY ZenonT(30), <1>2, <1>3, <1>7, <1>8, <1>9, <1>11, <1>12, <1>13, LimitsKept

\* The first half of the limiter.
LEMMA EnforceRateLimitKeeps ==
    ASSUME CredInv, NEW r \in Requests, EnforceRateLimit(r)
    PROVE  CredInv'
<1>1. /\ req[r].pc = "limit" /\ LimitOK(r)
      /\ UNCHANGED <<caKey, caCert, cache, flock, serial, cred, sub, answers, artifacts, clock>>
  BY Zenon DEF EnforceRateLimit, At, CredInv, LimitInv, caVars, credVars, subVars, outVars
<1>3. PICK gone \in (IF nextCleanup <= req[r].now THEN StaleIds(req[r].now) ELSE {{}}) :
        /\ nextCleanup <= req[r].now => mlock = None
        /\ IF Bucket(r) \in Rows \ gone
           THEN /\ buckets' = [Without(gone) EXCEPT ![Bucket(r)] = @ + 1]
                /\ slots' = Freed(gone)
                /\ Admit(r, buckets[Bucket(r)] + 1)
                /\ UNCHANGED mlock
           ELSE /\ mlock' = IF nextCleanup <= req[r].now THEN r ELSE mlock
                /\ req' = [req EXCEPT ![r].pc = "slot", ![r].stale = gone]
                /\ UNCHANGED <<buckets, slots, nextCleanup, admitted>>
  BY Zenon DEF EnforceRateLimit
<1>4. gone \subseteq Rows /\ (\A d \in gone : Expiry(d) <= req[r].now) /\ (gone # {} => nextCleanup <= req[r].now)
  BY Zenon, <1>3 DEF StaleIds
<1>5. \A q \in Requests : LimitOK(q) /\ q # None
  BY Zenon, CredentialsAssumption DEF CredInv, LimitInv
<1>6. CASE Bucket(r) \in Rows \ gone
  <2>1. Admit(r, buckets[Bucket(r)] + 1) /\ mlock' = mlock
        /\ buckets' = [Without(gone) EXCEPT ![Bucket(r)] = @ + 1] /\ slots' = Freed(gone)
    BY Zenon, <1>3, <1>6
  <2>2. DOMAIN Without(gone) = Rows \ gone
    BY Zenon DEF Without
  <2>3. Rows' = Rows \ gone
    BY Zenon, <2>1, <2>2 DEF Rows
  <2>4. Moves(r)
    BY Zenon, <2>1, AdmitShape
  <2>5. ASSUME NEW q \in Requests, q # r
        PROVE  LimitOK(q)'
    <3>1. req'[q] = req[q] /\ LimitOK(q)
      BY Zenon, <1>5, <2>4, <2>5 DEF Moves
    <3>2. req[q].stale # {} => gone = {}
      BY Zenon, <1>3, <1>4, <1>5, <3>1 DEF LimitOK
    <3> QED BY Zenon, <1>1, <2>1, <2>3, <3>1, <3>2 DEF LimitOK, Expiry
  <2>6. LimitInv'
    BY Zenon, <1>1, <1>4, <1>6, <2>1, <2>5, CountedInBucket
  <2> QED BY Zenon, <1>1, <2>1, <2>4, <2>6, AdmitShape, LimiterStep
<1>7. CASE Bucket(r) \notin Rows \ gone
  <2>1. /\ Moves(r) /\ DOMAIN req'[r] = Fields /\ req'[r].pc = "slot" /\ req'[r].stale = gone
        /\ req'[r].c = req[r].c /\ req'[r].row = req[r].row /\ req'[r].gen = req[r].gen
        /\ req'[r].p = req[r].p /\ req'[r].now = req[r].now
        /\ mlock' = IF nextCleanup <= req[r].now THEN r ELSE mlock
        /\ UNCHANGED <<buckets, slots, admitted>>
    BY <1>3, <1>7, Quiet DEF Moves, Fields
  <2>2. Rows' = Rows
    BY Zenon, <2>1 DEF Rows
  <2>3. LimitOK(r)'
    BY Zenon, <1>1, <1>4, <2>1, <2>2 DEF LimitOK, Expiry
  <2>4. ASSUME NEW q \in Requests, q # r
        PROVE  LimitOK(q)'
    <3>1. req'[q] = req[q] /\ LimitOK(q)
      BY Zenon, <1>5, <2>1, <2>4 DEF Moves
    <3>2. req[q].stale # {} => mlock' = mlock
      BY Zenon, <1>3, <1>5, <2>1, <3>1 DEF LimitOK
    <3> QED BY Zenon, <1>1, <2>2, <3>1, <3>2 DEF LimitOK, Expiry
  <2>5. LimitInv'
    <3>1. \A u \in Users, w \in 0..MaxClock : Counted(u, w)'
      BY Zenon, <1>1, <2>1, <2>2 DEF CredInv, LimitInv, Counted
    <3> QED BY Zenon, <2>1, <2>2, <2>3, <2>4, <3>1 DEF CredInv, LimitInv, SlotsExact, LimitHolds
  <2> QED BY Zenon, <1>1, <2>1, <2>5, LimiterStep
<1> QED BY Zenon, <1>6, <1>7

\* The second half: a slot for a bucket that is new, or lost to another insert.
LEMMA ReserveBucketSlotKeeps ==
    ASSUME CredInv, NEW r \in Requests, ReserveBucketSlot(r)
    PROVE  CredInv'
<1>1. /\ req[r].pc = "slot" /\ LimitOK(r) /\ mlock \in {None, r} /\ mlock' = None
      /\ UNCHANGED <<caKey, caCert, cache, flock, serial, cred, sub, answers, artifacts, clock>>
  BY Zenon DEF ReserveBucketSlot, At, CredInv, LimitInv, caVars, credVars, subVars, outVars
<1>2. PICK gone, b, u, now : gone = req[r].stale /\ b = Bucket(r) /\ u = User(r) /\ now = req[r].now
  BY Zenon
<1>3. gone \subseteq Rows /\ \A d \in gone : Expiry(d) <= now
  BY Zenon, <1>1, <1>2 DEF LimitOK
<1>4. /\ u \in Users /\ now \in 0..clock /\ b = <<u, now>> /\ now \in 0..MaxClock
      /\ now \in Nat /\ clock \in Nat /\ Expiry(b) > now /\ Expiry(b) > clock
  BY Zenon, <1>1, <1>2, InWindow
<1>5. \A q \in Requests : q # r => req[q].stale = {}
  BY Zenon, <1>1, CredentialsAssumption DEF CredInv, LimitInv, LimitOK
<1>6. Moves(r) => \A q \in Requests : q # r => LimitOK(q)'
  BY Zenon, <1>1, <1>5 DEF CredInv, LimitInv, LimitOK, Moves
<1>7. PICK rows : rows = Without(gone)
  BY Zenon
<1>8. /\ rows \in [Rows \ gone -> Nat] /\ DOMAIN rows = Rows \ gone
      /\ \A d \in Rows \ gone : rows[d] = buckets[d]
      /\ Freed(gone) = Cardinality(Rows \ gone) /\ Freed(gone) <= MaxBuckets /\ Freed(gone) \in Nat
      /\ IsFiniteSet(Rows \ gone) /\ buckets \in [Rows -> Nat] /\ MaxBuckets \in Nat
  BY Zenon, <1>3, <1>7, FreedExact, CredentialsAssumption DEF CredInv, LimitInv
<1>9. \A d \in gone : Expiry(d) <= clock
  <2>1. Rows \subseteq Users \X (0..MaxClock) /\ MaxClock \in Nat /\ Retention \in Nat
    BY Zenon, CredentialsAssumption DEF CredInv, LimitInv
  <2>2. \A d \in Rows : d[2] \in 0..MaxClock
    BY Zenon, <2>1
  <2>3. \A d \in gone : Expiry(d) \in Int
    BY <1>3, <2>1, <2>2 DEF Expiry
  <2> QED BY <1>3, <1>4, <2>3
<1>10. b \notin gone
  <2>1. Expiry(b) \in Int
    BY <1>4, CredentialsAssumption DEF Expiry
  <2> QED BY SMTT(30), <1>3, <1>4, <2>1
<1>11. CASE Freed(gone) >= MaxBuckets
  <2>1. buckets' = rows /\ slots' = Freed(gone) /\ Ends(r) /\ admitted' = admitted
    BY Zenon, <1>2, <1>7, <1>11 DEF ReserveBucketSlot
  <2>2. Moves(r) /\ req'[r] = Idle
    BY Zenon, <2>1, Quiet DEF Ends, Moves
  <2>3. Rows' = Rows \ gone
    BY Zenon, <1>8, <2>1 DEF Rows
  <2>4. \A d \in Rows \ gone : buckets'[d] >= buckets[d]
    BY SMTT(30), <1>8, <2>1
  <2>5. \A q \in Requests : LimitOK(q)'
    BY Zenon, <1>1, <1>6, <2>2, OutOfLimiter
  <2>6. LimitInv'
    BY ZenonT(30), <1>1, <1>4, <1>8, <1>9, <2>1, <2>3, <2>4, <2>5, LimitsKept
  <2> QED BY Zenon, <1>1, <2>2, <2>6, LimiterStep
<1>12. CASE ~(Freed(gone) >= MaxBuckets) /\ b \in Rows \ gone
  <2>1. buckets' = [rows EXCEPT ![b] = @ + 1] /\ slots' = Freed(gone) /\ Admit(r, rows[b] + 1)
    BY Zenon, <1>2, <1>7, <1>8, <1>12 DEF ReserveBucketSlot, Conflicting
  <2>2. Admit(r, buckets[b] + 1)
    BY Zenon, <1>8, <1>12, <2>1
  <2>3. LimitInv'
    BY ZenonT(30), <1>1, <1>2, <1>3, <1>6, <1>7, <1>12, <2>1, <2>2, AdmitShape, CountedInBucket
  <2> QED BY Zenon, <1>1, <2>2, <2>3, AdmitShape, LimiterStep
<1>13. CASE ~(Freed(gone) >= MaxBuckets) /\ b \notin Rows \ gone
  <2>1. buckets' = Inserted(rows, b) /\ slots' = Freed(gone) + 1 /\ Admit(r, 1)
    BY ZenonT(30), <1>2, <1>7, <1>8, <1>13 DEF ReserveBucketSlot
  <2>2. Moves(r) /\ admitted' = [admitted EXCEPT ![u][now] = @ + 1]
    BY <1>2, <2>1, AdmitShape, CredentialsAssumption
  <2>3. DOMAIN buckets' = (Rows \ gone) \cup {b}
    BY Zenon, <1>8, <2>1 DEF Inserted
  <2>4. /\ buckets' \in [(Rows \ gone) \cup {b} -> Nat] /\ buckets'[b] = 1
        /\ \A d \in Rows \ gone : buckets'[d] = buckets[d]
    BY Zenon, <1>8, <1>13, <2>1 DEF Inserted
  <2>5. Rows' = (Rows \ gone) \cup {b} /\ b \notin Rows
    BY Zenon, <1>10, <1>13, <2>3 DEF Rows
  <2>6. IsFiniteSet(Rows') /\ Cardinality(Rows') = Cardinality(Rows \ gone) + 1
    BY ZenonT(30), <1>8, <1>13, <2>5, FS_AddElement
  <2>7. slots' = Cardinality(Rows') /\ slots' <= MaxBuckets
    BY <1>8, <1>13, <2>1, <2>6
  <2>8. admitted[u][now] = 0
    <3>1. Counted(u, now)
      BY Zenon, <1>4 DEF CredInv, LimitInv
    <3>2. now + 1 + Retention > clock
      BY Zenon, <1>4 DEF Expiry
    <3>3. ~(now + 1 + Retention <= clock)
      BY <1>4, <3>2, CredentialsAssumption
    <3> QED BY Zenon, <1>4, <2>5, <3>1, <3>3 DEF Counted
  <2>9. admitted[u][now] + 1 <= buckets'[b] /\ admitted[u][now] + 1 <= Limit /\ b \in Rows'
    BY <2>4, <2>5, <2>8, CredentialsAssumption
  <2>10. \A d \in Rows \ gone : buckets'[d] >= buckets[d]
    BY <1>8, <2>4
  <2>11. \A q \in Requests : LimitOK(q)'
    BY Zenon, <1>1, <1>6, <2>1, <2>2, AdmitShape, OutOfLimiter
  <2>12. LimitInv'
    BY ZenonT(30), <1>1, <1>4, <1>9, <2>2, <2>4, <2>5, <2>6, <2>7, <2>9, <2>10, <2>11, LimitsKept
  <2> QED BY Zenon, <1>1, <2>1, <2>12, AdmitShape, LimiterStep
<1> QED BY Zenon, <1>11, <1>12, <1>13

----------------------------------------------------------------------------
(* Arrivals, time, renewals and deaths *)

\* A request that starts has read nothing.
LEMMA StartKeeps ==
    ASSUME CredInv, NEW r \in Requests, NEW p \in Procs, NEW kind, NEW st, Start(r, p, kind, st),
           DOMAIN st = Fields, st.row = None, st.stale = {}, st.pc \in {"limit", "root", "config"},
           st.pc = "root" => st.to = "sign" /\ st.op # "enroll",
           st.pc # "root" => st.c \in Clients, st.pc = "limit" => st.gen \in Nat \ {0}
    PROVE  CredInv'
<1>1. UNCHANGED <<caKey, caCert, cache, flock, serial, cred, sub, answers, artifacts, buckets, slots,
                  admitted, mlock, clock>>
  BY Zenon DEF Start, caVars, limitVars, credVars, subVars, outVars
<1>2. /\ Moves(r) /\ DOMAIN req'[r] = Fields /\ req'[r].pc = st.pc /\ req'[r].to = st.to
      /\ req'[r].op = st.op /\ req'[r].c = st.c /\ req'[r].gen = st.gen /\ req'[r].row = st.row
      /\ req'[r].stale = st.stale /\ req'[r].p = p /\ req'[r].now = clock
  BY Zenon, Quiet DEF Start, Moves, Fields
<1>3. RequestOK(req'[r])
  BY Zenon, <1>2 DEF RequestOK, Way, Signs
<1>4. Inherits(r)
  BY Zenon, <1>2 DEF Inherits
<1>5. \A u \in Users : Known(u)' \subseteq Known(u)
  BY Zenon, <1>1, <1>2, <1>4, KnownStays
<1>6. RootInv'
  BY ZenonT(30), <1>1, <1>2, <1>5, RootFree, RootStays DEF CredInv, RootInv
<1>7. AnswerInv'
  BY ZenonT(30), <1>1, <1>5, AnswersStay
<1>8. LimitOK(r)'
  BY <1>1, <1>2, Quiet, CredentialsAssumption DEF LimitOK
<1>9. PeriodOK(r)'
  BY Zenon, <1>2 DEF PeriodOK
<1> QED BY ZenonT(30), <1>1, <1>2, <1>3, <1>4, <1>6, <1>7, <1>8, <1>9, StepKeeps

\* Every way to start.
LEMMA ArriveKeeps ==
    ASSUME CredInv, NEW r \in Requests, NEW p \in Procs, Arrive(r, p)
    PROVE  CredInv'
<1>1. ASSUME NEW c \in Clients, NEW g \in 1..MaxGen, ClientCertificate(r, p, c, g)
      PROVE  CredInv'
  <2>1. PICK st : st = [Idle EXCEPT !.pc = "limit", !.op = "enroll", !.c = c, !.gen = g]
    BY Zenon
  <2>2. DOMAIN st = Fields /\ st.row = None /\ st.stale = {} /\ st.pc = "limit" /\ st.c = c /\ st.gen = g
    BY Zenon, <2>1 DEF Idle, Fields
  <2>3. Start(r, p, "enroll", st) /\ g \in Nat \ {0}
    BY <1>1, <2>1, CredentialsAssumption DEF ClientCertificate
  <2> QED BY Zenon, <2>2, <2>3, StartKeeps
<1>2. ASSUME NEW c \in Clients, ClientCert(r, p, c)
      PROVE  CredInv'
  <2>1. PICK st : st = [Idle EXCEPT !.pc = "root", !.to = "sign", !.op = "legacy", !.c = c]
    BY Zenon
  <2>2. DOMAIN st = Fields /\ st.row = None /\ st.stale = {} /\ st.pc = "root" /\ st.to = "sign" /\ st.op # "enroll"
    BY Zenon, <2>1 DEF Idle, Fields
  <2>3. Start(r, p, "issue", st)
    BY Zenon, <1>2, <2>1 DEF ClientCert
  <2> QED BY Zenon, <2>2, <2>3, StartKeeps
<1>3. ASSUME RelayCert(r, p)
      PROVE  CredInv'
  <2>1. PICK st : st = [Idle EXCEPT !.pc = "root", !.to = "sign", !.op = "relay"]
    BY Zenon
  <2>2. DOMAIN st = Fields /\ st.row = None /\ st.stale = {} /\ st.pc = "root" /\ st.to = "sign" /\ st.op # "enroll"
    BY Zenon, <2>1 DEF Idle, Fields
  <2>3. Start(r, p, "issue", st)
    BY Zenon, <1>3, <2>1 DEF RelayCert
  <2> QED BY Zenon, <2>2, <2>3, StartKeeps
<1>4. ASSUME NEW c \in Clients, NEW op,
             Start(r, p, "config", [Idle EXCEPT !.pc = "config", !.op = op, !.c = c])
      PROVE  CredInv'
  <2>1. PICK st : st = [Idle EXCEPT !.pc = "config", !.op = op, !.c = c]
    BY Zenon
  <2>2. DOMAIN st = Fields /\ st.row = None /\ st.stale = {} /\ st.pc = "config" /\ st.c = c
    BY Zenon, <2>1 DEF Idle, Fields
  <2>3. Start(r, p, "config", st)
    BY Zenon, <1>4, <2>1
  <2> QED BY Zenon, <2>2, <2>3, StartKeeps
<1> QED BY Zenon, <1>1, <1>2, <1>3, <1>4 DEF Arrive, OfflineClientConfigV2, OfflineClientConfigV3

\* A renewal ends later than every period known before.
LEMMA RenewKeeps ==
    ASSUME CredInv, NEW s \in Subs, Renew(s)
    PROVE  CredInv'
<1>1. UNCHANGED <<caKey, caCert, cache, flock, serial, cred, req, answers, artifacts, buckets, slots,
                  admitted, mlock, clock>>
  BY ZenonT(30) DEF Renew, caVars, limitVars, credVars, outVars
<1>2. Period \in Nat \ {0} /\ clock \in Nat /\ sub \in [Subs -> [start : Nat, end : Nat, active : BOOLEAN]]
  BY CredentialsAssumption DEF CredInv, RootInv, SpanInv
<1>3. PICK new : new = [start |-> clock, active |-> TRUE,
                        end |-> (IF sub[s].end > clock THEN sub[s].end ELSE clock) + Period]
  BY Zenon
<1>4. /\ new \in [start : Nat, end : Nat, active : BOOLEAN] /\ new.end > sub[s].end
      /\ sub[s].end \in Nat /\ new.end \in Nat
  BY <1>2, <1>3
<1>5. sub' = [sub EXCEPT ![s] = new]
  BY Zenon, <1>3 DEF Renew
<1>6. /\ sub' \in [Subs -> [start : Nat, end : Nat, active : BOOLEAN]]
      /\ sub'[s] = new /\ \A t \in Subs : t # s => sub'[t] = sub[t]
  BY Zenon, <1>2, <1>4, <1>5
<1>7. \A t \in Subs : \A x \in Spans(t)' : x \in Spans(t) \/ (t = s /\ x = <<new.start, new.end>>)
  BY Zenon, <1>1, <1>6 DEF Spans, Holders
<1>8. \A t \in Subs : sub[t].end \in Nat /\ sub'[t].end \in Nat /\ sub'[t].end >= sub[t].end
  BY <1>2, <1>4, <1>6
<1>9. \A u \in Users : Known(u)' = Known(u)
  BY Zenon, <1>1 DEF Known, Readers
<1>10. SpanInv'
  <2>1. ASSUME NEW t \in Subs, NEW x \in Spans(t)'
        PROVE  x[2] \in Nat /\ x[2] <= sub'[t].end /\ (x \in Spans(t) => x[2] <= sub[t].end)
    <3>1. CASE x \in Spans(t)
      <4>1. x[2] \in Nat /\ x[2] <= sub[t].end
        BY Zenon, <3>1 DEF CredInv, SpanInv
      <4> QED BY SMTT(30), <1>8, <4>1
    <3>2. CASE x \notin Spans(t)
      BY <1>4, <1>6, <1>7, <2>1, <3>2
    <3> QED BY Zenon, <3>1, <3>2
  <2>2. ASSUME NEW t \in Subs, NEW x \in Spans(t)', NEW y \in Spans(t)', x[2] = y[2]
        PROVE  x[1] = y[1]
    <3>1. CASE x \in Spans(t) /\ y \in Spans(t)
      BY Zenon, <2>2, <3>1 DEF CredInv, SpanInv
    <3>2. CASE x \in Spans(t) /\ y \notin Spans(t)
      BY SMTT(30), <1>4, <1>7, <2>1, <2>2, <3>2
    <3>3. CASE x \notin Spans(t) /\ y \in Spans(t)
      BY <1>4, <1>7, <2>1, <2>2, <3>3
    <3>4. CASE x \notin Spans(t) /\ y \notin Spans(t)
      BY Zenon, <1>7, <2>2, <3>4
    <3> QED BY Zenon, <3>1, <3>2, <3>3, <3>4
  <2>3. \A q \in Requests : PeriodOK(q)'
    BY Zenon, <1>1 DEF CredInv, SpanInv, PeriodOK
  <2> QED BY Zenon, <1>6, <2>1, <2>2, <2>3 DEF SpanInv
<1>11. ArtifactInv'
  <2>1. ASSUME NEW a \in artifacts
        PROVE  ArtifactOK(a)'
    <3>1. ArtifactOK(a)
      BY Zenon DEF CredInv, ArtifactInv
    <3>2. PICK t, u, paid : t = a.claim.sub /\ u = SubOwner[t] /\ paid = a.claim.paid
      BY Zenon
    <3>3. t \in Subs /\ u \in Users /\ paid \in Nat /\ paid <= sub[t].end
      BY Zenon, <3>1, <3>2, CredentialsAssumption DEF ArtifactOK
    <3>4. paid <= sub'[t].end
      BY <1>8, <3>3
    <3>5. \A y \in Spans(t)' : y[2] = paid => y \in Spans(t)
      BY <1>4, <1>7, <3>3
    <3> QED BY ZenonT(30), <1>1, <1>9, <3>1, <3>2, <3>3, <3>4, <3>5 DEF ArtifactOK
  <2> QED BY Zenon, <1>1, <2>1 DEF CredInv, ArtifactInv
<1>12. RowInv' /\ AnswerInv'
  BY Zenon, <1>1, <1>9, RowsStay, AnswersStay
<1>13. RootInv'
  BY Zenon, <1>1, <1>9 DEF CredInv, RootInv, OneRoot, RootOK
<1>14. LimitInv'
  BY Zenon, <1>1 DEF CredInv, LimitInv, SlotsExact, LimitHolds, Counted, LimitOK, Rows, Expiry
<1> QED BY Zenon, <1>1, <1>10, <1>11, <1>12, <1>13, <1>14 DEF CredInv

\* Time only lets windows expire.
LEMMA TickKeeps ==
    ASSUME CredInv, Tick
    PROVE  CredInv'
<1>1. UNCHANGED <<caKey, caCert, cache, flock, serial, cred, sub, req, answers, artifacts, buckets, slots,
                  admitted, mlock>>
  BY Zenon DEF Tick, caVars, limitVars, credVars, subVars, outVars
<1>2. clock \in 0..MaxClock /\ clock' = clock + 1 /\ clock' \in 0..MaxClock /\ Retention \in Nat /\ MaxClock \in Nat
  BY CredentialsAssumption DEF CredInv, RootInv, Tick
<1>3. \A u \in Users : Known(u)' = Known(u)
  BY Zenon, <1>1 DEF Known, Readers
<1>4. \A s \in Subs : Spans(s)' = Spans(s)
  BY Zenon, <1>1 DEF Spans, Holders
<1>5. RowInv' /\ AnswerInv' /\ ArtifactInv'
  BY ZenonT(30), <1>1, <1>3, <1>4, RowsStay, AnswersStay, ArtifactsStay
<1>6. SpanInv'
  BY <1>1, <1>4 DEF CredInv, SpanInv, PeriodOK
<1>7. RootInv'
  BY Zenon, <1>1, <1>2, <1>3 DEF CredInv, RootInv, OneRoot, RootOK
<1>8. ASSUME NEW q \in Requests
      PROVE  LimitOK(q)'
  <2>1. LimitOK(q) /\ (req[q].pc \in {"limit", "slot"} => clock < req[q].now + Retention)
    BY Zenon DEF CredInv, LimitInv, Tick
  <2>2. req[q].now \in 0..clock' /\ (req[q].pc \in {"limit", "slot"} => clock' <= req[q].now + Retention)
    BY <1>2, <2>1 DEF LimitOK
  <2> QED BY Zenon, <1>1, <2>1, <2>2 DEF LimitOK, Rows, Expiry
<1>9. ASSUME NEW u \in Users, NEW w \in 0..MaxClock
      PROVE  Counted(u, w)'
  <2>1. Counted(u, w)
    BY Zenon DEF CredInv, LimitInv
  <2>2. w + 1 + Retention <= clock => w + 1 + Retention <= clock'
    BY SMTT(30), <1>2
  <2> QED BY Zenon, <1>1, <2>1, <2>2 DEF Counted, Rows
<1>10. LimitInv'
  BY Zenon, <1>1, <1>8, <1>9 DEF CredInv, LimitInv, SlotsExact, LimitHolds, Rows
<1> QED BY Zenon, <1>1, <1>5, <1>6, <1>7, <1>10 DEF CredInv

\* A dead replica forgets its requests and its root, and holds no lock.
LEMMA CrashKeeps ==
    ASSUME CredInv, NEW p \in Procs, Crash(p)
    PROVE  CredInv'
<1>1. UNCHANGED <<caKey, caCert, serial, cred, sub, answers, artifacts, buckets, slots, admitted, clock>>
  BY Zenon DEF Crash, outVars
<1>2. PICK dead : dead = {q \in Requests : req[q].p = p}
  BY Zenon
<1>3. /\ DOMAIN req' = Requests /\ \A q \in Requests : req'[q] = IF q \in dead THEN Idle ELSE req[q]
      /\ cache' = [cache EXCEPT ![p] = None]
      /\ flock' = IF flock \in dead THEN None ELSE flock
      /\ mlock' = IF mlock \in dead THEN None ELSE mlock
  BY Zenon, <1>2 DEF Crash
<1>4. \A q \in Requests : RequestOK(req'[q])
  BY Zenon, <1>3, IdleOK DEF CredInv
<1>5. \A u \in Users : Known(u)' \subseteq Known(u)
  <2> SUFFICES ASSUME NEW u \in Users, NEW x \in Known(u)'
               PROVE  x \in Known(u)
    BY Zenon
  <2>1. x # None /\ (x = cred[u] \/ \E q \in Requests : req'[q].c \in Clients /\ Owner[req'[q].c] = u /\ x = req'[q].row)
    BY Zenon, <1>1 DEF Known, Readers
  <2>2. ASSUME NEW q \in Requests, req'[q].c \in Clients, Owner[req'[q].c] = u, x = req'[q].row
        PROVE  x \in Known(u)
    BY Zenon, <1>3, <2>1, <2>2, IdleOK DEF Known, Readers
  <2> QED BY Zenon, <2>1, <2>2 DEF Known
<1>6. \A s \in Subs : Spans(s)' \subseteq Spans(s)
  <2> SUFFICES ASSUME NEW s \in Subs
               PROVE  Spans(s)' \subseteq Spans(s)
    BY Zenon
  <2>1. Holders(s)' \subseteq Holders(s) /\ \A q \in Holders(s)' : req'[q] = req[q]
    BY Zenon, <1>3, IdleOK DEF Holders
  <2> QED BY Zenon, <1>1, <2>1 DEF Spans
<1>7. RowInv' /\ AnswerInv' /\ ArtifactInv'
  BY ZenonT(30), <1>1, <1>5, <1>6, RowsStay, AnswersStay, ArtifactsStay
<1>8. SpanInv'
  <2>1. \A q \in Requests : PeriodOK(q)'
    BY <1>1, <1>3, IdleOK DEF CredInv, SpanInv, PeriodOK
  <2> QED BY <1>1, <1>6, <2>1 DEF CredInv, SpanInv
<1>9. RootInv'
  <2>1. \A q \in Requests : RootOK(q)'
    BY ZenonT(30), <1>1, <1>3, IdleOK DEF CredInv, RootInv, RootOK
  <2>2. cache' \in [Procs -> Nat \cup {None}] /\ \A o \in Procs : cache'[o] \in {None, cache[o]}
    BY Zenon, <1>3 DEF CredInv, RootInv
  <2> QED BY Zenon, <1>1, <1>5, <2>1, <2>2 DEF CredInv, RootInv, OneRoot
<1>10. LimitInv'
  <2>1. ASSUME NEW q \in Requests
        PROVE  LimitOK(q)'
    <3>1. LimitOK(q) /\ 0 \in 0..clock
      BY Zenon, Quiet DEF CredInv, LimitInv
    <3> QED BY Zenon, <1>1, <1>3, <3>1, IdleOK DEF LimitOK, Rows, Expiry
  <2> QED BY Zenon, <1>1, <2>1 DEF CredInv, LimitInv, SlotsExact, LimitHolds, Counted, Rows
<1> QED BY Zenon, <1>3, <1>4, <1>7, <1>8, <1>9, <1>10 DEF CredInv

\* A stuttering step.
LEMMA StutterKeeps ==
    ASSUME CredInv, UNCHANGED vars
    PROVE  CredInv'
<1>1. UNCHANGED <<caKey, caCert, cache, flock, serial, cred, sub, req, answers, artifacts, buckets, slots,
                  admitted, mlock, clock>>
  BY Zenon DEF vars, caVars, limitVars, credVars, subVars, outVars
<1>2. \A u \in Users : Known(u)' = Known(u)
  BY Zenon, <1>1 DEF Known, Readers
<1>3. \A s \in Subs : Spans(s)' = Spans(s)
  BY Zenon, <1>1 DEF Spans, Holders
<1>4. RowInv' /\ AnswerInv' /\ ArtifactInv'
  BY ZenonT(30), <1>1, <1>2, <1>3, RowsStay, AnswersStay, ArtifactsStay
<1>5. SpanInv'
  BY <1>1, <1>3 DEF CredInv, SpanInv, PeriodOK
<1>6. RootInv'
  BY Zenon, <1>1, <1>2 DEF CredInv, RootInv, OneRoot, RootOK
<1>7. LimitInv'
  BY Zenon, <1>1 DEF CredInv, LimitInv, SlotsExact, LimitHolds, Counted, LimitOK, Rows, Expiry
<1> QED BY ZenonT(30), <1>1, <1>4, <1>5, <1>6, <1>7 DEF CredInv

----------------------------------------------------------------------------
(* The theorems *)

\* The initial states.
LEMMA InitKeeps ==
    ASSUME Init
    PROVE  CredInv
<1>1. \A q \in Requests : req[q] = Idle
  BY Zenon DEF Init
<1>2. DOMAIN req = Requests /\ \A q \in Requests : RequestOK(req[q])
  BY Zenon, <1>1, IdleOK DEF Init
<1>3. \A u \in Users : \A x \in Known(u) : x = cred[u] /\ x # None
  BY Zenon, <1>1, IdleOK DEF Known, Readers
<1>4. \A s \in Subs : Spans(s) = {<<0, Period>>}
  BY ZenonT(30), <1>1, IdleOK DEF Init, Spans, Holders
<1>5. PICK first : first = [serial |-> 0, key |-> 1, notBefore |-> 0, notAfter |-> CertTTL]
  BY Zenon
<1>6. first \in Cert /\ first.key = 1
  BY Zenon, <1>5, CredentialsAssumption DEF Cert
<1>7. ASSUME NEW u \in Users, cred[u] # None
      PROVE  /\ cred[u] \in CredentialRow /\ Owner[cred[u].c] = u /\ cred[u].cert.key = caCert /\ caCert # None
  <2>1. PICK c \in Clients : cred[u] = Credential(c, 1, first)
    BY <1>5, <1>7 DEF Init
  <2>2. cred[u] \in CredentialRow /\ cred[u].cert = first
    BY <1>6, <2>1, CredentialsAssumption DEF Credential, CredentialRow
  <2>3. caCert # None /\ Owner[cred[u].c] = u /\ caCert = 1
    BY Zenon, <1>7 DEF Init
  <2> QED BY ZenonT(30), <1>6, <2>2, <2>3
<1>8. RowInv
  <2>1. cred \in [Users -> CredentialRow \cup {None}]
    BY Zenon, <1>7 DEF Init
  <2> QED BY SMTT(30), <1>3, <1>7, <2>1 DEF RowInv, CredentialRow
<1>9. AnswerInv /\ ArtifactInv
  BY Zenon DEF Init, AnswerInv, ArtifactInv, RetrySafe
<1>10. SpanInv
  <2>1. sub \in [Subs -> [start : Nat, end : Nat, active : BOOLEAN]] /\ \A s \in Subs : sub[s].end = Period
    BY Zenon, CredentialsAssumption DEF Init
  <2>2. \A q \in Requests : PeriodOK(q)
    BY Zenon, <1>1, IdleOK DEF PeriodOK
  <2> QED BY <1>4, <2>1, <2>2, CredentialsAssumption DEF SpanInv
<1>11. RootInv
  <2>1. \A q \in Requests : RootOK(q)
    BY Zenon, <1>1, IdleOK DEF RootOK
  <2>2. caKey \in Nat \cup {None} /\ serial \in Nat /\ clock \in 0..MaxClock /\ answers = {}
    BY DEF Init
  <2>3. cache \in [Procs -> Nat \cup {None}] /\ OneRoot
    BY DEF Init, OneRoot
  <2> QED BY ZenonT(30), <1>3, <1>7, <2>1, <2>2, <2>3 DEF RootInv
<1>12. LimitInv
  <2>1. buckets \in [Rows -> Nat] /\ Rows = {} /\ slots = 0
    BY DEF Init, Rows
  <2>2. IsFiniteSet(Rows) /\ Cardinality(Rows) = 0
    BY Zenon, <2>1, FS_EmptySet
  <2>3. admitted \in [Users -> [0..MaxClock -> Nat]] /\ \A u \in Users, w \in 0..MaxClock : admitted[u][w] = 0
    BY Zenon DEF Init
  <2>4. \A q \in Requests : LimitOK(q)
    <3>1. 0 \in 0..clock
      BY CredentialsAssumption DEF Init
    <3> QED BY ZenonT(30), <1>1, <3>1, IdleOK DEF LimitOK
  <2>5. SlotsExact /\ LimitHolds
    BY SMTT(30), <2>1, <2>2, <2>3, CredentialsAssumption DEF SlotsExact, LimitHolds
  <2> QED BY ZenonT(30), <2>1, <2>2, <2>3, <2>4, <2>5 DEF LimitInv, Counted
<1> QED BY Zenon, <1>2, <1>8, <1>9, <1>10, <1>11, <1>12 DEF CredInv

\* The inductive invariant holds in every reachable state of the certificate
\* authority, the limiter, enrollment and the entitlements together.
THEOREM CredInvariant == Spec => []CredInv
<1>1. Init => CredInv
  BY Zenon, InitKeeps
<1>2. CredInv /\ [Next]_vars => CredInv'
  <2> SUFFICES ASSUME CredInv, [Next]_vars
               PROVE  CredInv'
    BY Zenon
  <2>1. ASSUME NEW r \in Requests, Step(r)
        PROVE  CredInv'
    BY ZenonT(30), <2>1, TakeRootKeeps, LockRootKeeps, LoadRootKeyKeeps, LoadRootCertKeeps, IssueKeeps, NewCredentialKeeps,
       EnforceRateLimitKeeps, ReserveBucketSlotKeeps, LoadCredentialKeeps, CommitCredentialKeeps,
       ReloadCredentialKeeps, RespondKeeps, LockCredentialKeeps, ReadSubscriptionsKeeps, IssueEntitlementsKeeps
       DEF Step, IssueClientCert, IssueServerCert
  <2>2. ASSUME NEW r \in Requests, NEW p \in Procs, Arrive(r, p)
        PROVE  CredInv'
    BY Zenon, <2>2, ArriveKeeps
  <2>3. ASSUME NEW s \in Subs, Renew(s)
        PROVE  CredInv'
    BY Zenon, <2>3, RenewKeeps
  <2>4. CASE Tick
    BY Zenon, <2>4, TickKeeps
  <2>5. ASSUME NEW p \in Procs, Crash(p)
        PROVE  CredInv'
    BY Zenon, <2>5, CrashKeeps
  <2>6. CASE UNCHANGED vars
    BY Zenon, <2>6, StutterKeeps
  <2> QED BY ZenonT(30), <2>1, <2>2, <2>3, <2>4, <2>5, <2>6 DEF Next
<1> QED BY <1>1, <1>2, PTL DEF Spec

\* There is one root: whatever replica creates, loads or re-reads it, and
\* wherever one dies between ca.key and ca.crt, the files belong together, every
\* process caches that pair and every certificate handed out chains to the root
\* handed out with it (_load_or_create_root under .ca.lock).
THEOREM RootIsUnique == Spec => []OneRoot
  BY CredInvariant, PTL DEF CredInv, RootInv

\* The maintenance row's bucket_count is the number of buckets and never passes
\* the configured bound (enforce_rate_limit with _cleanup_if_due).
THEOREM SlotsAreExact == Spec => []SlotsExact
  BY CredInvariant, PTL DEF CredInv, LimitInv

\* An account is let through at most Limit times in one window, with any number
\* of replicas counting at once (_consume_existing_bucket and the lost insert).
THEOREM AdmissionIsBounded == Spec => []LimitHolds
  BY CredInvariant, PTL DEF CredInv, LimitInv

\* Two answers for the same account and generation carry the same certificate
\* (enroll_client_certificate and its generation fence).
THEOREM EnrollmentIsRetrySafe == Spec => []RetrySafe
  BY CredInvariant, PTL DEF CredInv, AnswerInv

\* A number below K and a multiple of K come apart again.
LEMMA Apart ==
    ASSUME NEW K \in Nat \ {0}, NEW m \in Nat, NEW n \in Nat, NEW g \in 0..(K - 1), NEW h \in 0..(K - 1),
           m * K + g = n * K + h
    PROVE  m = n /\ g = h
<1>1. ASSUME NEW x \in Nat, NEW y \in Nat, x < y
      PROVE  x * K + K <= y * K
  <2>1. PICK d \in Nat : y = x + 1 + d
    <3>1. y - x - 1 \in Nat /\ y = x + 1 + (y - x - 1)
      BY <1>1
    <3> QED BY Zenon, <3>1
  <2>2. y * K = x * K + K + d * K
    BY <2>1
  <2>3. d * K \in Nat /\ x * K \in Nat
    OBVIOUS
  <2> QED BY <2>2, <2>3
<1>2. m * K \in Nat /\ n * K \in Nat
  OBVIOUS
<1>3. ~(m < n)
  BY <1>1, <1>2
<1>4. ~(n < m)
  BY <1>1, <1>2
<1>5. m = n
  BY <1>3, <1>4
<1> QED BY <1>2, <1>5

\* An entitlement identifier names one artifact, and a generation one identifier
\* of its subscription and edge (deterministic_entitlement_jti,
\* entitlement_generation, entitlement_issued_at).
THEOREM EntitlementsAreAgreed == Spec => []EntitlementsAgree
<1>1. CredInv => EntitlementsAgree
  <2> SUFFICES ASSUME CredInv, NEW a \in artifacts, NEW b \in artifacts
               PROVE  /\ a.jti = b.jti => a = b
                      /\ a.claim.sub = b.claim.sub /\ a.claim.edge = b.claim.edge /\ a.gen = b.gen => a.jti = b.jti
    BY Zenon DEF EntitlementsAgree
  <2>1. ArtifactOK(a) /\ ArtifactOK(b) /\ (a.jti = b.jti => a.iat = b.iat)
    BY Zenon DEF CredInv, ArtifactInv
  <2>2. PICK K : K = 2 ^ GenBits
    BY Zenon 
  <2>3. K \in Nat \ {0}
    BY Zenon, <2>2, CredentialsAssumption
  <2>4. PICK s, e, m, g, u : s = a.claim.sub /\ e = a.claim.edge /\ m = a.claim.paid /\ g = a.jti[3] /\ u = SubOwner[s]
    BY Zenon 
  <2>5. PICK t, f, n, h, v : t = b.claim.sub /\ f = b.claim.edge /\ n = b.claim.paid /\ h = b.jti[3] /\ v = SubOwner[t]
    BY Zenon
  <2>6. /\ m \in Nat /\ g \in 0..(K - 1)
        /\ a = [claim |-> [sub |-> s, edge |-> e, c |-> cred[u].c, paid |-> m],
                jti |-> <<s, cred[u].inst, g, cred[u].c, e, m, s \in Wildcard>>,
                iat |-> a.iat, gen |-> m * K + g]
    BY Zenon, <2>1, <2>2, <2>4 DEF ArtifactOK
  <2>7. /\ n \in Nat /\ h \in 0..(K - 1)
        /\ b = [claim |-> [sub |-> t, edge |-> f, c |-> cred[v].c, paid |-> n],
                jti |-> <<t, cred[v].inst, h, cred[v].c, f, n, t \in Wildcard>>,
                iat |-> b.iat, gen |-> n * K + h]
    BY Zenon, <2>1, <2>2, <2>5 DEF ArtifactOK
  <2>8. ASSUME a.jti = b.jti
        PROVE  a = b
    <3>1. a.jti[1] = s /\ a.jti[3] = g /\ a.jti[5] = e /\ a.jti[6] = m
      BY SMTT(30), <2>6
    <3>2. b.jti[1] = t /\ b.jti[3] = h /\ b.jti[5] = f /\ b.jti[6] = n
      BY SMTT(30), <2>7
    <3>3. s = t /\ g = h /\ e = f /\ m = n
      BY Zenon, <2>8, <3>1, <3>2
    <3>4. u = v /\ a.iat = b.iat
      BY ZenonT(30), <2>1, <2>4, <2>5, <2>8, <3>3
    <3> QED BY ZenonT(30), <2>6, <2>7, <3>3, <3>4
  <2>9. ASSUME a.claim.sub = b.claim.sub, a.claim.edge = b.claim.edge, a.gen = b.gen
        PROVE  a.jti = b.jti
    <3>1. m * K + g = n * K + h
      <4>1. a.gen = m * K + g
        BY <2>6
      <4>2. b.gen = n * K + h
        BY SMTT(30), <2>7
      <4> QED BY Zenon, <2>9, <4>1, <4>2
    <3>2. m = n /\ g = h
      BY <2>3, <2>6, <2>7, <3>1, Apart
    <3>3. s = t /\ e = f /\ u = v
      BY Zenon, <2>4, <2>5, <2>9
    <3> QED BY <2>6, <2>7, <3>2, <3>3
  <2> QED BY Zenon, <2>8, <2>9
<1> QED BY <1>1, CredInvariant, PTL
=============================================================================
