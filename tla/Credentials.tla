----------------------------- MODULE Credentials -----------------------------
(***************************************************************************)
(* Client identity: the certificate authority every backend replica shares *)
(* through its CA directory (core/ca.py), the durable per-account request  *)
(* limit in front of enrollment (services/rate_limits.py), enrollment and  *)
(* renewal of client certificates (services/client_enrollment.py) and the  *)
(* signed offline entitlements issued from an enrolled credential          *)
(* (services/offline_entitlements.py with api/v2.py and api/v3.py).        *)
(*                                                                         *)
(* A request runs in one process.  Every action is one database            *)
(* transaction, one file system step or one computation of a request, so   *)
(* two replicas interleave wherever the code can be preempted.  A client   *)
(* stands for its key pair: the fingerprint of its CSR is the client.      *)
(***************************************************************************)
EXTENDS Integers, FiniteSets

CONSTANTS Procs, Users, Clients, Instances, Subs, Wildcard, Edges, Requests, None,
          Owner, InstanceOf, SubOwner,
          Limit, MaxBuckets, Retention, CleanupInterval, CleanupBatch,
          CertTTL, Period, GenBits,
          MaxGen, MaxClock, MaxEnroll, MaxIssue, MaxConfig, MaxCrashes, MaxRenewals

\* A signed certificate, and a ClientCredential row.
Cert == [serial : Nat, key : Nat, notBefore : Nat, notAfter : Nat]
CredentialRow == [inst : Instances, c : Clients, gen : Nat, cert : Cert]

\* A client authenticates as one account and reports one instance identifier;
\* config.py makes the retention of a bucket cover its window (one tick here).
ASSUME CredentialsAssumption ==
    /\ Owner \in [Clients -> Users]
    /\ InstanceOf \in [Clients -> Instances]
    /\ SubOwner \in [Subs -> Users] /\ Wildcard \subseteq Subs
    /\ {Limit, MaxBuckets, Retention, CleanupInterval, CleanupBatch} \subseteq Nat \ {0}
    /\ {CertTTL, Period, GenBits} \subseteq Nat \ {0}
    /\ {MaxGen, MaxClock} \subseteq Nat
    /\ 2 ^ GenBits \in Nat \ {0}
    /\ None \notin Nat \cup Requests \cup CredentialRow

VARIABLES
    caKey, caCert,      \* the files ca.key and ca.crt: None or a key's number
    cache,              \* _CACHE of every process
    mutex,              \* _LOCK of every process: the request inside
    flock,              \* .ca.lock: the request that holds it
    buckets,            \* RateLimitBucket rows: request_count by account and window
    slots, nextCleanup, \* the RateLimitMaintenance row
    mlock,              \* its row lock
    cred,               \* ClientCredential rows by account
    credLock,           \* their row locks
    sub,                \* Subscription rows: period and status
    subLock,            \* their row locks
    req,                \* the requests in flight
    clock, serial, budget,
    admitted,           \* requests let through, by account and window
    answers,            \* certificates returned to clients
    artifacts           \* entitlements returned to clients

caVars    == <<caKey, caCert, cache, mutex, flock>>
limitVars == <<buckets, slots, nextCleanup, mlock, admitted>>
credVars  == <<cred, credLock>>
subVars   == <<sub, subLock>>
outVars   == <<answers, artifacts>>
vars == <<caVars, limitVars, credVars, subVars, outVars, req, clock, serial, budget>>

Idle == [pc |-> "idle", op |-> None, p |-> None, c |-> None, gen |-> 0, now |-> 0,
         stale |-> {}, row |-> None, cand |-> None, root |-> None, seen |-> None,
         to |-> None, subs |-> None]

Ends(r)   == req' = [req EXCEPT ![r] = Idle]
User(r)   == Owner[req[r].c]
At(r, pc)  == req[r].pc = pc

----------------------------------------------------------------------------
(* The certificate authority.                                              *)

\* _load_or_create_root: a process that has the pair serves it from _CACHE;
\* otherwise one thread of the process goes on to the files.
TakeRoot(r) ==
    LET p == req[r].p IN
    /\ At(r, "root") /\ mutex[p] = None
    /\ IF cache[p] # None
       THEN /\ req' = [req EXCEPT ![r].pc = req[r].to, ![r].root = cache[p]]
            /\ UNCHANGED mutex
       ELSE /\ mutex' = [mutex EXCEPT ![p] = r]
            /\ req' = [req EXCEPT ![r].pc = "flock"]
    /\ UNCHANGED <<caKey, caCert, cache, flock, limitVars, credVars, subVars, outVars,
                   clock, serial, budget>>

\* Mutant: the directory is read without taking .ca.lock.
LockRootUnlocked(r) ==
    /\ At(r, "flock")
    /\ req' = [req EXCEPT ![r].pc = "key", ![r].seen = caKey]
    /\ UNCHANGED <<caVars, limitVars, credVars, subVars, outVars, clock, serial, budget>>

\* The file lock, and what the directory holds once it is held: a certificate
\* without its key is refused.
LockRoot(r) ==
    /\ At(r, "flock") /\ flock = None
    /\ IF caCert # None /\ caKey = None
       THEN /\ mutex' = [mutex EXCEPT ![req[r].p] = None]
            /\ Ends(r) /\ UNCHANGED flock
       ELSE /\ flock' = r
            /\ req' = [req EXCEPT ![r].pc = "key", ![r].seen = caKey]
            /\ UNCHANGED mutex
    /\ UNCHANGED <<caKey, caCert, cache, limitVars, credVars, subVars, outVars,
                   clock, serial, budget>>

\* Load ca.key, or generate a key and replace the file atomically.
LoadRootKey(r) ==
    /\ At(r, "key")
    /\ IF req[r].seen # None
       THEN /\ req' = [req EXCEPT ![r].pc = "cert", ![r].root = req[r].seen, ![r].seen = None]
            /\ UNCHANGED <<caKey, serial>>
       ELSE /\ serial' = serial + 1
            /\ caKey' = serial
            /\ req' = [req EXCEPT ![r].pc = "cert", ![r].root = serial]
    /\ UNCHANGED <<caCert, cache, mutex, flock, limitVars, credVars, subVars, outVars,
                   clock, budget>>

\* A root certificate is known by the key it certifies and was signed with.
RootCert(key) == key
Paired(key, cert) == cert = key

\* Load ca.crt or self-sign one, check that the pair matches, leave the lock
\* and cache the pair.  A mismatched pair fails the request.
LoadRootCert(r) ==
    LET p    == req[r].p
        cert == IF caCert = None THEN RootCert(req[r].root) ELSE caCert
    IN
    /\ At(r, "cert")
    /\ caCert' = cert
    /\ flock' = None
    /\ mutex' = [mutex EXCEPT ![p] = None]
    /\ IF Paired(req[r].root, cert)
       THEN /\ cache' = [cache EXCEPT ![p] = cert]
            /\ req' = [req EXCEPT ![r].pc = req[r].to]
       ELSE Ends(r) /\ UNCHANGED cache
    /\ UNCHANGED <<caKey, limitVars, credVars, subVars, outVars, clock, serial, budget>>

\* A certificate signed by the root the request loaded.
Certificate(r) == [serial |-> serial, key |-> req[r].root,
                   notBefore |-> clock, notAfter |-> clock + CertTTL]

\* What a client receives: a certificate and the root it must chain to.
Answer(c, gen, cert, root) == [c |-> c, gen |-> gen, serial |-> cert.serial,
                               key |-> cert.key, ca |-> root]

IssueUnbound(r) ==
    /\ At(r, "sign")
    /\ serial' = serial + 1
    /\ answers' = answers \cup {Answer(req[r].c, 0, Certificate(r), req[r].root)}
    /\ Ends(r)
    /\ UNCHANGED <<caVars, limitVars, credVars, subVars, artifacts, clock, budget>>

\* A rollout-era certificate with a key the backend generates, and a relay's
\* server certificate: the answer carries the root used, nothing is stored.
IssueClientCert(r) == req[r].op = "legacy" /\ IssueUnbound(r)
IssueServerCert(r) == req[r].op = "relay" /\ IssueUnbound(r)

\* issue_client_cert_for_public_key, on the way to a new or renewed credential.
NewCredential(r) ==
    /\ At(r, "sign") /\ req[r].op = "enroll"
    /\ serial' = serial + 1
    /\ req' = [req EXCEPT ![r].pc = "commit", ![r].cand = Certificate(r)]
    /\ UNCHANGED <<caVars, limitVars, credVars, subVars, outVars, clock, budget>>

----------------------------------------------------------------------------
(* The durable request limit.  A window lasts one tick.                     *)

Rows == DOMAIN buckets
Expiry(b) == b[2] + 1 + Retention
Bucket(r) == <<User(r), req[r].now>>

\* Which expired buckets one cleanup removes: the oldest, up to the batch size.
StaleIds(now) ==
    LET old == {b \in Rows : Expiry(b) <= now} IN
    {S \in SUBSET old :
        /\ Cardinality(S) = (IF Cardinality(old) < CleanupBatch
                             THEN Cardinality(old) ELSE CleanupBatch)
        /\ \A b \in S, d \in old \ S : Expiry(b) <= Expiry(d)}

Without(gone) == [b \in Rows \ gone |-> buckets[b]]
Freed(gone)   == IF slots >= Cardinality(gone) THEN slots - Cardinality(gone) ELSE 0

\* A request goes on when its window has room, and is answered 429 otherwise.
Admit(r, consumed) ==
    IF consumed > Limit
    THEN Ends(r) /\ UNCHANGED admitted
    ELSE /\ admitted' = [admitted EXCEPT ![User(r)][req[r].now] = @ + 1]
         /\ req' = [req EXCEPT ![r].pc = "load", ![r].stale = {}]

\* The first half of enforce_rate_limit: claim a cleanup when one is due (the
\* maintenance row stays locked until the transaction ends) and count the
\* request in its bucket.  A row another transaction is deleting is waited for.
EnforceRateLimit(r) ==
    LET b == Bucket(r)
        due == nextCleanup <= req[r].now
    IN
    /\ At(r, "limit")
    /\ due => mlock = None
    /\ \A q \in Requests : b \notin req[q].stale
    /\ \E gone \in (IF due THEN StaleIds(req[r].now) ELSE {{}}) :
        /\ IF b \in Rows \ gone
           THEN /\ buckets' = [Without(gone) EXCEPT ![b] = @ + 1]
                /\ slots' = Freed(gone)
                /\ nextCleanup' = IF due THEN req[r].now + CleanupInterval ELSE nextCleanup
                /\ Admit(r, buckets[b] + 1)
                /\ UNCHANGED mlock
           ELSE /\ mlock' = IF due THEN r ELSE mlock
                /\ req' = [req EXCEPT ![r].pc = "slot", ![r].stale = gone]
                /\ UNCHANGED <<buckets, slots, nextCleanup, admitted>>
    /\ UNCHANGED <<caVars, credVars, subVars, outVars, clock, serial, budget>>

\* Mutant: the lost insert keeps its slot.
ConflictingKept(rows, b, count) == <<[rows EXCEPT ![b] = @ + 1], count + 1, rows[b] + 1>>
\* Mutant: the lost insert overwrites the winner's count.
ConflictingReset(rows, b, count) == <<[rows EXCEPT ![b] = 1], count, 1>>

\* What an insert that lost its race counts instead: the winner's bucket, with
\* the slot it had reserved given back.
Conflicting(rows, b, count) == <<[rows EXCEPT ![b] = @ + 1], count, rows[b] + 1>>

Inserted(rows, b) == [d \in DOMAIN rows \cup {b} |-> IF d = b THEN 1 ELSE rows[d]]

\* The second half: reserve a slot, insert the bucket, commit.
ReserveBucketSlot(r) ==
    LET b     == Bucket(r)
        rows  == Without(req[r].stale)
        count == Freed(req[r].stale)
        done  == IF b \in DOMAIN rows THEN Conflicting(rows, b, count)
                 ELSE <<Inserted(rows, b), count + 1, 1>>
    IN
    /\ At(r, "slot") /\ mlock \in {None, r}
    /\ mlock' = None
    /\ nextCleanup' = IF mlock = r THEN req[r].now + CleanupInterval ELSE nextCleanup
    /\ IF count >= MaxBuckets
       THEN /\ buckets' = rows /\ slots' = count
            /\ Ends(r) /\ UNCHANGED admitted
       ELSE /\ buckets' = done[1] /\ slots' = done[2]
            /\ Admit(r, done[3])
    /\ UNCHANGED <<caVars, credVars, subVars, outVars, clock, serial, budget>>

----------------------------------------------------------------------------
(* Enrollment.                                                              *)

Credential(c, gen, cert) == [inst |-> InstanceOf[c], c |-> c, gen |-> gen, cert |-> cert]
Matches(row, c, gen) == row.inst = InstanceOf[c] /\ row.c = c /\ row.gen = gen
SameIdentity(row, c) == row.inst = InstanceOf[c] /\ row.c = c

\* What the stored row allows: generation one starts, the stored generation is
\* answered again, the next one renews; everything else is a 409.
LoadCredential(r) ==
    LET row == cred[User(r)]
        g   == req[r].gen
    IN
    /\ At(r, "load")
    /\ \/ /\ row = None /\ g = 1
          /\ req' = [req EXCEPT ![r].pc = "root", ![r].to = "sign", ![r].row = row]
       \/ /\ row # None /\ Matches(row, req[r].c, g)
          /\ req' = [req EXCEPT ![r].pc = "root", ![r].to = "respond", ![r].row = row]
       \/ /\ row # None /\ SameIdentity(row, req[r].c) /\ g = row.gen + 1
          /\ req' = [req EXCEPT ![r].pc = "root", ![r].to = "sign", ![r].row = row]
       \/ /\ \/ row = None /\ g # 1
             \/ row # None /\ ~SameIdentity(row, req[r].c)
             \/ row # None /\ SameIdentity(row, req[r].c) /\ g \notin {row.gen, row.gen + 1}
          /\ Ends(r)
    /\ UNCHANGED <<caVars, limitVars, credVars, subVars, outVars, clock, serial, budget>>

\* The insert meets both unique constraints, the update its generation fence.
Insertable(r) == /\ cred[User(r)] = None
                 /\ \A u \in Users : cred[u] # None => cred[u].inst # InstanceOf[req[r].c]
\* Mutant: the update does not compare generations.
FencedByIdentity(r) == cred[User(r)] # None /\ SameIdentity(cred[User(r)], req[r].c)

Fenced(r) ==
    /\ cred[User(r)] # None
    /\ SameIdentity(cred[User(r)], req[r].c)
    /\ cred[User(r)].gen = req[r].row.gen

CommitCredential(r) ==
    LET c  == req[r].c
        ok == IF req[r].row = None THEN Insertable(r) ELSE Fenced(r)
    IN
    /\ At(r, "commit") /\ credLock[User(r)] = None
    /\ cred' = IF ok THEN [cred EXCEPT ![User(r)] = Credential(c, req[r].gen, req[r].cand)]
               ELSE cred
    /\ req' = [req EXCEPT ![r].pc = "reload", ![r].seen = ok]
    /\ UNCHANGED <<credLock, caVars, limitVars, subVars, outVars, clock, serial, budget>>

\* The winner is read back in a new transaction.  After a lost race it must be
\* what this request asked for.
ReloadCredential(r) ==
    LET row == cred[User(r)] IN
    /\ At(r, "reload")
    /\ IF row # None /\ (req[r].seen \/ Matches(row, req[r].c, req[r].gen))
       THEN req' = [req EXCEPT ![r].pc = "root", ![r].to = "respond", ![r].row = row,
                                ![r].cand = None, ![r].seen = None, ![r].root = None]
       ELSE Ends(r)
    /\ UNCHANGED <<caVars, limitVars, credVars, subVars, outVars, clock, serial, budget>>

Respond(r) ==
    LET row == req[r].row IN
    /\ At(r, "respond")
    /\ answers' = answers \cup {Answer(row.c, row.gen, row.cert, req[r].root)}
    /\ Ends(r)
    /\ UNCHANGED <<caVars, limitVars, credVars, subVars, artifacts, clock, serial, budget>>

----------------------------------------------------------------------------
(* Offline entitlements.                                                    *)

\* enrolled_client_public_key: the row is this instance's and its certificate,
\* whose key and serial the row repeats, is valid now.
EnrolledKey(row, c) ==
    /\ row # None /\ row.inst = InstanceOf[c]
    /\ row.cert.notBefore <= clock /\ clock < row.cert.notAfter

\* The credential of this account and instance, locked, with its key
\* checked; anything else is a 409.
LockCredential(r) ==
    LET row == cred[User(r)] IN
    /\ At(r, "config") /\ credLock[User(r)] = None
    /\ IF EnrolledKey(row, req[r].c)
       THEN /\ credLock' = [credLock EXCEPT ![User(r)] = r]
            /\ req' = [req EXCEPT ![r].pc = "subs", ![r].row = row]
       ELSE Ends(r) /\ UNCHANGED credLock
    /\ UNCHANGED <<cred, caVars, limitVars, subVars, outVars, clock, serial, budget>>

Mine(r)    == {s \in Subs : SubOwner[s] = User(r) /\ sub[s].active}
Elapsed(S) == {s \in S : sub[s].end <= clock}

\* Reap domain claims, lock and read the active subscriptions, expire the
\* elapsed ones.  Reaping and expiring commit: the commit drops the locks taken
\* so far and the credential is read again when it is next used.
ReadSubscriptions(r) ==
    LET gone == Elapsed(Mine(r)) IN
    /\ At(r, "subs")
    /\ \A s \in Mine(r) : subLock[s] = None
    /\ \E reaped \in BOOLEAN :
        /\ credLock' = IF reaped \/ gone # {}
                       THEN [credLock EXCEPT ![User(r)] = None] ELSE credLock
        /\ req' = [req EXCEPT ![r].pc = "entitle",
                               ![r].row = IF reaped \/ gone # {} THEN None ELSE @,
                               ![r].subs = [s \in Mine(r) \ gone |-> sub[s]]]
    /\ sub' = [s \in Subs |-> IF s \in gone THEN [sub[s] EXCEPT !.active = FALSE] ELSE sub[s]]
    /\ subLock' = [s \in Subs |-> IF gone = {} /\ s \in Mine(r) THEN r ELSE subLock[s]]
    /\ UNCHANGED <<cred, caVars, limitVars, outVars, clock, serial, budget>>

\* entitlement_generation, with its range check.
InRange(row)       == row.gen <= 2 ^ GenBits - 1
Generation(s, row) == s.end * 2 ^ GenBits + row.gen

\* Mutant: the digest leaves the credential generation out.
JtiUngenerated(s, e, row, paid) == <<s, row.inst, row.c, e, paid, s \in Wildcard>>

\* deterministic_entitlement_jti: every field the digest covers.
Jti(s, e, row, paid) == <<s, row.inst, row.gen, row.c, e, paid, s \in Wildcard>>

\* The later of the certificate's start and the period's start.
IssuedAt(p, row) == IF row.cert.notBefore > p.start THEN row.cert.notBefore ELSE p.start

Claim(s, p, e, row) == [sub |-> s, edge |-> e, c |-> row.c, paid |-> p.end]

Artifact(s, p, e, row) ==
    [claim |-> Claim(s, p, e, row), jti |-> Jti(s, e, row, p.end),
     iat |-> IssuedAt(p, row), gen |-> Generation(p, row)]

\* One signed artifact per subscription and edge; /api/v2 leaves wildcard names
\* out.  An artifact that cannot be issued fails the whole answer.
IssueEntitlements(r) ==
    LET row    == IF req[r].row = None THEN cred[User(r)] ELSE req[r].row
        period == req[r].subs
        chosen == DOMAIN period \ (IF req[r].op = "config2" THEN Wildcard ELSE {})
    IN
    /\ At(r, "entitle")
    /\ artifacts' = IF /\ InRange(row)
                       /\ \A s \in chosen : /\ IssuedAt(period[s], row) <= clock
                                            /\ IssuedAt(period[s], row) <= period[s].end
                    THEN artifacts \cup {Artifact(s, period[s], e, row) : s \in chosen, e \in Edges}
                    ELSE artifacts
    /\ Ends(r)
    /\ credLock' = [u \in Users |-> IF credLock[u] = r THEN None ELSE credLock[u]]
    /\ subLock' = [s \in Subs |-> IF subLock[s] = r THEN None ELSE subLock[s]]
    /\ UNCHANGED <<cred, sub, answers, caVars, limitVars, clock, serial, budget>>

----------------------------------------------------------------------------
(* Requests arrive, time passes, periods are renewed, replicas die.         *)

Start(r, p, kind, st) ==
    /\ At(r, "idle") /\ budget[kind] > 0
    /\ budget' = [budget EXCEPT ![kind] = @ - 1]
    /\ req' = [req EXCEPT ![r] = [st EXCEPT !.p = p, !.now = clock]]
    /\ UNCHANGED <<caVars, limitVars, credVars, subVars, outVars, clock, serial>>

\* POST /api/v2/client/certificate
ClientCertificate(r, p, c, g) ==
    Start(r, p, "enroll", [Idle EXCEPT !.pc = "limit", !.op = "enroll", !.c = c, !.gen = g])
\* GET /api/v1/client/cert
ClientCert(r, p, c) ==
    Start(r, p, "issue", [Idle EXCEPT !.pc = "root", !.to = "sign", !.op = "legacy", !.c = c])
\* POST /internal/v1/relay/cert
RelayCert(r, p) ==
    Start(r, p, "issue", [Idle EXCEPT !.pc = "root", !.to = "sign", !.op = "relay"])
\* GET /api/v2/client/config
OfflineClientConfigV2(r, p, c) ==
    Start(r, p, "config", [Idle EXCEPT !.pc = "config", !.op = "config2", !.c = c])
\* GET /api/v3/client/config
OfflineClientConfigV3(r, p, c) ==
    Start(r, p, "config", [Idle EXCEPT !.pc = "config", !.op = "config3", !.c = c])

\* A settled payment: the Settlement module's activation or renewal.
Renew(s) ==
    /\ subLock[s] = None /\ budget.renewals > 0
    /\ budget' = [budget EXCEPT !.renewals = @ - 1]
    /\ sub' = [sub EXCEPT ![s] = [start |-> clock, active |-> TRUE,
                   end |-> (IF @.end > clock THEN @.end ELSE clock) + Period]]
    /\ UNCHANGED <<subLock, caVars, limitVars, credVars, outVars, req, clock, serial>>

\* A limiter transaction is over long before the retention of its window is.
Tick ==
    /\ clock < MaxClock
    /\ \A r \in Requests : req[r].pc \in {"limit", "slot"} => clock < req[r].now + Retention
    /\ clock' = clock + 1
    /\ UNCHANGED <<caVars, limitVars, credVars, subVars, outVars, req, serial, budget>>

Crash(p) ==
    LET dead == {r \in Requests : req[r].p = p}
        Free(h) == IF h \in dead THEN None ELSE h
    IN
    /\ dead # {} /\ budget.crashes > 0
    /\ budget' = [budget EXCEPT !.crashes = @ - 1]
    /\ req' = [r \in Requests |-> IF r \in dead THEN Idle ELSE req[r]]
    /\ cache' = [cache EXCEPT ![p] = None]
    /\ mutex' = [mutex EXCEPT ![p] = None]
    /\ flock' = Free(flock) /\ mlock' = Free(mlock)
    /\ credLock' = [u \in Users |-> Free(credLock[u])]
    /\ subLock' = [s \in Subs |-> Free(subLock[s])]
    /\ UNCHANGED <<caKey, caCert, buckets, slots, nextCleanup, admitted, cred, sub,
                   outVars, clock, serial>>

Step(r) ==
    \/ TakeRoot(r) \/ LockRoot(r) \/ LoadRootKey(r) \/ LoadRootCert(r)
    \/ IssueClientCert(r) \/ IssueServerCert(r) \/ NewCredential(r)
    \/ EnforceRateLimit(r) \/ ReserveBucketSlot(r)
    \/ LoadCredential(r) \/ CommitCredential(r) \/ ReloadCredential(r) \/ Respond(r)
    \/ LockCredential(r) \/ ReadSubscriptions(r) \/ IssueEntitlements(r)

Arrive(r, p) ==
    \/ \E c \in Clients, g \in 1..MaxGen : ClientCertificate(r, p, c, g)
    \/ \E c \in Clients : ClientCert(r, p, c)
    \/ RelayCert(r, p)
    \/ \E c \in Clients : OfflineClientConfigV2(r, p, c) \/ OfflineClientConfigV3(r, p, c)

Next ==
    \/ \E r \in Requests : Step(r)
    \/ \E r \in Requests, p \in Procs : Arrive(r, p)
    \/ \E s \in Subs : Renew(s)
    \/ Tick
    \/ \E p \in Procs : Crash(p)

\* Quiet states: an empty CA directory, one a crash left without ca.crt, or a
\* complete one; accounts enrolled or not; no request in flight.
Init ==
    /\ caKey \in {None, 1} /\ caCert \in {None, caKey}
    /\ serial = IF caKey = None THEN 1 ELSE 2
    /\ cache \in [Procs -> {None, caCert}] /\ mutex = [p \in Procs |-> None] /\ flock = None
    /\ buckets = <<>> /\ slots = 0 /\ nextCleanup \in {0, CleanupInterval} /\ mlock = None
    /\ cred \in [Users -> {None} \cup {Credential(c, 1, [serial |-> 0, key |-> 1,
                              notBefore |-> 0, notAfter |-> CertTTL]) : c \in Clients}]
    /\ \A u \in Users : cred[u] # None => caCert # None /\ Owner[cred[u].c] = u
    /\ \A u, v \in Users : u # v /\ cred[u] # None /\ cred[v] # None => cred[u].inst # cred[v].inst
    /\ credLock = [u \in Users |-> None]
    /\ sub = [s \in Subs |-> [start |-> 0, end |-> Period, active |-> TRUE]]
    /\ subLock = [s \in Subs |-> None]
    /\ req = [r \in Requests |-> Idle]
    /\ clock \in 0..MaxClock
    /\ budget \in [enroll : 0..MaxEnroll, issue : 0..MaxIssue, config : 0..MaxConfig,
                    crashes : 0..MaxCrashes, renewals : 0..MaxRenewals]
    /\ admitted = [u \in Users |-> [w \in 0..MaxClock |-> 0]]
    /\ answers = {} /\ artifacts = {}

Spec == Init /\ [][Next]_vars

----------------------------------------------------------------------------
(* Properties.                                                              *)

\* Whatever replica creates, loads or re-reads the root, and wherever one dies
\* between writing ca.key and ca.crt, there is one root: the certificate file
\* belongs to the key file, every process caches that pair, and every
\* certificate handed out chains to the root handed out with it
\* (_load_or_create_root under .ca.lock).
OneRoot ==
    /\ caCert # None => caCert = caKey
    /\ \A p \in Procs : cache[p] \in {None, caCert}
    /\ \A a \in answers : a.key = caCert /\ a.ca = caCert

\* The maintenance row's bucket_count is the number of buckets, whatever
\* cleanup, lost insert race or crash came between, and never passes the
\* configured bound (enforce_rate_limit with _cleanup_if_due).
SlotsExact == slots = Cardinality(Rows) /\ slots <= MaxBuckets

\* An account is let through at most Limit times in one window, with both
\* replicas counting the same window at once (_consume_existing_bucket and the
\* insert that loses its race).
LimitHolds == \A u \in Users, w \in 0..MaxClock : admitted[u][w] <= Limit

\* Enrollment is retry-safe: two answers for the same account and generation
\* carry the same certificate, however requests raced and whichever replica
\* answered (enroll_client_certificate).
RetrySafe ==
    \A a, b \in answers :
        a.gen > 0 /\ a.gen = b.gen /\ Owner[a.c] = Owner[b.c] => a = b

\* An entitlement identifier names one artifact, and a generation names one
\* identifier of its subscription and edge: no two differing artifacts can
\* claim to be the same authorization (deterministic_entitlement_jti,
\* entitlement_generation, entitlement_issued_at).
EntitlementsAgree ==
    \A a, b \in artifacts :
        /\ a.jti = b.jti => a = b
        /\ a.claim.sub = b.claim.sub /\ a.claim.edge = b.claim.edge /\ a.gen = b.gen => a.jti = b.jti
=============================================================================
