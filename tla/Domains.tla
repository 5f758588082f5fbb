------------------------------- MODULE Domains -------------------------------
(* Claims on relay hostnames: creation, proof of ownership, payment,         *)
(* expiry, the renewal grace, release and the upgrade of an exact hostname   *)
(* to the wildcard above it (services/subscriptions.py, services/            *)
(* payments.py, api/v1.py).                                                  *)
(*                                                                           *)
(* A request is a sequence of stages, each one transaction or one external   *)
(* call; almost all of them begin by reaping. Names are sequences of labels, *)
(* so that the suffix tests are the code's.                                  *)
EXTENDS Naturals, FiniteSets, Sequences, SequencesExt, TLC

CONSTANTS
    Claims,          \* Subscription rows of the relay product
    Tenants,         \* accounts
    Hostnames,       \* sequences of labels
    ManagedSuffixes, \* RELAY_MANAGED_SUFFIXES
    DomRequests,     \* requests in progress at once
    ClaimTtl,        \* RELAY_DOMAIN_CLAIM_TTL_SECONDS, in ticks
    RenewalGrace,    \* RELAY_RENEWAL_GRACE_SECONDS
    PeriodTicks,     \* the paid period
    InvoiceTicks,    \* the lifetime of an invoice
    RenewLead,       \* NWC_AUTO_RENEW_LEAD_SECONDS
    MaxLiveClaims,   \* ACCOUNT_MAX_NON_CANCELLED_SUBSCRIPTIONS
    MaxUnpaidClaims, \* ACCOUNT_MAX_PENDING_RELAY_CLAIMS
    MaxNow,          \* bound: the clock
    Nil

VARIABLES
    now,
    claim,     \* [Claims -> row]
    bill,      \* [Claims -> its open payment, or NoBill]
    zone,      \* the claims whose challenge record is published
    proven,    \* history: the claims whose challenge a lookup found
    tenantLock,\* [Tenants -> request or Nil]: the User row FOR UPDATE
    nameLock,  \* [BOOLEAN -> request or Nil]: the advisory locks, by managed
    domReq,    \* [DomRequests -> request]
    domBudget  \* events left to happen

domVars == <<now, claim, bill, zone, proven, tenantLock, nameLock, domReq, domBudget>>

NoBill == [st |-> "none"]
NoReq == [op |-> "idle", todo |-> <<>>]
NoRow == [status |-> "none", name |-> Nil]
Live(c) == claim[c].name # Nil

ASSUME DomainsAssumption ==
    /\ {ClaimTtl, RenewalGrace, PeriodTicks, InvoiceTicks} \subseteq Nat \ {0}
    /\ \A n \in Hostnames : n \in Seq(STRING) /\ n # <<>>

\* x is below y.
Under(x, y) == Len(x) > Len(y) /\ IsSuffix(y, x)
IsManaged(name) == \E s \in ManagedSuffixes : Under(name, s)
\* _validate_wildcard_base_domain
WildcardBase(name) ==
    Len(name) >= 2 /\ \A s \in ManagedSuffixes : name # s /\ ~Under(s, name)

----------------------------------------------------------------------------
(* Rows.                                                                     *)

NewRow(u, name, scope, src, free) ==
    [status |-> "pending", user |-> u, name |-> name, scope |-> scope,
     verified |-> IsManaged(name), claimEnd |-> now + ClaimTtl, graceEnd |-> Nil,
     periodEnd |-> Nil, source |-> src, free |-> free,
     sourceEnd |-> IF src = Nil THEN Nil ELSE claim[src].periodEnd]

\* What cancellation, release and replacement leave of a row.
ReleasedRow(row) == [NoRow EXCEPT !.status = "cancelled"]

\* expire_elapsed_subscriptions on the rows of S.
ElapsedClaim(c) == claim[c].status = "active" /\ claim[c].periodEnd <= now
ExpiredClaims(S) == [c \in Claims |->
    IF c \in S /\ ElapsedClaim(c)
    THEN [claim[c] EXCEPT !.status = "expired", !.graceEnd = claim[c].periodEnd + RenewalGrace]
    ELSE claim[c]]

\* domain_payment_eligibility_deadline
EligibleUntil(row) ==
    CASE row.status = "pending" -> row.claimEnd
      [] row.status = "expired" -> row.graceEnd
      [] row.status = "active"  -> row.periodEnd + RenewalGrace

\* A pending upgrade reserves its source.
HasPendingUpgrade(c) == \E t \in Claims : claim[t].status = "pending" /\ claim[t].source = c
UpgradeInitial(c) == claim[c].status = "pending" /\ claim[c].source # Nil

\* The locks an upgrade holds on its source's row until it commits.
RowFree(c) == \A r \in DomRequests : domReq[r].op = "upgrade" /\ Head(domReq[r].todo) = "commit"
                                      => domReq[r].c # c

----------------------------------------------------------------------------
(* Requests.                                                                 *)

At(r, stage) == domReq[r].todo # <<>> /\ Head(domReq[r].todo) = stage
Proceed(r, rec) == domReq' = [domReq EXCEPT ![r] =
    IF Len(rec.todo) = 1 THEN NoReq ELSE [rec EXCEPT !.todo = Tail(@)]]
Finish(r) == domReq' = [domReq EXCEPT ![r] = NoReq]
Unlock(r) ==
    /\ tenantLock' = [u \in Tenants |-> IF tenantLock[u] = r THEN Nil ELSE tenantLock[u]]
    /\ nameLock' = [m \in BOOLEAN |-> IF nameLock[m] = r THEN Nil ELSE nameLock[m]]
NoLocks == UNCHANGED <<tenantLock, nameLock>>
NoWorld == UNCHANGED <<now, zone, domBudget>>

\* reaping leaves its candidates in cands, the one under way in due.
Request(op, todo, c) == [op |-> op, todo |-> todo, c |-> c, cands |-> {}, due |-> Nil, at |-> 0]
Arrive(r, kind, rec) ==
    /\ domReq[r] = NoReq /\ domBudget[kind] > 0
    /\ domBudget' = [domBudget EXCEPT ![kind] = @ - 1]
    /\ domReq' = [domReq EXCEPT ![r] = rec]
    /\ UNCHANGED <<now, claim, bill, zone, proven>> /\ NoLocks

Proof == <<"read", "lookup", "prove">>
Paying == <<"reap", "paylock", "payready", "payinsert">>

\* POST /subscriptions
CreateSubscription(r, u, name, scope) ==
    /\ name \notin ManagedSuffixes
    /\ scope = "wildcard" => WildcardBase(name) /\ ~IsManaged(name)
    /\ Arrive(r, "create", Request("create", <<"reap", "lock", "commit">>, Nil)
                           @@ [user |-> u, name |-> name, scope |-> scope, free |-> FALSE])

\* POST /subscriptions/{id}/wildcard-upgrade; free: the credit covers the price.
CreateWildcardUpgrade(r, c, free) ==
    /\ claim[c].status # "none" /\ Live(c)
    /\ Arrive(r, "upgrade", Request("upgrade", <<"reap", "lock", "commit">>, c)
         @@ [user |-> claim[c].user, name |-> Tail(claim[c].name), scope |-> "wildcard", free |-> free])

\* POST /subscriptions/{id}/verify-domain
VerifyDomain(r, c) ==
    /\ Live(c)
    /\ Arrive(r, "verify", Request("verify", <<"reap">> \o Proof, c) @@ [force |-> FALSE])

\* POST /payments: a lookup first unless the row read here is managed.
CreatePayment(r, c) ==
    LET row == claim[c] IN
    /\ Live(c)
    /\ Arrive(r, "pay", Request("pay", IF IsManaged(row.name) THEN Paying
                                       ELSE <<"reap">> \o Proof \o Paying, c)
                        @@ [force |-> row.verified])

\* _create_due_auto_renewals: a due active row, proven again and checked again.
DueForRenewal(c, before) ==
    /\ claim[c].status = "active" /\ claim[c].periodEnd <= before
    /\ ~HasPendingUpgrade(c)
AutomaticRenewal(r, c) ==
    /\ DueForRenewal(c, now + RenewLead) /\ bill[c] = NoBill
    /\ Arrive(r, "pay", Request("renew", IF IsManaged(claim[c].name) THEN <<"recheck">> \o Paying
                          ELSE <<"reap">> \o Proof \o <<"recheck">> \o Paying, c)
                        @@ [force |-> TRUE, before |-> now + RenewLead])

Recheck(r) ==
    /\ At(r, "recheck")
    /\ Live(domReq[r].c) => tenantLock[claim[domReq[r].c].user] = Nil
    /\ IF DueForRenewal(domReq[r].c, domReq[r].before) /\ bill[domReq[r].c] = NoBill
       THEN Proceed(r, domReq[r]) ELSE Finish(r)
    /\ UNCHANGED <<claim, bill, proven>> /\ NoLocks /\ NoWorld

\* GET /subscriptions and a relay's resolve reap, then expire the rows of the
\* account they are about.
ListSubscriptions(r, u) == Arrive(r, "verify", Request("list", <<"reap", "expire">>, Nil) @@ [user |-> u])
Resolve(r, u) == ListSubscriptions(r, u)
ExpireResolved(r) ==
    LET own == {c \in Claims : claim[c].status = "active" /\ claim[c].user = domReq[r].user} IN
    /\ At(r, "expire") /\ \A c \in own : ElapsedClaim(c) => RowFree(c)
    /\ claim' = ExpiredClaims(own)
    /\ Proceed(r, domReq[r])
    /\ UNCHANGED <<bill, proven>> /\ NoLocks /\ NoWorld

\* What resolve answers with, and the claim a relay's request matches.
Authorized == {c \in Claims : claim[c].status = "active" /\ claim[c].periodEnd > now}
ClaimSubscription(name, scope) == {c \in Authorized : claim[c].name = name /\ claim[c].scope = scope}

----------------------------------------------------------------------------
(* Settlement of a claim's payment, as one transaction.                      *)

\* require_domain_payment_settlement_ready, and activate's own check
SettlementReady(c, created) ==
    LET row == claim[c] IN
    /\ Live(c) /\ row.verified
    /\ EligibleUntil(row) # Nil /\ created <= EligibleUntil(row)

\* The source is still what the upgrade was priced from.
UpgradeReady(c) ==
    LET source == claim[claim[c].source] IN
    /\ source.status \in {"active", "expired"} /\ Live(claim[c].source)
    /\ source.user = claim[c].user /\ source.scope = "exact" /\ ~IsManaged(source.name)
    /\ Tail(source.name) = claim[c].name /\ source.periodEnd = claim[c].sourceEnd

MaySettle(c) == SettlementReady(c, bill[c].created) /\ (UpgradeInitial(c) => UpgradeReady(c))

\* _finalize_payment: activate, or extend an active period; then the source
\* of an upgrade gives its name up.
ActivePeriod(c) == IF claim[c].status = "active" /\ claim[c].periodEnd > now
                   THEN claim[c].periodEnd + PeriodTicks ELSE now + PeriodTicks
SettledClaims(c) == [d \in Claims |->
    IF d = c THEN [claim[c] EXCEPT !.status = "active", !.periodEnd = ActivePeriod(c),
                                   !.claimEnd = Nil, !.graceEnd = Nil]
    ELSE IF UpgradeInitial(c) /\ d = claim[c].source THEN ReleasedRow(claim[d])
    ELSE claim[d]]
SettleRows(c) == RowFree(c) /\ (UpgradeInitial(c) => RowFree(claim[c].source))

\* check_and_settle_payment on a pending payment: settled at the provider, or
\* expired here, or neither. A settlement that is refused is rolled back.
Reconcile(c) ==
    IF bill[c].paid
    THEN IF MaySettle(c)
         THEN SettleRows(c) /\ claim' = SettledClaims(c) /\ bill' = [bill EXCEPT ![c] = NoBill]
         ELSE UNCHANGED <<claim, bill>>
    ELSE /\ bill' = IF bill[c].expires <= now THEN [bill EXCEPT ![c] = NoBill] ELSE bill
         /\ UNCHANGED claim

\* The reconciliation worker.
ReconcilePayment(c) ==
    /\ bill[c].st = "pending" /\ (bill[c].paid \/ bill[c].expires <= now)
    /\ Reconcile(c)
    /\ UNCHANGED <<proven, domReq>> /\ NoLocks /\ NoWorld

----------------------------------------------------------------------------
(* reap_expired_domain_claims                                                *)

\* Rows of before the deadlines were stored get them from their period or
\* creation; here such rows date from the beginning.
Anchored(row) ==
    IF row.status = "pending" /\ row.claimEnd = Nil THEN [row EXCEPT !.claimEnd = ClaimTtl]
    ELSE IF row.status = "expired" /\ row.graceEnd = Nil
         THEN [row EXCEPT !.graceEnd = row.periodEnd + RenewalGrace] ELSE row
Overdue(row, t) ==
    \/ row.status = "pending" /\ row.claimEnd # Nil /\ row.claimEnd <= t
    \/ row.status = "expired" /\ row.graceEnd # Nil /\ row.graceEnd <= t

\* Elapsed rows expire, deadlines are filled in, candidates are selected.
ReapScan(r) ==
    LET rows == [c \in Claims |-> Anchored(ExpiredClaims(Claims)[c])] IN
    /\ At(r, "reap") /\ domReq[r].cands = {} /\ domReq[r].due = Nil
    /\ \A c \in Claims : rows[c] # claim[c] => RowFree(c)
    /\ claim' = rows
    /\ LET due == {c \in Claims : Overdue(rows[c], now)} IN
       IF due = {} THEN Proceed(r, domReq[r])
       ELSE domReq' = [domReq EXCEPT ![r].cands = due, ![r].at = now]
    /\ UNCHANGED <<bill, proven>> /\ NoLocks /\ NoWorld

\* The candidate's open payment is reconciled first; a claim whose payment is
\* being sent, or cannot be reconciled, is retained.
NextCand(r, c, due) ==
    LET left == domReq[r].cands \ {c}
        rec == [domReq[r] EXCEPT !.cands = left, !.due = due] IN
    IF left = {} /\ due = Nil THEN Proceed(r, [rec EXCEPT !.at = 0])
    ELSE domReq' = [domReq EXCEPT ![r] = rec]

ReapRetain(r, c) ==
    /\ At(r, "reap") /\ c \in domReq[r].cands /\ domReq[r].due = Nil
    /\ bill[c].st = "processing" \/ (bill[c].st = "pending" /\ bill[c].paid /\ ~MaySettle(c))
    /\ NextCand(r, c, Nil)
    /\ UNCHANGED <<claim, bill, proven>> /\ NoLocks /\ NoWorld

ReapReconcile(r, c) ==
    /\ At(r, "reap") /\ c \in domReq[r].cands /\ domReq[r].due = Nil
    /\ bill[c].st # "processing"
    /\ bill[c].st = "pending" => (bill[c].paid => MaySettle(c))
    /\ IF bill[c].st = "pending" THEN Reconcile(c) ELSE UNCHANGED <<claim, bill>>
    /\ NextCand(r, c, c)
    /\ UNCHANGED proven /\ NoLocks /\ NoWorld

\* Mutant: the release trusts the scan.
ReapReleaseScanned(r) ==
    LET c == domReq[r].due IN
    /\ At(r, "reap") /\ c # Nil /\ RowFree(c)
    /\ claim' = IF Live(c) THEN [claim EXCEPT ![c] = ReleasedRow(@)] ELSE claim
    /\ NextCand(r, c, Nil)
    /\ UNCHANGED <<bill, proven>> /\ NoLocks /\ NoWorld

\* The conditional release: the row as it is now, the deadline against the
\* time of the scan, and no open payment.
ReapRelease(r) ==
    LET c == domReq[r].due IN
    /\ At(r, "reap") /\ c # Nil /\ RowFree(c)
    /\ claim' = IF Live(c) /\ Overdue(claim[c], domReq[r].at) /\ bill[c] = NoBill
                THEN [claim EXCEPT ![c] = ReleasedRow(@)] ELSE claim
    /\ NextCand(r, c, Nil)
    /\ UNCHANGED <<bill, proven>> /\ NoLocks /\ NoWorld

----------------------------------------------------------------------------
(* Creation.                                                                 *)

\* _relay_domain_conflict, with the claim to leave out
LiveScope(scope, out) == {c \in Claims \ {out} : Live(c) /\ claim[c].scope = scope}
RelayDomainConflict(name, scope, out) ==
    IF scope = "wildcard"
    THEN \/ \E c \in LiveScope("wildcard", out) :
              claim[c].name = name \/ Under(claim[c].name, name) \/ Under(name, claim[c].name)
         \/ \E c \in LiveScope("exact", out) : Under(claim[c].name, name)
    ELSE \E c \in LiveScope("wildcard", out) : Under(name, claim[c].name)

\* The account's limits; an upgrade may exceed the first by one.
WithinLimits(u, extra) ==
    LET own == {c \in Claims : claim[c].status \notin {"none", "cancelled"} /\ claim[c].user = u} IN
    /\ Cardinality(own) < MaxLiveClaims + extra
    /\ Cardinality({c \in own : claim[c].status = "pending"}) < MaxUnpaidClaims

\* Only an active exact customer name with time left and no open payment.
Upgradable(c) ==
    LET row == claim[c] IN
    /\ Live(c) /\ row.scope = "exact" /\ row.status = "active" /\ ~IsManaged(row.name)
    /\ row.periodEnd > now /\ WildcardBase(Tail(row.name))
    /\ ~HasPendingUpgrade(c) /\ bill[c] = NoBill

\* Mutant: the checks are made before the advisory lock is taken.
LockNameChecksFirst(r) ==
    LET q == domReq[r] IN
    /\ At(r, "lock") /\ tenantLock[q.user] = Nil
    /\ IF /\ q.op = "upgrade" => Upgradable(q.c)
          /\ WithinLimits(q.user, IF q.op = "upgrade" THEN 1 ELSE 0)
          /\ \A c \in Claims : claim[c].name # q.name
          /\ ~RelayDomainConflict(q.name, q.scope, q.c)
       THEN Proceed(r, q) /\ tenantLock' = [tenantLock EXCEPT ![q.user] = r]
       ELSE Finish(r) /\ UNCHANGED tenantLock
    /\ UNCHANGED <<claim, bill, proven, nameLock>> /\ NoWorld

\* The account's row and the advisory lock are held from here to the commit.
LockName(r) ==
    LET q == domReq[r] IN
    /\ At(r, "lock")
    /\ tenantLock[q.user] = Nil /\ nameLock[IsManaged(q.name)] = Nil
    /\ IF /\ q.op = "upgrade" => Upgradable(q.c)
          /\ WithinLimits(q.user, IF q.op = "upgrade" THEN 1 ELSE 0)
          /\ \A c \in Claims : claim[c].name # q.name
          /\ ~RelayDomainConflict(q.name, q.scope, q.c)
       THEN /\ Proceed(r, q)
            /\ tenantLock' = [tenantLock EXCEPT ![q.user] = r]
            /\ nameLock' = [nameLock EXCEPT ![IsManaged(q.name)] = r]
       ELSE Finish(r) /\ NoLocks
    /\ UNCHANGED <<claim, bill, proven>> /\ NoWorld

\* The insert; the name is unique.
CommitClaim(r) ==
    LET q == domReq[r] IN
    /\ At(r, "commit")
    /\ \E c \in Claims : claim[c].status = "none"
    /\ LET c == CHOOSE c \in Claims : claim[c].status = "none" IN
       claim' = IF \A d \in Claims : claim[d].name # q.name
                THEN [claim EXCEPT ![c] = NewRow(q.user, q.name, q.scope, q.c, q.free)] ELSE claim
    /\ Finish(r) /\ Unlock(r)
    /\ UNCHANGED <<bill, proven>> /\ NoWorld

\* DELETE /subscriptions/{id}: cancel_pending_subscription's last transaction.
CancelClaim(c) ==
    /\ claim[c].status = "pending" /\ bill[c] = NoBill /\ tenantLock[claim[c].user] = Nil
    /\ domBudget.cancel > 0 /\ domBudget' = [domBudget EXCEPT !.cancel = @ - 1]
    /\ claim' = [claim EXCEPT ![c] = ReleasedRow(@)]
    /\ UNCHANGED <<now, bill, zone, proven, domReq>> /\ NoLocks

----------------------------------------------------------------------------
(* Proof of ownership: verify_subscription_domain after its reaping.         *)

\* Managed and proven claims need no lookup; a settled claim is proven only
\* again (force).
VerifyRead(r) ==
    LET q == domReq[r]
        row == claim[q.c] IN
    /\ At(r, "read")
    /\ CASE ~Live(q.c) -> Finish(r)
         [] Live(q.c) /\ row.verified /\ ~q.force -> Proceed(r, [q EXCEPT !.todo = Tail(Tail(@))])
         [] Live(q.c) /\ ~row.verified /\ row.status # "pending" /\ ~q.force -> Finish(r)
         [] OTHER -> Proceed(r, [known |-> row.verified] @@ q)
    /\ UNCHANGED <<claim, bill, proven>> /\ NoLocks /\ NoWorld

\* Mutant: an answer without the challenge counts.
LookupAny(r) ==
    /\ At(r, "lookup") /\ Proceed(r, domReq[r])
    /\ UNCHANGED <<claim, bill, proven>> /\ NoLocks /\ NoWorld

\* The resolver's answer; DomainVerification is its other half.
Lookup(r) ==
    LET c == domReq[r].c IN
    /\ At(r, "lookup")
    /\ IF c \in zone THEN proven' = proven \cup {c} /\ Proceed(r, domReq[r])
       ELSE UNCHANGED proven /\ Finish(r)
    /\ UNCHANGED <<claim, bill>> /\ NoLocks /\ NoWorld

\* A repeated proof is written to the row whatever became of it; a first one
\* only while the claim is pending and in time.
Prove(r) ==
    LET q == domReq[r]
        row == claim[q.c]
        first == row.status = "pending" /\ ~row.verified /\ row.claimEnd > now IN
    /\ At(r, "prove") /\ RowFree(q.c)
    /\ IF q.force /\ q.known THEN UNCHANGED claim /\ Proceed(r, q)
       ELSE IF first THEN claim' = [claim EXCEPT ![q.c].verified = TRUE] /\ Proceed(r, q)
       ELSE UNCHANGED claim /\ Finish(r)
    /\ UNCHANGED <<bill, proven>> /\ NoLocks /\ NoWorld

----------------------------------------------------------------------------
(* Payment: create_payment after its reaping.                                *)

\* An open payment is reconciled; it is returned or refused if still open.
PayExisting(r) ==
    LET c == domReq[r].c IN
    /\ At(r, "paylock") /\ bill[c] # NoBill
    /\ IF bill[c].st = "pending" THEN Reconcile(c) ELSE UNCHANGED <<claim, bill>>
    /\ IF bill'[c] = NoBill THEN UNCHANGED domReq ELSE Finish(r)
    /\ UNCHANGED proven /\ NoLocks /\ NoWorld

\* The account's row is locked; a source reserved by an upgrade does not renew.
PayLock(r) ==
    LET c == domReq[r].c IN
    /\ At(r, "paylock") /\ bill[c] = NoBill
    /\ IF Live(c) /\ ~HasPendingUpgrade(c)
       THEN /\ tenantLock[claim[c].user] = Nil
            /\ tenantLock' = [tenantLock EXCEPT ![claim[c].user] = r]
            /\ Proceed(r, domReq[r])
       ELSE Finish(r) /\ UNCHANGED tenantLock
    /\ UNCHANGED <<claim, bill, proven, nameLock>> /\ NoWorld

\* require_domain_payment_ready
PaymentReady(row) ==
    /\ row.name # Nil /\ row.verified
    /\ row.status = "active" \/ EligibleUntil(row) > now
\* _payment_eligibility_deadline
PayableUntil(row) ==
    IF row.source # Nil /\ row.sourceEnd < EligibleUntil(row) THEN row.sourceEnd
    ELSE EligibleUntil(row)

\* expire_elapsed_subscriptions on this row, or a hold of another account
\* that reap_elapsed_resource_holds releases, commits, and the lock is gone.
PayReady(r) ==
    LET c == domReq[r].c
        rows == ExpiredClaims({c}) IN
    /\ At(r, "payready") /\ RowFree(c)
    /\ claim' = rows
    /\ IF PaymentReady(rows[c]) THEN
         /\ Proceed(r, [created |-> now, until |-> PayableUntil(rows[c])] @@ domReq[r])
         /\ \/ Unlock(r)
            \/ rows = claim /\ NoLocks
       ELSE Finish(r) /\ Unlock(r)
    /\ UNCHANGED <<bill, proven>> /\ NoWorld

\* The insert: one open payment for a claim, its invoice within the claim's
\* eligibility. A fully credited upgrade settles in the same transaction.
PayInsert(r) ==
    LET q == domReq[r]
        c == q.c
        open == [st |-> "pending", paid |-> FALSE, created |-> q.created,
                 expires |-> IF q.until < now + InvoiceTicks THEN q.until ELSE now + InvoiceTicks] IN
    /\ At(r, "payinsert")
    /\ IF bill[c] # NoBill THEN UNCHANGED <<claim, bill>>
       ELSE IF Live(c) /\ UpgradeInitial(c) /\ claim[c].free
       THEN /\ SettleRows(c)
            /\ claim' = IF SettlementReady(c, q.created) /\ UpgradeReady(c) THEN SettledClaims(c) ELSE claim
            /\ UNCHANGED bill
       ELSE /\ bill' = IF q.until > now THEN [bill EXCEPT ![c] = open] ELSE bill
            /\ UNCHANGED claim
    /\ Finish(r) /\ Unlock(r)
    /\ UNCHANGED proven /\ NoWorld

\* A wallet's send holds the payment; its end settles it or gives it back.
WalletStarts(c) ==
    /\ bill[c].st = "pending" /\ bill[c].expires > now
    /\ domBudget.wallet > 0 /\ domBudget' = [domBudget EXCEPT !.wallet = @ - 1]
    /\ bill' = [bill EXCEPT ![c].st = "processing"]
    /\ UNCHANGED <<now, claim, zone, proven, domReq>> /\ NoLocks
WalletEnds(c) ==
    /\ bill[c].st = "processing"
    /\ IF bill[c].paid /\ MaySettle(c)
       THEN SettleRows(c) /\ claim' = SettledClaims(c) /\ bill' = [bill EXCEPT ![c] = NoBill]
       ELSE bill' = [bill EXCEPT ![c].st = "pending"] /\ UNCHANGED claim
    /\ UNCHANGED <<proven, domReq>> /\ NoLocks /\ NoWorld

----------------------------------------------------------------------------
(* The customer, the clock, the behaviour.                                   *)

PayInvoice(c) ==
    /\ bill[c] # NoBill /\ ~bill[c].paid /\ bill[c].expires > now
    /\ bill' = [bill EXCEPT ![c].paid = TRUE]
    /\ UNCHANGED <<claim, proven, domReq>> /\ NoLocks /\ NoWorld

\* The challenge record is published or taken down.
Publish(c) ==
    /\ Live(c) /\ domBudget.publish > 0
    /\ domBudget' = [domBudget EXCEPT !.publish = @ - 1]
    /\ zone' = IF c \in zone THEN zone \ {c} ELSE zone \cup {c}
    /\ UNCHANGED <<now, claim, bill, proven, domReq>> /\ NoLocks

DomTick ==
    /\ now < MaxNow /\ now' = now + 1
    /\ UNCHANGED <<claim, bill, zone, proven, domReq, domBudget>> /\ NoLocks

\* The claims, the zone and the events are the instance's.
DomInit ==
    /\ now = 0
    /\ bill = [c \in Claims |-> NoBill]
    /\ tenantLock = [u \in Tenants |-> Nil]
    /\ nameLock = [m \in BOOLEAN |-> Nil]
    /\ domReq = [r \in DomRequests |-> NoReq]

Calls(r) ==
    \/ \E u \in Tenants, n \in Hostnames, s \in {"exact", "wildcard"} : CreateSubscription(r, u, n, s)
    \/ \E c \in Claims :
        \/ \E free \in BOOLEAN : CreateWildcardUpgrade(r, c, free)
        \/ VerifyDomain(r, c)
        \/ CreatePayment(r, c)
        \/ AutomaticRenewal(r, c)
    \/ \E u \in Tenants : ListSubscriptions(r, u) \/ Resolve(r, u)
Steps(r) ==
    \/ ExpireResolved(r)
    \/ ReapScan(r)
    \/ \E c \in Claims : ReapRetain(r, c) \/ ReapReconcile(r, c)
    \/ ReapRelease(r)
    \/ LockName(r)
    \/ CommitClaim(r)
    \/ VerifyRead(r)
    \/ Lookup(r)
    \/ Prove(r)
    \/ Recheck(r)
    \/ PayExisting(r)
    \/ PayLock(r)
    \/ PayReady(r)
    \/ PayInsert(r)
Elsewhere(c) ==
    \/ ReconcilePayment(c)
    \/ CancelClaim(c)
    \/ WalletStarts(c)
    \/ WalletEnds(c)
    \/ PayInvoice(c)
    \/ Publish(c)

DomNext ==
    \/ \E r \in DomRequests : Calls(r) \/ Steps(r)
    \/ \E c \in Claims : Elsewhere(c)
    \/ DomTick

----------------------------------------------------------------------------
(* Properties.                                                               *)

Covers(c, name) ==
    IF claim[c].scope = "exact" THEN claim[c].name = name
    ELSE claim[c].name = name \/ Under(name, claim[c].name)

\* No hostname belongs to two claims, whatever requests raced to create them
\* and however names were released and claimed again. The one exception is
\* an upgrade still waiting for its payment and the claim it will replace,
\* of one account. The relays are never told two claims for a hostname, also
\* while an upgrade settles (_relay_domain_conflict, _finalize_payment,
\* _resolve).
ClaimsDisjoint ==
    /\ \A c, d \in Claims : c # d /\ Live(c) /\ Live(d)
         /\ (\E n \in Hostnames : Covers(c, n) /\ Covers(d, n))
         => \E t \in {c, d} : /\ UpgradeInitial(t) /\ claim[t].source \in {c, d} \ {t}
                             /\ claim[c].user = claim[d].user
    /\ \A n \in Hostnames : Cardinality({c \in Authorized : Covers(c, n)}) <= 1
    /\ \A n \in Hostnames, s \in {"exact", "wildcard"} : Cardinality(ClaimSubscription(n, s)) <= 1

\* A customer's own hostname is authorized only after a lookup found this
\* claim's challenge: neither another claim's proof nor one of an earlier
\* holder of the name serves (verify_subscription_domain, create_payment).
OwnershipProven ==
    \A c \in Claims : claim[c].status = "active" /\ ~IsManaged(claim[c].name) => c \in proven

\* A name is taken from its claim only when the claim's deadline has passed
\* and no payment is open, or by its holder's cancellation of an unpaid claim,
\* or by the settlement of its own upgrade: a reaper that decided before a
\* payment settled or a renewal came does not release what it renewed
\* (reap_expired_domain_claims).
ReleasedOnlyWhenDue ==
    [][\A c \in Claims : Live(c) /\ ~Live(c)' =>
         \/ Overdue(Anchored(claim[c]), now) /\ bill[c] = NoBill
         \/ claim[c].status = "pending" /\ domBudget'.cancel < domBudget.cancel
         \/ \E t \in Claims : UpgradeInitial(t) /\ claim[t].source = c /\ claim'[t].status = "active"
       ]_domVars

=============================================================================
