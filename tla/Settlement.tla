----------------------------- MODULE Settlement -----------------------------
(***************************************************************************)
(* Payment settlement for the scarce products (dedicated IPs and shared    *)
(* ports): services/payments.py, services/subscriptions.py and             *)
(* services/ip_leases.py for payments that an LND invoice backs.           *)
(*                                                                         *)
(* The database rows are shared.  Every replica runs workers (request      *)
(* handlers and the reconciler) whose handlers are cut into steps exactly  *)
(* where another session can get in between: at a commit, at a provider    *)
(* call, and between loading a subscription row without a lock and         *)
(* writing it back.  A worker may stop after any step (Crash): what it has *)
(* not committed is rolled back.                                           *)
(***************************************************************************)
EXTENDS Integers, FiniteSets

CONSTANTS
    Subs,        \* subscriptions of a scarce product
    Accounts,    \* accounts, whose rows handlers lock
    Owner,       \* the account of each subscription
    Product,     \* "ip" or "port", per subscription
    Payments,    \* payment ids
    Addrs,       \* assignments: dedicated addresses and shared (ip, port) pairs
    Inventory,   \* the assignments configured for each product
    PortCapacity,\* PORT_TCP_CAPACITY: most shared ports that may be held
    Legacy,      \* subscriptions whose quarantine predates the renewal window
    Workers,     \* concurrent sessions
    None,
    MaxOpen,     \* ACCOUNT_MAX_OPEN_PAYMENTS
    MaxTime,     \* bound on the clock
    Period,      \* length of one paid period
    Window,      \* the seven-day renewal window after a period
    Quarantine,  \* reuse quarantine
    ResTTL,      \* RESOURCE_RESERVATION_TTL_SECONDS
    InvoiceTTL,  \* LND_INVOICE_EXPIRY_SECONDS
    Safety,      \* PAYMENT_EXPIRY_SAFETY_SECONDS
    MinPayable   \* PAYMENT_MIN_PAYABLE_SECONDS

ASSUME NoneAssumption ==
    /\ None \notin Payments /\ None \notin Addrs
    /\ None \notin Subs /\ None \notin Workers
ASSUME OwnerAssumption == Owner \in [Subs -> Accounts]
ASSUME ProductAssumption ==
    /\ Product \in [Subs -> {"ip", "port"}]
    /\ Inventory \in [{"ip", "port"} -> SUBSET Addrs]
    /\ Legacy \subseteq Subs
ASSUME TimeAssumption ==
    /\ MaxTime \in Nat /\ Window \in Nat /\ Quarantine \in Nat
    /\ ResTTL \in Nat /\ Safety \in Nat
    /\ Period \in Nat \ {0} /\ InvoiceTTL \in Nat \ {0} /\ MinPayable \in Nat \ {0}
ASSUME LimitAssumption == MaxOpen \in Nat /\ PortCapacity \in Nat

NoTime == -1     \* a NULL timestamp

VARIABLES
    now,        \* _utcnow()
    sub,        \* rows of the subscription table
    lease,      \* the unreleased IPLease of each subscription
    pay,        \* rows of the payment table
    invoice,    \* what LND holds for each payment hash
    rowLock,    \* payment row locks held by open transactions
    acctLock,   \* user rows locked with FOR UPDATE
    worker      \* control state of the sessions

vars == <<now, sub, lease, pay, invoice, rowLock, acctLock, worker>>

-----------------------------------------------------------------------------
(* Rows *)

Time == Nat \cup {NoTime}

SubRow == [status   : {"pending", "active", "expired", "cancelled"},
           assigned : Addrs \cup {None},
           resUntil : Time,                 \* reservation_expires_at
           resPay   : Payments \cup {None}, \* reservation_payment_id
           quar     : Time,                 \* resource_quarantined_until
           pend     : Time]                 \* current_period_end

PayRow == [status  : {"unused", "pending", "paid", "expired"},
           sub     : Subs \cup {None},
           created : Time,
           expires : Time,
           bound   : BOOLEAN]               \* invoice column is set

LeaseRow == [state : {"none", "reserved", "active", "quarantined"},
             addr  : Addrs \cup {None},
             until : Time]

\* The provider's invoice: payable until its own expiry.
Invoice == [state : {"none", "open", "settled"}, until : Time]
NoInvoice == [state |-> "none", until |-> NoTime]

NewSub == [status |-> "pending", assigned |-> None, resUntil |-> NoTime,
           resPay |-> None, quar |-> NoTime, pend |-> NoTime]
NewPay == [status |-> "unused", sub |-> None, created |-> NoTime,
           expires |-> NoTime, bound |-> FALSE]
NoLease == [state |-> "none", addr |-> None, until |-> NoTime]

Steps == {"idle", "issue", "poll", "decide", "grant", "lock", "expire",
          "reapq", "reapq2", "reapr", "reapr2", "insert", "cancel"}

\* pc: next step.  ret: where a settlement started from inside another handler
\* returns to.  s: subscription being paid or cancelled.  x: subscription being
\* reaped.  p: payment being settled.  t: the reaper's captured now.  dl: its
\* captured deadline.  seen: the provider's answer.  snap: a loaded row.
WorkerState ==
    [pc : Steps, ret : {"idle", "lock", "reapq2", "reapr", "cancel"},
     s : Subs \cup {None}, x : Subs \cup {None}, p : Payments \cup {None},
     t : Time, dl : Time, todo : SUBSET Subs, seen : BOOLEAN, snap : SubRow]

Idle == [pc |-> "idle", ret |-> "idle", s |-> None, x |-> None, p |-> None,
         t |-> NoTime, dl |-> NoTime, todo |-> {}, seen |-> FALSE, snap |-> NewSub]

TypeOK ==
    /\ now \in Nat
    /\ sub \in [Subs -> SubRow]
    /\ lease \in [Subs -> LeaseRow]
    /\ pay \in [Payments -> PayRow]
    /\ invoice \in [Payments -> Invoice]
    /\ rowLock \in [Payments -> Workers \cup {None}]
    /\ acctLock \in [Accounts -> Workers \cup {None}]
    /\ worker \in [Workers -> WorkerState]

\* A legacy row: it expired at time 0 and holds its assignment for the shorter
\* safety quarantine only.
LegacySub(a) == [NewSub EXCEPT !.status = "expired", !.assigned = a,
                               !.quar = Quarantine, !.pend = 0]
LegacyLease(s, a) ==
    IF Product[s] = "ip"
    THEN [state |-> "quarantined", addr |-> a, until |-> Quarantine] ELSE NoLease

Init ==
    /\ now = 0
    /\ \E f \in [Legacy -> Addrs] :
          /\ \A s \in Legacy : f[s] \in Inventory[Product[s]]
          /\ \A s, t \in Legacy : s # t => f[s] # f[t]
          /\ sub = [s \in Subs |-> IF s \in Legacy THEN LegacySub(f[s]) ELSE NewSub]
          /\ lease = [s \in Subs |-> IF s \in Legacy THEN LegacyLease(s, f[s]) ELSE NoLease]
    /\ pay = [p \in Payments |-> NewPay]
    /\ invoice = [p \in Payments |-> NoInvoice]
    /\ rowLock = [p \in Payments |-> None]
    /\ acctLock = [a \in Accounts |-> None]
    /\ worker = [w \in Workers |-> Idle]
-----------------------------------------------------------------------------
(* Reading the tables *)

OpenPayments(s) == {p \in Payments : pay[p].status = "pending" /\ pay[p].sub = s}

MinTime(a, b) == IF a < b THEN a ELSE b
MaxOf(a, b) == IF a > b THEN a ELSE b

\* _payment_eligibility_deadline for a scarce product.
EligibilityDeadline(row) ==
    LET hold == IF row.status = "expired" THEN row.quar ELSE NoTime
    IN  IF row.resUntil = NoTime THEN hold
        ELSE IF hold = NoTime THEN row.resUntil ELSE MinTime(row.resUntil, hold)

\* _bounded_invoice_expiry: how long an invoice may run, 0 if it may not be issued.
BoundedExpiry(deadline) ==
    IF deadline = NoTime THEN InvoiceTTL
    ELSE IF deadline - now - Safety < MinPayable THEN 0
    ELSE MinTime(InvoiceTTL, deadline - now - Safety)

\* What the ORM writes at a flush: the columns whose value differs from the
\* value the session loaded.  Other columns keep what the table holds.
Dirty(stored, loaded, edited) == IF edited # loaded THEN edited ELSE stored
Flush(row, loaded, edited) ==
    [status   |-> Dirty(row.status, loaded.status, edited.status),
     assigned |-> Dirty(row.assigned, loaded.assigned, edited.assigned),
     resUntil |-> Dirty(row.resUntil, loaded.resUntil, edited.resUntil),
     resPay   |-> Dirty(row.resPay, loaded.resPay, edited.resPay),
     quar     |-> Dirty(row.quar, loaded.quar, edited.quar),
     pend     |-> Dirty(row.pend, loaded.pend, edited.pend)]

-----------------------------------------------------------------------------
(* Row edits *)

MayRelease(row, p) ==
    row.status # "active" /\ row.resPay = p /\ row.resUntil # NoTime

Unassigned(row) == [row EXCEPT !.assigned = None, !.resUntil = NoTime, !.resPay = None]

\* release_reservation: only the unpaid reservation that payment p owns.
ReleaseReservation(row, p) == IF MayRelease(row, p) THEN Unassigned(row) ELSE row

IsElapsed(row) == row.status = "active" /\ row.pend <= now

HoldUntil(row) == MaxOf(now + Quarantine, row.pend + Window)

\* expire_elapsed_subscriptions on one row.
Elapse(row) ==
    [row EXCEPT !.status = "expired", !.resUntil = NoTime, !.resPay = None,
                !.quar = IF row.assigned = None THEN @ ELSE HoldUntil(row)]

IsReturning(row, p) == row.pend # NoTime   \* mutant: any earlier period makes a renewal

\* The branch _finalize_payment takes.
IsRenewal(row, p) ==
    \/ row.status = "active"
    \/ /\ row.quar # NoTime
       /\ row.resPay = None
       /\ \/ row.pend # NoTime /\ pay[p].created <= row.pend
          \/ pay[p].created <= row.quar

Renewed(row) ==
    [row EXCEPT !.status = "active", !.quar = NoTime,
                !.pend = MaxOf(row.pend, now) + Period]

MayActivate(row, p) == row.resPay = p /\ row.assigned # None

Activated(row) ==
    [row EXCEPT !.status = "active", !.quar = NoTime, !.resUntil = NoTime,
                !.resPay = None, !.pend = now + Period]

\* The lease of s, as ip_leases.activate and quarantine need and change it.
LeaseUsable(s, addr) ==
    \/ Product[s] = "port"
    \/ lease[s].state # "none" /\ lease[s].addr = addr
LeaseActiveFromReservation(s) ==       \* mutant: a quarantined lease is left as it is
    IF lease[s].state = "reserved"
    THEN [lease[s] EXCEPT !.state = "active", !.until = NoTime] ELSE lease[s]
LeaseActive(s) ==
    IF Product[s] = "port" THEN lease[s]
    ELSE [lease[s] EXCEPT !.state = "active", !.until = NoTime]
LeaseQuarantined(s, until) ==
    IF Product[s] = "port" \/ lease[s].state = "none" THEN lease[s]
    ELSE [lease[s] EXCEPT !.state = "quarantined", !.until = until]

-----------------------------------------------------------------------------
(* Session plumbing *)

\* A commit or a rollback ends the transaction and drops its account lock.
Unlock(w) == [a \in Accounts |-> IF acctLock[a] = w THEN None ELSE acctLock[a]]

At(w, pc) == worker[w].pc = pc
Become(w, st) == worker' = [worker EXCEPT ![w] = st]
Goto(w, pc) == Become(w, [worker[w] EXCEPT !.pc = pc])

\* Where check_and_settle_payment returns to.
Returned(w) ==
    IF worker[w].ret = "idle" THEN Idle
    ELSE [worker[w] EXCEPT !.pc = worker[w].ret, !.ret = "idle", !.seen = FALSE, !.snap = NewSub]

\* Call check_and_settle_payment on p and come back at step ret.
Settle(w, p, ret) == [worker[w] EXCEPT !.pc = "issue", !.ret = ret, !.p = p]
-----------------------------------------------------------------------------
(* check_and_settle_payment *)

\* The reconciler, a status poll or a page load picks a pending payment.
StartSettle(w, p) ==
    /\ At(w, "idle")
    /\ pay[p].status = "pending"
    /\ Become(w, Settle(w, p, "idle"))
    /\ UNCHANGED <<now, sub, lease, pay, invoice, rowLock, acctLock>>

\* Mutant: the update is not conditional on PENDING.
ExpirePaymentUnconditionally(w, p) ==
    /\ pay' = [pay EXCEPT ![p].status = "expired"]
    /\ acctLock' = Unlock(w)
    /\ Become(w, Returned(w))
    /\ UNCHANGED <<now, sub, lease, invoice, rowLock>>

\* _expire_payment: the conditional update, the release and the commit.
ExpirePayment(w, p) ==
    LET s == pay[p].sub IN
    /\ rowLock[p] = None
    /\ pay[p].status = "pending"
    /\ pay' = [pay EXCEPT ![p].status = "expired"]
    /\ sub' = [sub EXCEPT ![s] = ReleaseReservation(@, p)]
    /\ lease' = [lease EXCEPT ![s] = IF MayRelease(sub[s], p) THEN NoLease ELSE @]
    /\ acctLock' = Unlock(w)
    /\ Become(w, Returned(w))
    /\ UNCHANGED <<now, invoice, rowLock>>

\* Mutant: a payment whose invoice exists is never polled.
IssueNothingReturns(w) ==
    /\ At(w, "issue")
    /\ pay[worker[w].p].status # "pending" \/ pay[worker[w].p].bound
    /\ Become(w, Returned(w))
    /\ UNCHANGED <<now, sub, lease, pay, invoice, rowLock, acctLock>>

\* ensure_lightning_invoice when there is nothing to issue.
IssueNothing(w) ==
    LET p == worker[w].p IN
    /\ At(w, "issue")
    /\ pay[p].status # "pending" \/ pay[p].bound
    /\ IF pay[p].status = "pending" THEN Goto(w, "poll") ELSE Become(w, Returned(w))
    /\ UNCHANGED <<now, sub, lease, pay, invoice, rowLock, acctLock>>

Unissued(w) ==
    /\ At(w, "issue")
    /\ rowLock[worker[w].p] = None
    /\ pay[worker[w].p].status = "pending"
    /\ ~pay[worker[w].p].bound

\* The checkout window closed before an invoice was ever created.
IssueExpired(w) ==
    LET p == worker[w].p IN
    /\ Unissued(w)
    /\ pay[p].expires <= now
    /\ invoice[p].state = "none"
    /\ ExpirePayment(w, p)

\* create_or_lookup_invoice: LND creates the invoice of a hash once.
Looked(p) ==
    IF invoice[p].state = "none"
    THEN [state |-> "open", until |-> pay[p].expires] ELSE invoice[p]

\* _bind_invoice
BoundExpiry(p) ==
    LET provider == MaxOf(now, Looked(p).until)
        deadline == EligibilityDeadline(sub[pay[p].sub])
    IN  IF deadline = NoTime THEN provider ELSE MinTime(provider, deadline)

Issue(w) ==
    LET p == worker[w].p IN
    /\ Unissued(w)
    /\ pay[p].expires > now \/ invoice[p].state # "none"
    /\ invoice' = [invoice EXCEPT ![p] = Looked(p)]
    /\ pay' = [pay EXCEPT ![p].bound = TRUE, ![p].expires = BoundExpiry(p)]
    /\ acctLock' = Unlock(w)
    /\ Goto(w, "poll")
    /\ UNCHANGED <<now, sub, lease, rowLock>>

\* The process stops after LND created the invoice and before it is bound.
IssueCrash(w) ==
    LET p == worker[w].p IN
    /\ Unissued(w)
    /\ pay[p].expires > now
    /\ invoice[p].state = "none"
    /\ invoice' = [invoice EXCEPT ![p] = Looked(p)]
    /\ acctLock' = Unlock(w)
    /\ Become(w, Idle)
    /\ UNCHANGED <<now, sub, lease, pay, rowLock>>

\* Mutant: an invoice that exists counts as paid.
PollKnownInvoice(w) ==
    /\ At(w, "poll")
    /\ Become(w, [worker[w] EXCEPT !.pc = "decide", !.seen = TRUE])
    /\ UNCHANGED <<now, sub, lease, pay, invoice, rowLock, acctLock>>

\* is_invoice_paid
Poll(w) ==
    /\ At(w, "poll")
    /\ Become(w, [worker[w] EXCEPT !.pc = "decide",
                                   !.seen = invoice[worker[w].p].state = "settled"])
    /\ UNCHANGED <<now, sub, lease, pay, invoice, rowLock, acctLock>>

\* Mutant: the status is set without the condition on the old one.
FinalizeUnconditionally(w) ==
    /\ At(w, "decide")
    /\ worker[w].seen
    /\ Become(w, [worker[w] EXCEPT !.pc = "grant", !.snap = sub[pay[worker[w].p].sub]])
    /\ UNCHANGED <<now, sub, lease, pay, invoice, rowLock, acctLock>>

\* _finalize_payment up to the load of the subscription: the conditional update
\* locks the payment row, the subscription row is read without a lock.
Finalize(w) ==
    LET p == worker[w].p IN
    /\ At(w, "decide")
    /\ worker[w].seen
    /\ rowLock[p] = None
    /\ pay[p].status = "pending"
    /\ rowLock' = [rowLock EXCEPT ![p] = w]
    /\ Become(w, [worker[w] EXCEPT !.pc = "grant", !.snap = sub[pay[p].sub]])
    /\ UNCHANGED <<now, sub, lease, pay, invoice, acctLock>>

\* Local expiry, once the provider did not report a settlement.
DecideExpired(w) ==
    /\ At(w, "decide")
    /\ ~worker[w].seen
    /\ pay[worker[w].p].expires <= now
    /\ ExpirePayment(w, worker[w].p)

\* The payment is still open, or another session resolved it first (the
\* conditional update matches no row and the session rolls back).
DecideNothing(w) ==
    LET p == worker[w].p IN
    /\ At(w, "decide")
    /\ rowLock[p] = None
    /\ \/ /\ worker[w].seen \/ pay[p].expires <= now
          /\ pay[p].status # "pending"
          /\ acctLock' = Unlock(w)
       \/ /\ ~worker[w].seen /\ pay[p].expires > now
          /\ UNCHANGED acctLock
    /\ Become(w, Returned(w))
    /\ UNCHANGED <<now, sub, lease, pay, invoice, rowLock>>

\* The rest of _finalize_payment: renew or activate from the loaded row, flush
\* and commit together with the payment's PAID status.
Granted(row, p) == IF IsRenewal(row, p) THEN Renewed(row) ELSE Activated(row)
MayGrant(row, p) ==
    /\ IsRenewal(row, p) \/ MayActivate(row, p)
    /\ LeaseUsable(pay[p].sub, row.assigned)

Grant(w) ==
    LET p == worker[w].p
        s == pay[p].sub
        snap == worker[w].snap
    IN
    /\ At(w, "grant")
    /\ MayGrant(snap, p)
    /\ pay' = [pay EXCEPT ![p].status = "paid"]
    /\ sub' = [sub EXCEPT ![s] = Flush(@, snap, Granted(snap, p))]
    /\ lease' = [lease EXCEPT ![s] = LeaseActive(s)]
    /\ rowLock' = [rowLock EXCEPT ![p] = None]
    /\ acctLock' = Unlock(w)
    /\ Become(w, Returned(w))
    /\ UNCHANGED <<now, invoice>>

\* An exception leaves check_and_settle_payment: the quarantine pass of the reaper
\* swallows it and goes on, every other caller fails.
Failed(w) ==
    IF worker[w].ret = "reapq2"
    THEN [worker[w] EXCEPT !.pc = "reapq", !.ret = "idle", !.x = None, !.p = None,
                           !.dl = NoTime, !.seen = FALSE, !.snap = NewSub]
    ELSE Idle

\* PaymentProviderError: LND cannot be reached.
ProviderFails(w) ==
    /\ Unissued(w) \/ At(w, "poll")
    /\ acctLock' = Unlock(w)
    /\ Become(w, Failed(w))
    /\ UNCHANGED <<now, sub, lease, pay, invoice, rowLock>>

\* NoCapacityError or a lost lease: roll back.
GrantFails(w) ==
    LET p == worker[w].p IN
    /\ At(w, "grant")
    /\ ~MayGrant(worker[w].snap, p)
    /\ rowLock' = [rowLock EXCEPT ![p] = None]
    /\ acctLock' = Unlock(w)
    /\ Become(w, Failed(w))
    /\ UNCHANGED <<now, sub, lease, pay, invoice>>
-----------------------------------------------------------------------------
(* create_payment *)

\* An open payment of the subscription is settled or expired first.
StartCreate(w, s) ==
    /\ At(w, "idle")
    /\ \/ /\ OpenPayments(s) = {}
          /\ Become(w, [Idle EXCEPT !.pc = "lock", !.s = s])
       \/ \E p \in OpenPayments(s) :
             Become(w, [Settle(w, p, "lock") EXCEPT !.s = s])
    /\ UNCHANGED <<now, sub, lease, pay, invoice, rowLock, acctLock>>

\* The payments that count against ACCOUNT_MAX_OPEN_PAYMENTS.
AccountLoad(a) ==
    UNION {OpenPayments(s) : s \in {t \in Subs : Owner[t] = a}}
        \cup ({sub[s].resPay : s \in {t \in Subs : Owner[t] = a}} \ {None})

\* SELECT ... FOR UPDATE on the account, then the open-payment limit.
LockAccount(w) ==
    LET a == Owner[worker[w].s]
        p == worker[w].p
        returnsExisting == p # None /\ pay[p].status = "pending"
    IN
    /\ At(w, "lock")
    /\ \/ returnsExisting /\ Become(w, Idle) /\ UNCHANGED acctLock
       \/ /\ ~returnsExisting
          /\ acctLock[a] = None
          /\ IF Cardinality(AccountLoad(a)) >= MaxOpen
             THEN Become(w, Idle) /\ UNCHANGED acctLock
             ELSE /\ acctLock' = [acctLock EXCEPT ![a] = w]
                  /\ Become(w, [worker[w] EXCEPT !.pc = "expire", !.p = None])
    /\ UNCHANGED <<now, sub, lease, pay, invoice, rowLock>>

\* expire_elapsed_subscriptions(session, [subscription]); it commits only when
\* it changed the row.  The reaper then captures its own now.
ExpireOwn(w) ==
    LET s == worker[w].s IN
    /\ At(w, "expire")
    /\ IF IsElapsed(sub[s])
       THEN /\ sub' = [sub EXCEPT ![s] = Elapse(@)]
            /\ lease' = [lease EXCEPT ![s] = LeaseQuarantined(s, HoldUntil(sub[s]))]
            /\ acctLock' = Unlock(w)
       ELSE UNCHANGED <<sub, lease, acctLock>>
    /\ Become(w, [worker[w] EXCEPT !.pc = "reapq", !.t = now, !.todo = Subs])
    /\ UNCHANGED <<now, pay, invoice, rowLock>>

PeriodEnd(row) == row.pend             \* mutant: no renewal window
RenewalEnd(row) == row.pend + Window

\* The rows the quarantine pass of reap_elapsed_resource_holds does not skip.
VisitsHold(row, t) ==
    /\ row.status = "expired" /\ row.quar # NoTime
    /\ row.quar <= t \/ (row.assigned # None /\ row.quar < RenewalEnd(row))

HoldsToVisit(w) == {x \in worker[w].todo : VisitsHold(sub[x], worker[w].t)}

\* An elapsed hold with an open payment has that payment settled first.
ReapHold(w) ==
    /\ At(w, "reapq")
    /\ \E x \in HoldsToVisit(w) :
          LET st == [worker[w] EXCEPT !.pc = "reapq2", !.x = x, !.dl = sub[x].quar,
                                      !.todo = @ \ {x}]
          IN  IF sub[x].quar > worker[w].t \/ OpenPayments(x) = {}
              THEN Become(w, st)
              ELSE \E p \in OpenPayments(x) :
                      Become(w, [st EXCEPT !.pc = "issue", !.ret = "reapq2", !.p = p])
    /\ UNCHANGED <<now, sub, lease, pay, invoice, rowLock, acctLock>>

\* The final UPDATE of the quarantine pass matches this row.
HoldReleasable(x, t) ==
    sub[x].quar # NoTime /\ sub[x].quar <= t /\ OpenPayments(x) = {}

\* The refreshed row is extended to the renewal window, released or left alone.
ReapHoldAct(w) ==
    LET x == worker[w].x
        row == sub[x]
        gone == row.status # "expired" \/ row.assigned = None
        short == RenewalEnd(row) > worker[w].dl
        live == worker[w].dl > worker[w].t
    IN
    /\ At(w, "reapq2")
    /\ \/ /\ gone \/ (~short /\ live)
          /\ UNCHANGED <<sub, lease, acctLock>>
       \/ /\ ~gone /\ short
          /\ sub' = [sub EXCEPT ![x].quar = RenewalEnd(row)]
          /\ lease' = [lease EXCEPT ![x] =
                IF Product[x] = "ip" /\ @.addr = row.assigned
                THEN [@ EXCEPT !.until = RenewalEnd(row)] ELSE @]
          /\ acctLock' = Unlock(w)
       \/ /\ ~gone /\ ~short /\ ~live
          /\ IF HoldReleasable(x, worker[w].t)
             THEN /\ sub' = [sub EXCEPT ![x].assigned = None, ![x].quar = NoTime]
                  /\ lease' = [lease EXCEPT ![x] = NoLease]
             ELSE UNCHANGED <<sub, lease>>
          /\ acctLock' = Unlock(w)
    /\ Become(w, [worker[w] EXCEPT !.pc = "reapq", !.x = None, !.p = None, !.dl = NoTime])
    /\ UNCHANGED <<now, pay, invoice, rowLock>>

ReapHoldsDone(w) ==
    /\ At(w, "reapq")
    /\ HoldsToVisit(w) = {}
    /\ Become(w, [worker[w] EXCEPT !.pc = "reapr", !.todo = Subs])
    /\ UNCHANGED <<now, sub, lease, pay, invoice, rowLock, acctLock>>

ReservationsToVisit(w) ==
    {x \in worker[w].todo : sub[x].resUntil # NoTime /\ sub[x].resUntil <= worker[w].t}

\* The reservation pass loads the row ...
ReapReservation(w) ==
    /\ At(w, "reapr")
    /\ \E x \in ReservationsToVisit(w) :
          Become(w, [worker[w] EXCEPT !.pc = "reapr2", !.x = x, !.snap = sub[x],
                                      !.todo = @ \ {x}, !.p = None])
    /\ UNCHANGED <<now, sub, lease, pay, invoice, rowLock, acctLock>>

\* ... and then the payment: a terminal one loses its reservation, as the row
\* was loaded; a pending one is settled or expired.
ReapReservationAct(w) ==
    LET x == worker[w].x
        snap == worker[w].snap
        p == snap.resPay
    IN
    /\ At(w, "reapr2")
    /\ IF pay[p].status = "pending"
       THEN /\ Become(w, [Settle(w, p, "reapr") EXCEPT !.x = None, !.snap = NewSub])
            /\ UNCHANGED <<sub, lease, acctLock>>
       ELSE /\ IF MayRelease(snap, p)
               THEN /\ sub' = [sub EXCEPT ![x] = Flush(@, snap, ReleaseReservation(snap, p))]
                    /\ lease' = [lease EXCEPT ![x] = NoLease]
                    /\ acctLock' = Unlock(w)
               ELSE UNCHANGED <<sub, lease, acctLock>>
            /\ Become(w, [worker[w] EXCEPT !.pc = "reapr", !.x = None, !.snap = NewSub])
    /\ UNCHANGED <<now, pay, invoice, rowLock>>
\* The row is refreshed once more; a cancelled subscription cannot be paid.
LoadForPayment(w) ==
    LET row == sub[worker[w].s] IN
    /\ At(w, "reapr")
    /\ ReservationsToVisit(w) = {}
    /\ Become(w, IF row.status = "cancelled" THEN Idle
                 ELSE [Idle EXCEPT !.pc = "insert", !.s = worker[w].s, !.snap = row])
    /\ acctLock' = IF row.status = "cancelled" THEN Unlock(w) ELSE acctLock
    /\ UNCHANGED <<now, sub, lease, pay, invoice, rowLock>>

\* A payment is inserted, its invoice staged, and everything committed.
Stage(w, p, s, ttl) ==
    /\ pay[p].status = "unused"
    /\ pay' = [pay EXCEPT ![p] = [status |-> "pending", sub |-> s, created |-> now,
                                   expires |-> now + ttl, bound |-> FALSE]]
    /\ acctLock' = Unlock(w)
    /\ Become(w, [Idle EXCEPT !.pc = "issue", !.p = p])
    /\ UNCHANGED <<now, invoice, rowLock>>

HoldsAssignment(row) == row.status = "expired" /\ row.assigned # None /\ row.quar # NoTime

\* reserve_subscription_resource keeps a live hold, if the row is still the one
\* that was loaded (the conditional update on updated_at).
MayClaimHold(s, row) ==
    /\ HoldsAssignment(row)
    /\ row.quar > now
    /\ row.resPay = None /\ row.resUntil = NoTime
    /\ LeaseUsable(s, row.assigned)
    /\ sub[s] = row

\* ... and otherwise needs a row without assignment or reservation.
MayReserve(row) ==
    /\ row.status # "active"
    /\ row.assigned = None /\ row.resUntil = NoTime /\ row.resPay = None

HeldPorts == {t \in Subs : Product[t] = "port" /\ sub[t].assigned # None}

AnyInInventory(s) == Inventory[Product[s]]   \* mutant: no unique index

\* Candidates that the unique indexes and the port capacity admit.
FreeFor(s) ==
    {a \in Inventory[Product[s]] :
        /\ \A t \in Subs : sub[t].assigned # a
        /\ IF Product[s] = "port" THEN Cardinality(HeldPorts) < PortCapacity
           ELSE lease[s].state = "none" /\ \A t \in Subs : lease[t].addr # a}

Reserved(row, p, a) ==
    [row EXCEPT !.assigned = a, !.resUntil = now + ResTTL, !.resPay = p, !.quar = NoTime]

\* uq_payment_open_subscription: no other payment of the subscription is open.
MayInsert(s) == OpenPayments(s) = {}

\* The insert of a payment, with the hold it claims or reserves.
InsertPayment(w, p) ==
    LET s == worker[w].s
        snap == worker[w].snap
    IN
    /\ At(w, "insert")
    /\ MayInsert(s)
    /\ \/ /\ snap.status = "active" \/ MayClaimHold(s, snap)
          /\ BoundedExpiry(EligibilityDeadline(snap)) > 0
          /\ Stage(w, p, s, BoundedExpiry(EligibilityDeadline(snap)))
          /\ UNCHANGED <<sub, lease>>
       \/ /\ MayReserve(snap)
          /\ BoundedExpiry(now + ResTTL) > 0
          /\ \E a \in FreeFor(s) :
                /\ sub' = [sub EXCEPT ![s] = Flush(@, snap, Reserved(snap, p, a))]
                /\ lease' = [lease EXCEPT ![s] =
                      IF Product[s] = "ip"
                      THEN [state |-> "reserved", addr |-> a, until |-> NoTime] ELSE @]
          /\ Stage(w, p, s, BoundedExpiry(now + ResTTL))

\* The bound on payment ids is reached: as if the insert failed.
OutOfIds == \A p \in Payments : pay[p].status # "unused"

\* NoCapacityError, or a window too short to pay in: roll back.
InsertFails(w) ==
    LET s == worker[w].s
        snap == worker[w].snap
    IN
    /\ At(w, "insert")
    /\ MayInsert(s)
    /\ \/ OutOfIds
       \/ ~ \/ /\ snap.status = "active" \/ MayClaimHold(s, snap)
               /\ BoundedExpiry(EligibilityDeadline(snap)) > 0
            \/ MayReserve(snap) /\ BoundedExpiry(now + ResTTL) > 0 /\ FreeFor(s) # {}
    /\ acctLock' = Unlock(w)
    /\ Become(w, Idle)
    /\ UNCHANGED <<now, sub, lease, pay, invoice, rowLock>>

\* IntegrityError on the open-payment index: the competing payment is polled.
InsertConflict(w) ==
    /\ At(w, "insert")
    /\ \E p \in OpenPayments(worker[w].s) :
          /\ rowLock[p] = None
          /\ Become(w, [Idle EXCEPT !.pc = "issue", !.p = p])
    /\ acctLock' = Unlock(w)
    /\ UNCHANGED <<now, sub, lease, pay, invoice, rowLock>>

-----------------------------------------------------------------------------
(* cancel_pending_subscription *)

StartCancel(w, s) ==
    LET a == Owner[s] IN
    /\ At(w, "idle")
    /\ acctLock[a] = None
    /\ sub[s].status = "pending"
    /\ acctLock' = [acctLock EXCEPT ![a] = w]
    /\ \/ /\ OpenPayments(s) = {}
          /\ Become(w, [Idle EXCEPT !.pc = "cancel", !.s = s])
       \/ \E p \in OpenPayments(s) :
             Become(w, [Settle(w, p, "cancel") EXCEPT !.s = s])
    /\ UNCHANGED <<now, sub, lease, pay, invoice, rowLock>>

\* A payment that is still open is a conflict.  Otherwise reacquire the account,
\* re-read the row, and cancel it if nothing is open.
Cancel(w) ==
    LET s == worker[w].s
        p == worker[w].p
        stillOpen == p # None /\ pay[p].status = "pending"
    IN
    /\ At(w, "cancel")
    /\ stillOpen \/ acctLock[Owner[s]] \in {None, w}
    /\ IF ~stillOpen /\ sub[s].status = "pending" /\ OpenPayments(s) = {}
       THEN /\ sub' = [sub EXCEPT ![s] = [Unassigned(@) EXCEPT !.status = "cancelled",
                                                               !.quar = NoTime]]
            /\ lease' = [lease EXCEPT ![s] = NoLease]
       ELSE UNCHANGED <<sub, lease>>
    /\ acctLock' = Unlock(w)
    /\ Become(w, Idle)
    /\ UNCHANGED <<now, pay, invoice, rowLock>>

-----------------------------------------------------------------------------
(* The environment *)

\* expire_elapsed_subscriptions, run by every listing and resolution handler.
ExpireElapsed(s) ==
    /\ IsElapsed(sub[s])
    /\ sub' = [sub EXCEPT ![s] = Elapse(@)]
    /\ lease' = [lease EXCEPT ![s] = LeaseQuarantined(s, HoldUntil(sub[s]))]
    /\ UNCHANGED <<now, pay, invoice, rowLock, acctLock, worker>>

\* The customer pays an invoice that was published and has not run out.
PayInvoice(p) ==
    /\ pay[p].bound
    /\ invoice[p].state = "open" /\ now < invoice[p].until
    /\ invoice' = [invoice EXCEPT ![p].state = "settled"]
    /\ UNCHANGED <<now, sub, lease, pay, rowLock, acctLock, worker>>

\* The process stops, or a provider call raises: the transaction rolls back.
Crash(w) ==
    /\ ~At(w, "idle")
    /\ rowLock' = [p \in Payments |-> IF rowLock[p] = w THEN None ELSE rowLock[p]]
    /\ acctLock' = Unlock(w)
    /\ Become(w, Idle)
    /\ UNCHANGED <<now, sub, lease, pay, invoice>>

Tick ==
    /\ now < MaxTime
    /\ now' = now + 1
    /\ UNCHANGED <<sub, lease, pay, invoice, rowLock, acctLock, worker>>

\* The steps a session takes by itself once it is busy.
Step(w) ==
    \/ IssueNothing(w) \/ IssueExpired(w) \/ Issue(w) \/ Poll(w)
    \/ Finalize(w) \/ DecideExpired(w) \/ DecideNothing(w) \/ Grant(w) \/ GrantFails(w)
    \/ LockAccount(w) \/ ExpireOwn(w)
    \/ ReapHold(w) \/ ReapHoldAct(w) \/ ReapHoldsDone(w)
    \/ ReapReservation(w) \/ ReapReservationAct(w)
    \/ LoadForPayment(w) \/ (\E p \in Payments : InsertPayment(w, p))
    \/ InsertFails(w) \/ InsertConflict(w) \/ Cancel(w)

Next ==
    \/ \E w \in Workers :
          \/ Step(w) \/ ProviderFails(w) \/ IssueCrash(w) \/ Crash(w)
          \/ \E p \in Payments : StartSettle(w, p)
          \/ \E s \in Subs : StartCreate(w, s) \/ StartCancel(w, s)
    \/ \E s \in Subs : ExpireElapsed(s)
    \/ \E p \in Payments : PayInvoice(p)
    \/ Tick

Spec == Init /\ [][Next]_vars

\* A handler takes seconds and a tick is days: time does not pass between the
\* load of a row for a new payment and the insert of that payment.
PromptTick == Tick /\ \A w \in Workers : ~At(w, "insert")

\* Scheduling without crashes: a busy session keeps going and time passes.  The
\* reconciler comes back to every open payment, however often the session it
\* needs is busy with something else.
FairNext ==
    \/ \E w \in Workers :
          \/ Step(w) \/ \E p \in Payments : StartSettle(w, p)
          \/ \E s \in Subs : StartCreate(w, s) \/ StartCancel(w, s)
    \/ \E s \in Subs : ExpireElapsed(s)
    \/ \E p \in Payments : PayInvoice(p)
    \/ PromptTick
FairSpec ==
    /\ Init /\ [][FairNext]_vars
    /\ WF_vars(PromptTick)
    /\ \A w \in Workers : WF_vars(Step(w))
    /\ \A p \in Payments : SF_vars(\E w \in Workers : StartSettle(w, p))
-----------------------------------------------------------------------------
(* Properties *)

\* No two subscriptions hold the same dedicated address or shared port,
\* whatever the reaper, the reservations and the settlements interleave.
UniqueAssignment ==
    \A s, t \in Subs : s # t /\ sub[s].assigned # None => sub[s].assigned # sub[t].assigned

\* At most one payment of a subscription is open, so a late settlement of a
\* replaced invoice cannot grant a second period.
OneOpenPayment ==
    \A p, q \in Payments :
        pay[p].status = "pending" /\ pay[q].status = "pending" /\ pay[p].sub = pay[q].sub
            => p = q

\* A payment is PAID only if LND reported its invoice settled.
PaidWasSettled ==
    \A p \in Payments : pay[p].status = "paid" => invoice[p].state = "settled"

\* _finalize_payment: service time moves only in a step that turns one open
\* payment of that subscription into PAID, and then by at most one period from
\* the later of now and the paid-up end.  Concurrent polls grant nothing more.
OnePeriodPerPayment ==
    [][\A s \in Subs : sub'[s].pend # sub[s].pend =>
         \E p \in Payments :
            /\ pay[p].sub = s /\ pay[p].status = "pending" /\ pay'[p].status = "paid"
            /\ sub'[s].pend <= MaxOf(sub[s].pend, now) + Period]_vars

\* Sessions, locks and stale rows aside, settlement is the ledger: payments end
\* once, and what a period costs is one settled payment.
Ledger == INSTANCE PaymentLedger WITH
    status  <- [p \in Payments |-> pay[p].status],
    owner   <- [p \in Payments |-> pay[p].sub],
    settled <- [p \in Payments |-> invoice[p].state = "settled"],
    credit  <- [s \in Subs |-> sub[s].pend]
ImplementsLedger == Ledger!Spec

\* An active subscription owns its assignment, and for a dedicated IP the
\* active lease names the same address.
ActiveHasAssignment ==
    \A s \in Subs : sub[s].status = "active" =>
        /\ sub[s].assigned # None
        /\ Product[s] = "ip" => lease[s].state = "active" /\ lease[s].addr = sub[s].assigned

\* A reservation belongs to a payment of that subscription that is still open.
ReservationHasOpenPayment ==
    \A s \in Subs : sub[s].resPay # None => sub[s].resPay \in OpenPayments(s)

\* A lapsed owner keeps the assignment for the renewal window after the paid
\* period, and as long as a payment is open.
RenewalWindowKept ==
    [][\A s \in Subs :
         sub[s].status = "expired" /\ sub[s].resPay = None /\ sub'[s].assigned # sub[s].assigned
            => \/ sub[s].assigned = None
               \/ now >= sub[s].pend + Window /\ OpenPayments(s) = {}]_vars

\* Every payment is resolved: one that its provider settled, or whose window ends
\* within the modelled time, does not stay open.
PaymentsResolve ==
    \A p \in Payments :
        pay[p].status = "pending" /\ (pay[p].expires <= MaxTime \/ invoice[p].state = "settled")
            ~> pay[p].status # "pending"

\* A subscription that is paid up is active: it is revoked only once its period
\* has ended, and a settlement always reactivates it.
PaidUpIsActive == \A s \in Subs : sub[s].pend > now => sub[s].status = "active"

=============================================================================
