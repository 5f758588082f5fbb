-------------------------- MODULE SettlementProofs --------------------------
(***************************************************************************)
(* Safety of Settlement, for any number of sessions, subscriptions,        *)
(* payments and assignments: its types, that it implements PaymentLedger,  *)
(* and that no assignment is ever held twice.                              *)
(***************************************************************************)
EXTENDS Settlement, TLAPS

-----------------------------------------------------------------------------
(* Type correctness.                                                       *)

Settling == {"issue", "poll", "decide", "grant"}

\* The payments that were inserted.
Used == {p \in Payments : pay[p].status # "unused"}

\* A reservation has a deadline exactly when a payment owns it, and that payment
\* was inserted.
RowOK(row, used) ==
    /\ row.resPay = None <=> row.resUntil = NoTime
    /\ row.resPay # None => row.resPay \in used

\* What a session's registers hold, by the step it is at.
SessionOK(st, used) ==
    /\ RowOK(st.snap, used)
    /\ st.pc \in Settling => st.p \in used
    /\ st.pc # "idle" /\ (st.pc \notin Settling \/ st.ret # "idle") => st.s \in Subs
    /\ st.pc = "reapq2" \/ (st.pc \in Settling /\ st.ret = "reapq2") => st.x \in Subs
    /\ st.pc = "reapr2" => st.x \in Subs /\ st.snap.resPay # None

TypeInv ==
    /\ TypeOK
    /\ \A s \in Subs : RowOK(sub[s], Used)
    /\ \A p \in Used : pay[p].sub \in Subs
    /\ \A w \in Workers : SessionOK(worker[w], Used)

-----------------------------------------------------------------------------
(* Row edits keep rows well formed *)

\* A flush of well-formed rows is well formed.
LEMMA FlushType ==
    ASSUME NEW row \in SubRow, NEW loaded \in SubRow, NEW edited \in SubRow
    PROVE  Flush(row, loaded, edited) \in SubRow
BY NoneAssumption, OwnerAssumption, ProductAssumption, TimeAssumption, LimitAssumption DEF Flush, Dirty, SubRow

LEMMA RenewalEndType ==
    ASSUME NEW row \in SubRow
    PROVE  RenewalEnd(row) \in Time
BY NoneAssumption, OwnerAssumption, ProductAssumption, TimeAssumption, LimitAssumption DEF RenewalEnd, SubRow, Time, NoTime

LEMMA ExpiryType ==
    ASSUME now \in Nat
    PROVE  \A d \in Int : BoundedExpiry(d) \in Int
BY NoneAssumption, OwnerAssumption, ProductAssumption, TimeAssumption, LimitAssumption DEF BoundedExpiry, MinTime

\* So are the results of the edits.
LEMMA EditTypes ==
    ASSUME now \in Nat, NEW row \in SubRow, NEW p \in Payments
    PROVE  /\ Unassigned(row) \in SubRow /\ ReleaseReservation(row, p) \in SubRow
           /\ Elapse(row) \in SubRow /\ Renewed(row) \in SubRow
           /\ Activated(row) \in SubRow /\ Granted(row, p) \in SubRow
           /\ HoldUntil(row) \in Time /\ RenewalEnd(row) \in Time
<1> USE NoneAssumption, OwnerAssumption, ProductAssumption, TimeAssumption, LimitAssumption
<1>1. Unassigned(row) \in SubRow
  BY Zenon DEF Unassigned, SubRow, Time, NoTime
<1>2. ReleaseReservation(row, p) \in SubRow
  BY <1>1 DEF ReleaseReservation
<1>3. HoldUntil(row) \in Time /\ RenewalEnd(row) \in Time
  BY DEF HoldUntil, MaxOf, SubRow, Time, NoTime, RenewalEnd
<1>4. Elapse(row) \in SubRow
  BY Zenon, <1>3 DEF Elapse, SubRow, Time, NoTime
<1>5. MaxOf(row.pend, now) + Period \in Nat /\ now + Period \in Nat
  BY DEF MaxOf, SubRow, Time, NoTime
<1>6. Renewed(row) \in SubRow
  BY Zenon, <1>5 DEF Renewed, SubRow, Time, NoTime
<1>7. Activated(row) \in SubRow
  BY Zenon, <1>5 DEF Activated, SubRow, Time, NoTime
<1> QED BY <1>1, <1>2, <1>3, <1>4, <1>6, <1>7 DEF Granted

LEMMA ReservedType ==
    ASSUME now \in Nat, NEW row \in SubRow, NEW p \in Payments, NEW a \in Addrs, NEW U, p \in U
    PROVE  Reserved(row, p, a) \in SubRow /\ RowOK(Reserved(row, p, a), U)
<1> USE NoneAssumption, OwnerAssumption, ProductAssumption, TimeAssumption, LimitAssumption
<1>1. now + ResTTL \in Nat
  OBVIOUS
<1>2. Reserved(row, p, a) \in SubRow
  BY Zenon, <1>1 DEF Reserved, SubRow, Time, NoTime
<1>3. RowOK(Reserved(row, p, a), U)
  BY <1>1 DEF Reserved, SubRow, RowOK, NoTime
<1> QED BY <1>2, <1>3

\* A flush changes the owner and the deadline of a reservation together if the
\* edit did.
LEMMA FlushPaired ==
    ASSUME NEW row \in SubRow, NEW loaded \in SubRow, NEW edited \in SubRow, NEW U,
           RowOK(row, U), RowOK(edited, U),
           (edited.resPay = loaded.resPay) <=> (edited.resUntil = loaded.resUntil)
    PROVE  RowOK(Flush(row, loaded, edited), U)
BY NoneAssumption, OwnerAssumption, ProductAssumption, TimeAssumption, LimitAssumption DEF Flush, Dirty, RowOK, SubRow

LEMMA EditPaired ==
    ASSUME now \in Nat, NEW row \in SubRow, NEW U, RowOK(row, U), NEW p \in Payments
    PROVE  /\ RowOK(Unassigned(row), U) /\ RowOK(ReleaseReservation(row, p), U)
           /\ RowOK(Elapse(row), U) /\ RowOK(Renewed(row), U) /\ RowOK(Activated(row), U)
<1> USE NoneAssumption, OwnerAssumption, ProductAssumption, TimeAssumption, LimitAssumption
<1>1. RowOK(Unassigned(row), U) BY DEF RowOK, Unassigned, SubRow
<1>2. RowOK(ReleaseReservation(row, p), U) BY <1>1 DEF ReleaseReservation
<1>3. RowOK(Elapse(row), U) BY DEF RowOK, Elapse, SubRow
<1>4. RowOK(Renewed(row), U) BY DEF RowOK, Renewed, SubRow
<1>5. RowOK(Activated(row), U) BY DEF RowOK, Activated, SubRow
<1> QED BY <1>1, <1>2, <1>3, <1>4, <1>5

-----------------------------------------------------------------------------
(* Session plumbing *)

\* What a step of session w does to the sessions.
LEMMA BecomeType ==
    ASSUME worker \in [Workers -> WorkerState], NEW w \in Workers,
           NEW st \in WorkerState, Become(w, st)
    PROVE  /\ worker' \in [Workers -> WorkerState]
           /\ worker'[w] = st
           /\ \A v \in Workers : v # w => worker'[v] = worker[v]
BY NoneAssumption, OwnerAssumption, ProductAssumption, TimeAssumption, LimitAssumption DEF Become

LEMMA UnlockType ==
    ASSUME NEW w, acctLock \in [Accounts -> Workers \cup {None}]
    PROVE  Unlock(w) \in [Accounts -> Workers \cup {None}]
BY NoneAssumption, OwnerAssumption, ProductAssumption, TimeAssumption, LimitAssumption DEF Unlock

LEMMA IdleType == Idle \in WorkerState /\ NewSub \in SubRow
BY NoneAssumption, OwnerAssumption, ProductAssumption, TimeAssumption, LimitAssumption DEF Idle, WorkerState, NewSub, SubRow, Steps, Time, NoTime

LEMMA ReturnedType ==
    ASSUME TypeInv, NEW w \in Workers, worker[w].pc \in Settling
    PROVE  /\ Returned(w) \in WorkerState /\ Failed(w) \in WorkerState
           /\ SessionOK(Returned(w), Used) /\ SessionOK(Failed(w), Used)
           /\ Returned(w).pc \notin Settling /\ Failed(w).pc \notin Settling
<1> USE NoneAssumption, OwnerAssumption, ProductAssumption, TimeAssumption, LimitAssumption
<1> DEFINE st == worker[w]
<1>1. st \in WorkerState /\ SessionOK(st, Used)
  BY DEF TypeInv, TypeOK
<1>2. SessionOK(Idle, Used)
  BY DEF SessionOK, Idle, RowOK, NewSub, Settling
<1>3. CASE st.ret = "idle"
  BY <1>1, <1>2, <1>3, IdleType DEF Returned, Failed, Idle, Settling
<1>4. CASE st.ret # "idle"
  <2>1. st.s \in Subs
    BY <1>1, <1>4 DEF SessionOK, Settling
  <2>2. st.ret = "reapq2" => st.x \in Subs
    BY <1>1 DEF SessionOK
  <2>3. Returned(w) \in WorkerState
    BY Zenon, <1>1, <1>4, IdleType DEF Returned, WorkerState, Steps
  <2>4. Failed(w) \in WorkerState
    <3>1. CASE st.ret = "reapq2"
      <4>1. Failed(w) = [st EXCEPT !.pc = "reapq", !.ret = "idle", !.x = None, !.p = None,
                                   !.dl = NoTime, !.seen = FALSE, !.snap = NewSub]
        BY <3>1 DEF Failed
      <4> HIDE DEF st
      <4> QED BY Zenon, <1>1, <4>1, IdleType DEF WorkerState, Steps, Time, NoTime
    <3>2. CASE st.ret # "reapq2"
      BY <3>2, IdleType DEF Failed
    <3> QED BY <3>1, <3>2
  <2>5. SessionOK(Returned(w), Used) /\ Returned(w).pc \notin Settling
    BY <1>1, <1>4, <2>1, <2>2 DEF Returned, SessionOK, WorkerState, RowOK, NewSub, Settling
  <2>6. SessionOK(Failed(w), Used) /\ Failed(w).pc \notin Settling
    BY <1>1, <1>2, <1>4, <2>1, <2>2 DEF Failed, Returned, SessionOK, WorkerState, RowOK, NewSub, Settling, Idle
  <2> QED BY <2>3, <2>4, <2>5, <2>6
<1> QED BY <1>3, <1>4

\* The other sessions are undisturbed by a step of session w that removes no
\* payment.
LEMMA SessionsKept ==
    ASSUME TypeInv, Used \subseteq Used', NEW w \in Workers, NEW st \in WorkerState,
           Become(w, st), SessionOK(st, Used')
    PROVE  /\ worker' \in [Workers -> WorkerState]
           /\ \A v \in Workers : SessionOK(worker'[v], Used')
<1> USE NoneAssumption, OwnerAssumption, ProductAssumption, TimeAssumption, LimitAssumption
<1>1. /\ worker' \in [Workers -> WorkerState]
      /\ worker'[w] = st
      /\ \A v \in Workers : v # w => worker'[v] = worker[v]
  BY BecomeType DEF TypeInv, TypeOK
<1>2. \A v \in Workers : v # w => SessionOK(worker[v], Used')
  BY DEF TypeInv, SessionOK, RowOK
<1> QED BY <1>1, <1>2

-----------------------------------------------------------------------------
(* Type correctness *)

LEMMA InitTypeInv == Init => TypeInv
<1> USE NoneAssumption, OwnerAssumption, ProductAssumption, TimeAssumption, LimitAssumption
<1> SUFFICES ASSUME Init PROVE TypeInv
  OBVIOUS
<1>1. PICK f \in [Legacy -> Addrs] :
        /\ sub = [s \in Subs |-> IF s \in Legacy THEN LegacySub(f[s]) ELSE NewSub]
        /\ lease = [s \in Subs |-> IF s \in Legacy THEN LegacyLease(s, f[s]) ELSE NoLease]
  BY DEF Init
<1>2. \A a \in Addrs : LegacySub(a) \in SubRow /\ RowOK(LegacySub(a), Used)
  BY Zenon, IdleType DEF LegacySub, SubRow, NewSub, Time, NoTime, RowOK
<1>3. \A s \in Subs, a \in Addrs : LegacyLease(s, a) \in LeaseRow
  BY DEF LegacyLease, LeaseRow, NoLease, Time, NoTime
<1>4. NoLease \in LeaseRow /\ NewPay \in PayRow /\ NoInvoice \in Invoice
  BY DEF NoLease, LeaseRow, NewPay, PayRow, NoInvoice, Invoice, Time, NoTime
<1>5. RowOK(NewSub, Used) /\ SessionOK(Idle, Used)
  BY DEF SessionOK, Idle, RowOK, NewSub, Settling
<1>6. TypeOK
  BY <1>1, <1>2, <1>3, <1>4, IdleType DEF Init, TypeOK
<1>7. Used = {}
  BY DEF Init, Used, NewPay
<1> QED BY <1>1, <1>2, <1>5, <1>6, <1>7, IdleType DEF TypeInv, Init

\* A step that changes only the sessions, and those at session w.
LEMMA QuietStep ==
    ASSUME TypeInv, NEW w \in Workers, NEW st \in WorkerState, SessionOK(st, Used),
           Become(w, st), UNCHANGED <<now, sub, lease, pay, invoice>>,
           rowLock' \in [Payments -> Workers \cup {None}],
           acctLock' \in [Accounts -> Workers \cup {None}]
    PROVE  TypeInv'
<1> USE NoneAssumption, OwnerAssumption, ProductAssumption, TimeAssumption, LimitAssumption
<1>1. Used' = Used
  BY DEF Used
<1>2. worker' \in [Workers -> WorkerState] /\ \A v \in Workers : SessionOK(worker'[v], Used')
  BY <1>1, SessionsKept
<1> QED BY <1>1, <1>2 DEF TypeInv, TypeOK

LEMMA IdleOK == SessionOK(Idle, Used)
BY NoneAssumption, OwnerAssumption, ProductAssumption, TimeAssumption, LimitAssumption DEF SessionOK, Idle, RowOK, NewSub, Settling

\* Calling check_and_settle_payment on an inserted payment.
LEMMA SettleOK ==
    ASSUME TypeInv, NEW w \in Workers, NEW p \in Used,
           NEW r \in {"idle", "lock", "reapr", "cancel"}, NEW s \in Subs
    PROVE  /\ [Settle(w, p, r) EXCEPT !.s = s] \in WorkerState
           /\ SessionOK([Settle(w, p, r) EXCEPT !.s = s], Used)
<1> USE NoneAssumption, OwnerAssumption, ProductAssumption, TimeAssumption, LimitAssumption
<1>1. worker[w] \in WorkerState /\ SessionOK(worker[w], Used) /\ p \in Payments
  BY DEF TypeInv, TypeOK, Used
<1>2. [Settle(w, p, r) EXCEPT !.s = s] \in WorkerState
  BY Zenon, <1>1 DEF Settle, WorkerState, Steps
<1>3. RowOK(worker[w].snap, Used)
  BY <1>1 DEF SessionOK
<1>4. SessionOK([Settle(w, p, r) EXCEPT !.s = s], Used)
  BY <1>1, <1>3 DEF Settle, SessionOK, WorkerState, Settling
<1> QED BY <1>2, <1>4

\* check_and_settle_payment keeps the types, first the steps that write no row.
LEMMA SettleQuietType ==
    ASSUME TypeInv, NEW w \in Workers,
           \/ \E p \in Payments : StartSettle(w, p)
           \/ IssueNothing(w) \/ Poll(w) \/ Finalize(w) \/ DecideNothing(w)
           \/ GrantFails(w) \/ ProviderFails(w) \/ Crash(w)
    PROVE  TypeInv'
<1> USE NoneAssumption, OwnerAssumption, ProductAssumption, TimeAssumption, LimitAssumption
<1> DEFINE st == worker[w]
           p == worker[w].p
<1>0. st \in WorkerState /\ SessionOK(st, Used) /\ RowOK(st.snap, Used)
  BY DEF TypeInv, TypeOK, SessionOK
<1>1. ASSUME NEW q \in Payments, StartSettle(w, q) PROVE TypeInv'
  <2>1. q \in Used /\ worker[w].pc = "idle"
    BY <1>1 DEF StartSettle, Used, At
  <2>2. Settle(w, q, "idle") \in WorkerState /\ SessionOK(Settle(w, q, "idle"), Used)
    <3>1. worker[w].snap \in SubRow
      BY <1>0 DEF WorkerState
    <3>2. Settle(w, q, "idle") \in WorkerState
      BY Zenon, <1>0 DEF Settle, WorkerState, Steps
    <3>3. SessionOK(Settle(w, q, "idle"), Used)
      BY <1>0, <2>1 DEF Settle, SessionOK, WorkerState, Settling
    <3> QED BY <3>2, <3>3
  <2> QED BY <1>1, <2>2, QuietStep DEF StartSettle, TypeInv, TypeOK
<1>2. CASE IssueNothing(w)
  <2>1. CASE pay[p].status = "pending"
    <3>1. [st EXCEPT !.pc = "poll"] \in WorkerState /\ SessionOK([st EXCEPT !.pc = "poll"], Used)
      BY <1>0, <1>2 DEF IssueNothing, At, WorkerState, Steps, SessionOK, Settling
    <3> QED BY <1>2, <2>1, <3>1, QuietStep DEF IssueNothing, Goto, TypeInv, TypeOK
  <2>2. CASE pay[p].status # "pending"
    <3>1. Become(w, Returned(w)) /\ worker[w].pc \in Settling
      BY <1>2, <2>2 DEF IssueNothing, At, Settling
    <3> QED BY <1>2, <3>1, ReturnedType, QuietStep DEF IssueNothing, TypeInv, TypeOK
  <2> QED BY <2>1, <2>2
<1>3. CASE Poll(w)
  <2> DEFINE nst == [worker[w] EXCEPT !.pc = "decide",
                                      !.seen = invoice[worker[w].p].state = "settled"]
  <2>1. nst \in WorkerState
    BY Zenon, <1>0, <1>3 DEF WorkerState, Steps
  <2>2. SessionOK(nst, Used)
    BY <1>0, <1>3 DEF Poll, At, WorkerState, Steps, SessionOK, Settling
  <2> QED BY <1>3, <2>1, <2>2, QuietStep DEF Poll, TypeInv, TypeOK
<1>4. CASE Finalize(w)
  <2> DEFINE nst == [worker[w] EXCEPT !.pc = "grant", !.snap = sub[pay[p].sub]]
  <2>1. p \in Used /\ pay[p].sub \in Subs
    BY <1>0, <1>4 DEF Finalize, At, SessionOK, Settling, TypeInv
  <2>2. sub[pay[p].sub] \in SubRow /\ RowOK(sub[pay[p].sub], Used)
    BY <2>1 DEF TypeInv, TypeOK
  <2>3. nst \in WorkerState
    BY Zenon, <1>0, <2>2 DEF WorkerState, Steps
  <2>4. SessionOK(nst, Used)
    BY <1>0, <1>4, <2>1, <2>2 DEF Finalize, At, WorkerState, SessionOK, Settling
  <2> QED BY Zenon, <1>4, <2>3, <2>4, QuietStep DEF Finalize, TypeInv, TypeOK
<1>5. CASE DecideNothing(w)
  <2>1. Become(w, Returned(w)) /\ worker[w].pc \in Settling
    BY Zenon, <1>5 DEF DecideNothing, At, Settling
  <2>2. acctLock' \in [Accounts -> Workers \cup {None}]
    <3>1. acctLock \in [Accounts -> Workers \cup {None}]
      BY DEF TypeInv, TypeOK
    <3>2. acctLock' = acctLock \/ acctLock' = Unlock(w)
      BY Zenon, <1>5 DEF DecideNothing
    <3>3. Unlock(w) \in [Accounts -> Workers \cup {None}]
      BY Zenon, <3>1, UnlockType
    <3> QED BY <3>1, <3>2, <3>3
  <2> QED BY Zenon, <1>5, <2>1, <2>2, ReturnedType, QuietStep DEF DecideNothing, TypeInv, TypeOK
<1>6. CASE GrantFails(w)
  <2>1. Become(w, Failed(w)) /\ worker[w].pc \in Settling
    BY <1>6 DEF GrantFails, At, Settling
  <2>2. acctLock' \in [Accounts -> Workers \cup {None}]
    <3>1. acctLock \in [Accounts -> Workers \cup {None}]
      BY DEF TypeInv, TypeOK
    <3>2. acctLock' = acctLock \/ acctLock' = Unlock(w)
      BY Zenon, <1>6 DEF GrantFails
    <3>3. Unlock(w) \in [Accounts -> Workers \cup {None}]
      BY Zenon, <3>1, UnlockType
    <3> QED BY <3>1, <3>2, <3>3
  <2> QED BY Zenon, <1>6, <2>1, <2>2, ReturnedType, QuietStep DEF GrantFails, TypeInv, TypeOK
<1>7. CASE ProviderFails(w)
  <2>1. Become(w, Failed(w)) /\ worker[w].pc \in Settling
    BY <1>7 DEF ProviderFails, Unissued, At, Settling
  <2>2. acctLock' \in [Accounts -> Workers \cup {None}]
    <3>1. acctLock \in [Accounts -> Workers \cup {None}]
      BY DEF TypeInv, TypeOK
    <3>2. acctLock' = acctLock \/ acctLock' = Unlock(w)
      BY Zenon, <1>7 DEF ProviderFails
    <3>3. Unlock(w) \in [Accounts -> Workers \cup {None}]
      BY Zenon, <3>1, UnlockType
    <3> QED BY <3>1, <3>2, <3>3
  <2> QED BY Zenon, <1>7, <2>1, <2>2, ReturnedType, QuietStep DEF ProviderFails, TypeInv, TypeOK
<1>8. CASE Crash(w)
  <2>2. acctLock' \in [Accounts -> Workers \cup {None}]
    <3>1. acctLock \in [Accounts -> Workers \cup {None}]
      BY DEF TypeInv, TypeOK
    <3>2. acctLock' = acctLock \/ acctLock' = Unlock(w)
      BY Zenon, <1>8 DEF Crash
    <3>3. Unlock(w) \in [Accounts -> Workers \cup {None}]
      BY Zenon, <3>1, UnlockType
    <3> QED BY <3>1, <3>2, <3>3
  <2> QED BY <1>8, <2>2, IdleType, IdleOK, QuietStep DEF Crash, TypeInv, TypeOK
<1> QED BY <1>1, <1>2, <1>3, <1>4, <1>5, <1>6, <1>7, <1>8

\* A step that may write rows too.
LEMMA RowStep ==
    ASSUME TypeInv, NEW w \in Workers, NEW st \in WorkerState, Become(w, st),
           Used \subseteq Used', SessionOK(st, Used'),
           now' = now, rowLock' \in [Payments -> Workers \cup {None}],
           acctLock' \in [Accounts -> Workers \cup {None}],
           sub' \in [Subs -> SubRow], \A s \in Subs : RowOK(sub'[s], Used'),
           lease' \in [Subs -> LeaseRow],
           pay' \in [Payments -> PayRow], \A p \in Used' : pay'[p].sub \in Subs,
           invoice' \in [Payments -> Invoice]
    PROVE  TypeInv'
<1> USE NoneAssumption, OwnerAssumption, ProductAssumption, TimeAssumption, LimitAssumption
<1>1. worker' \in [Workers -> WorkerState] /\ \A v \in Workers : SessionOK(worker'[v], Used')
  BY SessionsKept
<1> QED BY <1>1 DEF TypeInv, TypeOK

\* A payment that ends, as paid or expired, stays inserted and keeps its owner.
LEMMA EndedPayment ==
    ASSUME TypeInv, NEW p \in Used, NEW end \in {"paid", "expired"},
           pay' = [pay EXCEPT ![p].status = end]
    PROVE  Used' = Used /\ pay' \in [Payments -> PayRow] /\ \A q \in Used' : pay'[q].sub \in Subs
<1> USE NoneAssumption, OwnerAssumption, ProductAssumption, TimeAssumption, LimitAssumption
<1>1. pay \in [Payments -> PayRow] /\ p \in Payments
  BY DEF TypeInv, TypeOK, Used
<1>2. pay' \in [Payments -> PayRow]
  BY <1>1 DEF PayRow
<1>3. \A q \in Payments : pay'[q].sub = pay[q].sub /\ (q # p => pay'[q].status = pay[q].status)
  BY <1>1 DEF PayRow
<1>4. pay'[p].status = end /\ pay[p].status # "unused"
  BY <1>1 DEF PayRow, Used
<1>5. Used' = Used
  BY <1>1, <1>3, <1>4 DEF Used
<1> QED BY <1>2, <1>3, <1>5 DEF TypeInv, Used

\* _expire_payment
LEMMA ExpirePaymentType ==
    ASSUME TypeInv, NEW w \in Workers, worker[w].pc \in Settling, ExpirePayment(w, worker[w].p)
    PROVE  TypeInv'
<1> USE NoneAssumption, OwnerAssumption, ProductAssumption, TimeAssumption, LimitAssumption
<1> DEFINE p == worker[w].p
           s == pay[p].sub
<1>1. p \in Used /\ s \in Subs
  BY DEF TypeInv, SessionOK
<1>2. Used' = Used /\ pay' \in [Payments -> PayRow] /\ \A q \in Used' : pay'[q].sub \in Subs
  BY Zenon, <1>1, EndedPayment DEF ExpirePayment
<1>3. ReleaseReservation(sub[s], p) \in SubRow /\ RowOK(ReleaseReservation(sub[s], p), Used)
  <2>1. p \in Payments /\ now \in Nat /\ sub[s] \in SubRow /\ RowOK(sub[s], Used)
    BY <1>1 DEF TypeInv, TypeOK, Used
  <2> QED BY <2>1, EditTypes, EditPaired
<1>4. sub' \in [Subs -> SubRow] /\ \A t \in Subs : RowOK(sub'[t], Used')
  BY <1>1, <1>2, <1>3 DEF ExpirePayment, TypeInv, TypeOK
<1>5. lease' \in [Subs -> LeaseRow]
  BY Zenon DEF ExpirePayment, TypeInv, TypeOK, NoLease, LeaseRow, Time, NoTime
<1>6. acctLock' \in [Accounts -> Workers \cup {None}]
  BY UnlockType DEF ExpirePayment, TypeInv, TypeOK
<1>7. Returned(w) \in WorkerState /\ SessionOK(Returned(w), Used')
  BY <1>2, ReturnedType
<1>8. Become(w, Returned(w)) /\ UNCHANGED <<now, invoice, rowLock>>
  BY DEF ExpirePayment
<1> QED BY <1>2, <1>4, <1>5, <1>6, <1>7, <1>8, RowStep DEF TypeInv, TypeOK

\* Binding an invoice.
LEMMA IssueType ==
    ASSUME TypeInv, NEW w \in Workers, Issue(w) \/ IssueCrash(w)
    PROVE  TypeInv'
<1> USE NoneAssumption, OwnerAssumption, ProductAssumption, TimeAssumption, LimitAssumption
<1> DEFINE p == worker[w].p
<1>0. worker[w] \in WorkerState /\ SessionOK(worker[w], Used) /\ worker[w].pc = "issue"
  BY DEF TypeInv, TypeOK, Issue, IssueCrash, Unissued, At
<1>1. p \in Used /\ p \in Payments /\ pay[p].sub \in Subs /\ pay[p] \in PayRow
  BY <1>0 DEF TypeInv, TypeOK, SessionOK, Used, Settling
<1>2. Looked(p) \in Invoice
  BY <1>1 DEF Looked, Invoice, TypeInv, TypeOK, PayRow
<1>3. invoice' \in [Payments -> Invoice]
  BY <1>1, <1>2 DEF Issue, IssueCrash, TypeInv, TypeOK
<1>4. acctLock' \in [Accounts -> Workers \cup {None}]
  BY UnlockType DEF Issue, IssueCrash, TypeInv, TypeOK
<1>5. CASE Issue(w)
  <2>1. EligibilityDeadline(sub[pay[p].sub]) \in Time
    BY Zenon, <1>1 DEF EligibilityDeadline, MinTime, TypeInv, TypeOK, SubRow, Time, NoTime
  <2>2. MaxOf(now, Looked(p).until) \in Time
    BY <1>2 DEF MaxOf, Invoice, TypeInv, TypeOK, Time, NoTime
  <2>3. BoundExpiry(p) \in Time
    BY <2>1, <2>2 DEF BoundExpiry, MinTime, Time
  <2>4. pay' \in [Payments -> PayRow]
    BY Zenon, <1>1, <1>5, <2>3 DEF Issue, TypeInv, TypeOK, PayRow
  <2>5. \A q \in Payments : pay'[q].sub = pay[q].sub /\ pay'[q].status = pay[q].status
    BY <1>1, <1>5 DEF Issue, TypeInv, TypeOK, PayRow
  <2>6. Used' = Used /\ \A q \in Used' : pay'[q].sub \in Subs
    BY <2>5 DEF Used, TypeInv
  <2>7. [worker[w] EXCEPT !.pc = "poll"] \in WorkerState
    BY <1>0 DEF WorkerState, Steps
  <2>8. SessionOK([worker[w] EXCEPT !.pc = "poll"], Used')
    BY <1>0, <2>6 DEF WorkerState, SessionOK, Settling
  <2>9. Become(w, [worker[w] EXCEPT !.pc = "poll"]) /\ UNCHANGED <<now, sub, lease, rowLock>>
    BY <1>5 DEF Issue, Goto
  <2> QED BY <1>3, <1>4, <2>4, <2>6, <2>7, <2>8, <2>9, RowStep DEF TypeInv, TypeOK
<1>6. CASE IssueCrash(w)
  <2>1. Used' = Used
    BY Zenon, <1>6 DEF IssueCrash, Used
  <2>2. Become(w, Idle) /\ UNCHANGED <<now, sub, lease, pay, rowLock>>
    BY <1>6 DEF IssueCrash
  <2> QED BY <1>3, <1>4, <2>1, <2>2, IdleType, IdleOK, RowStep DEF TypeInv, TypeOK
<1> QED BY <1>5, <1>6

\* The grant commits what it loaded.
LEMMA GrantType ==
    ASSUME TypeInv, NEW w \in Workers, Grant(w)
    PROVE  TypeInv'
<1> USE NoneAssumption, OwnerAssumption, ProductAssumption, TimeAssumption, LimitAssumption
<1> DEFINE p == worker[w].p
           s == pay[p].sub
           snap == worker[w].snap
<1>0. worker[w] \in WorkerState /\ SessionOK(worker[w], Used) /\ worker[w].pc \in Settling
  BY DEF TypeInv, TypeOK, Grant, At, Settling
<1>1. /\ p \in Used /\ p \in Payments /\ s \in Subs /\ now \in Nat
      /\ snap \in SubRow /\ RowOK(snap, Used) /\ sub[s] \in SubRow /\ RowOK(sub[s], Used)
  BY <1>0 DEF TypeInv, TypeOK, SessionOK, Used, WorkerState
<1>2. Used' = Used /\ pay' \in [Payments -> PayRow] /\ \A q \in Used' : pay'[q].sub \in Subs
  BY Zenon, <1>1, EndedPayment DEF Grant
<1>3. Renewed(snap) \in SubRow /\ Activated(snap) \in SubRow
  BY <1>1, EditTypes
<1>4. RowOK(Flush(sub[s], snap, Granted(snap, p)), Used)
  <2>1. CASE IsRenewal(snap, p)
    <3>1. Granted(snap, p) = Renewed(snap)
      BY <2>1 DEF Granted
    <3>2. Renewed(snap).resPay = snap.resPay /\ Renewed(snap).resUntil = snap.resUntil
      BY <1>1 DEF Renewed, SubRow
    <3>3. RowOK(Renewed(snap), Used)
      BY Zenon, <1>1, EditPaired
    <3>4. RowOK(Flush(sub[s], snap, Renewed(snap)), Used)
      BY <1>1, <1>3, <3>2, <3>3, FlushPaired
    <3> QED BY Zenon, <3>1, <3>4
  <2>2. CASE ~IsRenewal(snap, p)
    <3>1. Granted(snap, p) = Activated(snap) /\ snap.resPay = p
      BY <2>2 DEF Granted, Grant, MayGrant, MayActivate
    <3>2. Activated(snap).resPay = None /\ Activated(snap).resUntil = NoTime
      BY <1>1 DEF Activated, SubRow
    <3>3. snap.resPay # None /\ snap.resUntil # NoTime
      BY <1>1, <3>1 DEF RowOK
    <3>4. RowOK(Activated(snap), Used)
      BY Zenon, <1>1, EditPaired
    <3>5. Activated(snap).resPay # snap.resPay /\ Activated(snap).resUntil # snap.resUntil
      BY Zenon, <3>2, <3>3
    <3> QED BY Zenon, <1>1, <1>3, <3>1, <3>4, <3>5, FlushPaired
  <2> QED BY <2>1, <2>2
<1>5. Flush(sub[s], snap, Granted(snap, p)) \in SubRow
  BY <1>1, <1>3, FlushType DEF Granted
<1>6. sub' \in [Subs -> SubRow] /\ \A t \in Subs : RowOK(sub'[t], Used')
  BY Zenon, <1>1, <1>2, <1>4, <1>5 DEF Grant, TypeInv, TypeOK
<1>7. lease' \in [Subs -> LeaseRow]
  <2>1. lease[s] \in LeaseRow
    BY <1>1 DEF TypeInv, TypeOK
  <2>2. LeaseActive(s) \in LeaseRow
    BY Zenon, <2>1 DEF LeaseActive, LeaseRow, Time, NoTime
  <2> QED BY Zenon, <2>2 DEF Grant, TypeInv, TypeOK
<1>8. /\ acctLock' \in [Accounts -> Workers \cup {None}]
      /\ rowLock' \in [Payments -> Workers \cup {None}]
  BY Zenon, UnlockType DEF Grant, TypeInv, TypeOK
<1>9. Returned(w) \in WorkerState /\ SessionOK(Returned(w), Used') /\ Become(w, Returned(w))
  BY <1>0, <1>2, ReturnedType DEF Grant
<1> QED BY Zenon, <1>2, <1>6, <1>7, <1>8, <1>9, RowStep DEF Grant, TypeInv, TypeOK

\* expire_elapsed_subscriptions on row s.
LEMMA ElapseRows ==
    ASSUME TypeInv, NEW s \in Subs, Used' = Used,
           sub' = [sub EXCEPT ![s] = Elapse(@)],
           lease' = [lease EXCEPT ![s] = LeaseQuarantined(s, HoldUntil(sub[s]))]
    PROVE  /\ sub' \in [Subs -> SubRow] /\ \A t \in Subs : RowOK(sub'[t], Used')
           /\ lease' \in [Subs -> LeaseRow]
<1> USE NoneAssumption, OwnerAssumption, ProductAssumption, TimeAssumption, LimitAssumption
<1>1. now \in Nat /\ sub[s] \in SubRow /\ RowOK(sub[s], Used) /\ lease[s] \in LeaseRow
  BY DEF TypeInv, TypeOK
<1>2. HoldUntil(sub[s]) \in Time
  BY <1>1 DEF HoldUntil, MaxOf, SubRow, Time, NoTime
<1>3. Elapse(sub[s]) \in SubRow /\ RowOK(Elapse(sub[s]), Used)
  BY Zenon, <1>1, <1>2 DEF Elapse, SubRow, Time, NoTime, RowOK
<1>4. LeaseQuarantined(s, HoldUntil(sub[s])) \in LeaseRow
  BY Zenon, <1>1, <1>2 DEF LeaseQuarantined, LeaseRow
<1> QED BY <1>3, <1>4 DEF TypeInv, TypeOK

\* create_payment keeps the types up to the insert.
LEMMA CreateType ==
    ASSUME TypeInv, NEW w \in Workers,
           \/ \E s \in Subs : StartCreate(w, s)
           \/ LockAccount(w) \/ ExpireOwn(w) \/ ReapHold(w) \/ ReapHoldsDone(w)
           \/ ReapReservation(w) \/ LoadForPayment(w) \/ InsertFails(w) \/ InsertConflict(w)
    PROVE  TypeInv'
<1> USE NoneAssumption, OwnerAssumption, ProductAssumption, TimeAssumption, LimitAssumption
<1> DEFINE st == worker[w]
<1>0. /\ st \in WorkerState /\ SessionOK(st, Used) /\ RowOK(st.snap, Used)
      /\ rowLock \in [Payments -> Workers \cup {None}]
      /\ acctLock \in [Accounts -> Workers \cup {None}]
      /\ Unlock(w) \in [Accounts -> Workers \cup {None}]
  BY Zenon, UnlockType DEF TypeInv, TypeOK, SessionOK
<1>0a. \A x \in Subs : \A p \in OpenPayments(x) : p \in Used
  BY Zenon DEF OpenPayments, Used
<1>1. ASSUME NEW s \in Subs, StartCreate(w, s) PROVE TypeInv'
  <2>1. CASE Become(w, [Idle EXCEPT !.pc = "lock", !.s = s])
    <3>1. [Idle EXCEPT !.pc = "lock", !.s = s] \in WorkerState
      BY Zenon, IdleType DEF Idle, WorkerState, Steps
    <3>2. SessionOK([Idle EXCEPT !.pc = "lock", !.s = s], Used)
      BY IdleOK DEF Idle, SessionOK, Settling
    <3> QED BY Zenon, <1>0, <1>1, <2>1, <3>1, <3>2, QuietStep DEF StartCreate
  <2>2. ASSUME NEW p \in OpenPayments(s), Become(w, [Settle(w, p, "lock") EXCEPT !.s = s])
        PROVE  TypeInv'
    BY Zenon, <1>0, <1>0a, <1>1, <2>2, SettleOK, QuietStep DEF StartCreate
  <2> QED BY Zenon, <1>1, <2>1, <2>2 DEF StartCreate
<1>2. CASE LockAccount(w)
  <2>1. st.s \in Subs /\ Owner[st.s] \in Accounts
    BY <1>0, <1>2 DEF LockAccount, At, SessionOK, Settling
  <2>2. CASE Become(w, Idle) /\ UNCHANGED acctLock
    BY <1>0, <1>2, <2>2, IdleType, IdleOK, QuietStep DEF LockAccount
  <2>3. CASE /\ acctLock' = [acctLock EXCEPT ![Owner[st.s]] = w]
             /\ Become(w, [st EXCEPT !.pc = "expire", !.p = None])
    <3>1. [st EXCEPT !.pc = "expire", !.p = None] \in WorkerState
      BY Zenon, <1>0 DEF WorkerState, Steps
    <3>2. SessionOK([st EXCEPT !.pc = "expire", !.p = None], Used)
      BY <1>0, <2>1 DEF WorkerState, SessionOK, Settling
    <3> QED BY Zenon, <1>0, <1>2, <2>3, <3>1, <3>2, QuietStep DEF LockAccount
  <2> QED BY <1>2, <2>2, <2>3 DEF LockAccount
<1>3. CASE ExpireOwn(w)
  <2> DEFINE nst == [st EXCEPT !.pc = "reapq", !.t = now, !.todo = Subs]
  <2>1. st.s \in Subs
    BY <1>0, <1>3 DEF ExpireOwn, At, SessionOK, Settling
  <2>2. nst \in WorkerState
    BY Zenon, <1>0 DEF WorkerState, Steps, TypeInv, TypeOK, Time
  <2>3. SessionOK(nst, Used)
    BY <1>0, <2>1 DEF WorkerState, SessionOK, Settling
  <2>4. Become(w, nst) /\ UNCHANGED <<now, pay, invoice, rowLock>> /\ Used' = Used
    BY <1>3 DEF ExpireOwn, Used
  <2>5. CASE IsElapsed(sub[st.s])
    <3>1. /\ sub' \in [Subs -> SubRow] /\ \A t \in Subs : RowOK(sub'[t], Used')
          /\ lease' \in [Subs -> LeaseRow]
      BY <1>3, <2>1, <2>4, <2>5, ElapseRows DEF ExpireOwn
    <3>2. acctLock' = Unlock(w)
      BY <1>3, <2>5 DEF ExpireOwn
    <3> HIDE DEF nst
    <3> QED BY <1>0, <2>2, <2>3, <2>4, <3>1, <3>2, RowStep DEF TypeInv, TypeOK
  <2>6. CASE ~IsElapsed(sub[st.s])
    <3>1. UNCHANGED <<sub, lease, acctLock>>
      BY <1>3, <2>6 DEF ExpireOwn
    <3> HIDE DEF nst
    <3> QED BY <1>0, <2>2, <2>3, <2>4, <3>1, QuietStep
  <2> QED BY <2>5, <2>6
<1>4. CASE ReapHold(w)
  <2>0. PICK x \in HoldsToVisit(w) :
          LET nst == [st EXCEPT !.pc = "reapq2", !.x = x, !.dl = sub[x].quar, !.todo = @ \ {x}]
          IN  \/ Become(w, nst)
              \/ \E p \in OpenPayments(x) :
                    Become(w, [nst EXCEPT !.pc = "issue", !.ret = "reapq2", !.p = p])
    BY Zenon, <1>4 DEF ReapHold
  <2> DEFINE nst == [st EXCEPT !.pc = "reapq2", !.x = x, !.dl = sub[x].quar, !.todo = @ \ {x}]
  <2>1. x \in Subs /\ st.s \in Subs /\ sub[x].quar \in Time
    BY Zenon, <1>0, <1>4 DEF HoldsToVisit, WorkerState, ReapHold, At, SessionOK, Settling, TypeInv,
                      TypeOK, SubRow
  <2>2. nst \in WorkerState
    BY Zenon, <1>0, <2>1 DEF WorkerState, Steps
  <2>3. SessionOK(nst, Used)
    BY <1>0, <2>1 DEF WorkerState, SessionOK, Settling
  <2>4. UNCHANGED <<now, sub, lease, pay, invoice, rowLock, acctLock>>
    BY Zenon, <1>4 DEF ReapHold
  <2>5. CASE Become(w, nst)
    BY <1>0, <2>2, <2>3, <2>4, <2>5, QuietStep
  <2>6. ASSUME NEW p \in OpenPayments(x),
               Become(w, [nst EXCEPT !.pc = "issue", !.ret = "reapq2", !.p = p])
        PROVE  TypeInv'
    <3>1. p \in Used /\ p \in Payments
      BY <1>0a, <2>1 DEF Used
    <3>2. [nst EXCEPT !.pc = "issue", !.ret = "reapq2", !.p = p] \in WorkerState
      BY Zenon, <1>0, <2>1, <3>1 DEF WorkerState, Steps
    <3>3. SessionOK([nst EXCEPT !.pc = "issue", !.ret = "reapq2", !.p = p], Used)
      BY <1>0, <2>1, <3>1 DEF WorkerState, SessionOK, Settling
    <3> QED BY <1>0, <2>4, <2>6, <3>2, <3>3, QuietStep
  <2> QED BY Zenon, <2>0, <2>5, <2>6
<1>5. CASE ReapHoldsDone(w)
  <2> DEFINE nst == [st EXCEPT !.pc = "reapr", !.todo = Subs]
  <2>1. nst \in WorkerState
    BY Zenon, <1>0 DEF WorkerState, Steps
  <2>2. SessionOK(nst, Used)
    BY <1>0, <1>5 DEF ReapHoldsDone, At, WorkerState, SessionOK, Settling
  <2> QED BY <1>0, <1>5, <2>1, <2>2, QuietStep DEF ReapHoldsDone
<1>6. CASE ReapReservation(w)
  <2>0. PICK x \in ReservationsToVisit(w) :
          Become(w, [st EXCEPT !.pc = "reapr2", !.x = x, !.snap = sub[x],
                               !.todo = @ \ {x}, !.p = None])
    BY Zenon, <1>6 DEF ReapReservation
  <2> DEFINE nst == [st EXCEPT !.pc = "reapr2", !.x = x, !.snap = sub[x],
                               !.todo = @ \ {x}, !.p = None]
  <2>1. x \in Subs /\ sub[x] \in SubRow /\ RowOK(sub[x], Used) /\ sub[x].resPay # None
    BY Zenon, <1>0 DEF ReservationsToVisit, WorkerState, TypeInv, TypeOK, RowOK
  <2>2. nst \in WorkerState
    BY Zenon, <1>0, <2>1 DEF WorkerState, Steps
  <2>3. SessionOK(nst, Used)
    BY Zenon, <1>0, <1>6, <2>1 DEF ReapReservation, At, WorkerState, SessionOK, Settling
  <2> QED BY Zenon, <1>0, <1>6, <2>0, <2>2, <2>3, QuietStep DEF ReapReservation
<1>7. CASE LoadForPayment(w)
  <2>1. st.s \in Subs
    BY <1>0, <1>7 DEF LoadForPayment, At, SessionOK, Settling
  <2>2. CASE sub[st.s].status = "cancelled"
    BY <1>0, <1>7, <2>2, IdleType, IdleOK, QuietStep DEF LoadForPayment
  <2>3. CASE sub[st.s].status # "cancelled"
    <3> DEFINE nst == [Idle EXCEPT !.pc = "insert", !.s = st.s, !.snap = sub[st.s]]
    <3>1. sub[st.s] \in SubRow /\ RowOK(sub[st.s], Used)
      BY <2>1 DEF TypeInv, TypeOK
    <3>2. nst \in WorkerState
      BY Zenon, <2>1, <3>1 DEF Idle, WorkerState, Steps, Time, NoTime
    <3>3. SessionOK(nst, Used)
      BY <2>1, <3>1 DEF Idle, SessionOK, Settling
    <3>4. Become(w, nst)
      BY <1>7, <2>3 DEF LoadForPayment
    <3> QED BY <1>0, <1>7, <3>2, <3>3, <3>4, QuietStep DEF LoadForPayment
  <2> QED BY <2>2, <2>3
<1>8. CASE InsertFails(w)
  BY Zenon, <1>0, <1>8, IdleType, IdleOK, QuietStep DEF InsertFails
<1>9. CASE InsertConflict(w)
  <2>0. PICK p \in OpenPayments(st.s) : Become(w, [Idle EXCEPT !.pc = "issue", !.p = p])
    BY Zenon, <1>9 DEF InsertConflict
  <2>1. p \in Used /\ p \in Payments
    BY Zenon DEF OpenPayments, Used
  <2>2. [Idle EXCEPT !.pc = "issue", !.p = p] \in WorkerState
    BY Zenon, <2>1, IdleType DEF Idle, WorkerState, Steps
  <2>3. SessionOK([Idle EXCEPT !.pc = "issue", !.p = p], Used)
    BY <2>1, IdleOK DEF Idle, SessionOK, Settling
  <2> QED BY Zenon, <1>0, <1>9, <2>0, <2>2, <2>3, QuietStep DEF InsertConflict
<1> QED BY <1>1, <1>2, <1>3, <1>4, <1>5, <1>6, <1>7, <1>8, <1>9

\* The two passes of the reaper that write rows.
LEMMA ReapHoldActType ==
    ASSUME TypeInv, NEW w \in Workers, ReapHoldAct(w)
    PROVE  TypeInv'
<1> USE NoneAssumption, OwnerAssumption, ProductAssumption, TimeAssumption, LimitAssumption
<1> DEFINE st == worker[w]
           x == worker[w].x
           nst == [st EXCEPT !.pc = "reapq", !.x = None, !.p = None, !.dl = NoTime]
<1>1. /\ st \in WorkerState /\ SessionOK(st, Used) /\ st.pc = "reapq2"
      /\ Unlock(w) \in [Accounts -> Workers \cup {None}]
  BY UnlockType DEF TypeInv, TypeOK, ReapHoldAct, At
<1>2. /\ x \in Subs /\ sub[x] \in SubRow /\ RowOK(sub[x], Used) /\ lease[x] \in LeaseRow
  BY <1>1 DEF SessionOK, TypeInv, TypeOK
<1>3. nst \in WorkerState
  BY Zenon, <1>1 DEF WorkerState, Steps, Time, NoTime
<1>4. SessionOK(nst, Used)
  BY <1>1 DEF WorkerState, SessionOK, Settling
<1>5. Become(w, nst) /\ UNCHANGED <<now, pay, invoice, rowLock>> /\ Used' = Used
  BY DEF ReapHoldAct, Used
<1>6. acctLock' \in [Accounts -> Workers \cup {None}]
  BY <1>1 DEF ReapHoldAct, TypeInv, TypeOK
<1>7. RenewalEnd(sub[x]) \in Time
  BY Zenon, <1>2, RenewalEndType
<1>8. CASE UNCHANGED <<sub, lease>>
  <2> HIDE DEF nst
  <2> QED BY <1>3, <1>4, <1>5, <1>6, <1>8, QuietStep DEF TypeInv, TypeOK
<1>9. CASE /\ sub' = [sub EXCEPT ![x].quar = RenewalEnd(sub[x])]
           /\ lease' = [lease EXCEPT ![x] =
                 IF Product[x] = "ip" /\ @.addr = sub[x].assigned
                 THEN [@ EXCEPT !.until = RenewalEnd(sub[x])] ELSE @]
  <2>1. [sub[x] EXCEPT !.quar = RenewalEnd(sub[x])] \in SubRow
    BY <1>2, <1>7 DEF SubRow
  <2>2. RowOK([sub[x] EXCEPT !.quar = RenewalEnd(sub[x])], Used)
    BY <1>2 DEF SubRow, RowOK
  <2>3. [lease[x] EXCEPT !.until = RenewalEnd(sub[x])] \in LeaseRow
    BY <1>2, <1>7 DEF LeaseRow
  <2>4. /\ sub' \in [Subs -> SubRow] /\ \A t \in Subs : RowOK(sub'[t], Used')
        /\ lease' \in [Subs -> LeaseRow]
    BY <1>2, <1>5, <1>9, <2>1, <2>2, <2>3 DEF TypeInv, TypeOK
  <2> HIDE DEF nst
  <2> QED BY <1>3, <1>4, <1>5, <1>6, <2>4, RowStep DEF TypeInv, TypeOK
<1>10. CASE /\ sub' = [sub EXCEPT ![x].assigned = None, ![x].quar = NoTime]
            /\ lease' = [lease EXCEPT ![x] = NoLease]
  <2> DEFINE row == [sub[x] EXCEPT !.assigned = None, !.quar = NoTime]
  <2>1. row \in SubRow
    BY Zenon, <1>2 DEF SubRow, Time, NoTime
  <2>2. RowOK(row, Used)
    BY <1>2 DEF SubRow, RowOK
  <2>3. NoLease \in LeaseRow
    BY DEF NoLease, LeaseRow, Time, NoTime
  <2>4. sub' = [sub EXCEPT ![x] = row]
    BY Zenon, <1>2, <1>10 DEF TypeInv, TypeOK
  <2> HIDE DEF nst, row
  <2>5. /\ sub' \in [Subs -> SubRow] /\ \A t \in Subs : RowOK(sub'[t], Used')
        /\ lease' \in [Subs -> LeaseRow]
    BY <1>2, <1>5, <1>10, <2>1, <2>2, <2>3, <2>4 DEF TypeInv, TypeOK
  <2> QED BY <1>3, <1>4, <1>5, <1>6, <2>5, RowStep DEF TypeInv, TypeOK
<1> QED BY Zenon, <1>8, <1>9, <1>10 DEF ReapHoldAct

LEMMA ReapReservationActType ==
    ASSUME TypeInv, NEW w \in Workers, ReapReservationAct(w)
    PROVE  TypeInv'
<1> USE NoneAssumption, OwnerAssumption, ProductAssumption, TimeAssumption, LimitAssumption
<1> DEFINE st == worker[w]
           x == worker[w].x
           snap == worker[w].snap
           p == snap.resPay
<1>1. /\ st \in WorkerState /\ SessionOK(st, Used) /\ st.pc = "reapr2"
      /\ Unlock(w) \in [Accounts -> Workers \cup {None}]
  BY UnlockType DEF TypeInv, TypeOK, ReapReservationAct, At
<1>2. /\ x \in Subs /\ snap \in SubRow /\ RowOK(snap, Used) /\ p \in Used /\ p \in Payments
      /\ sub[x] \in SubRow /\ RowOK(sub[x], Used) /\ st.s \in Subs /\ now \in Nat
  BY Zenon, <1>1 DEF SessionOK, TypeInv, TypeOK, WorkerState, RowOK, Used, Settling
<1>3. UNCHANGED <<now, pay, invoice, rowLock>> /\ Used' = Used
  BY DEF ReapReservationAct, Used
<1>4. CASE pay[p].status = "pending"
  <2> DEFINE nst == [Settle(w, p, "reapr") EXCEPT !.x = None, !.snap = NewSub]
  <2>1. nst \in WorkerState
    BY Zenon, <1>1, <1>2, IdleType DEF Settle, WorkerState, Steps
  <2>2. SessionOK(nst, Used)
    BY <1>1, <1>2 DEF Settle, WorkerState, SessionOK, Settling, RowOK, NewSub
  <2> QED BY <1>3, <1>4, <2>1, <2>2, QuietStep DEF ReapReservationAct, TypeInv, TypeOK
<1>5. CASE pay[p].status # "pending"
  <2> DEFINE nst == [st EXCEPT !.pc = "reapr", !.x = None, !.snap = NewSub]
  <2>1. nst \in WorkerState
    BY Zenon, <1>1, IdleType DEF WorkerState, Steps
  <2>2. SessionOK(nst, Used)
    BY <1>1, <1>2 DEF WorkerState, SessionOK, Settling, RowOK, NewSub
  <2>3. Become(w, nst)
    BY <1>5 DEF ReapReservationAct
  <2> HIDE DEF nst
  <2>4. CASE MayRelease(snap, p)
    <3>1. /\ sub' = [sub EXCEPT ![x] = Flush(@, snap, ReleaseReservation(snap, p))]
          /\ lease' = [lease EXCEPT ![x] = NoLease]
          /\ acctLock' = Unlock(w)
      BY <1>5, <2>4 DEF ReapReservationAct
    <3>2. ReleaseReservation(snap, p) = Unassigned(snap)
      BY <2>4 DEF ReleaseReservation
    <3>3. Unassigned(snap) \in SubRow /\ RowOK(Unassigned(snap), Used)
      BY Zenon, <1>2, EditTypes, EditPaired
    <3>4. Unassigned(snap).resPay # snap.resPay /\ Unassigned(snap).resUntil # snap.resUntil
      BY <1>2 DEF Unassigned, SubRow, RowOK
    <3>5. /\ Flush(sub[x], snap, Unassigned(snap)) \in SubRow
          /\ RowOK(Flush(sub[x], snap, Unassigned(snap)), Used)
      BY Zenon, <1>2, <3>3, <3>4, FlushType, FlushPaired
    <3>6. /\ sub' \in [Subs -> SubRow] /\ \A t \in Subs : RowOK(sub'[t], Used')
      BY Zenon, <1>2, <1>3, <3>1, <3>2, <3>5 DEF TypeInv, TypeOK
    <3>7. lease' \in [Subs -> LeaseRow]
      BY Zenon, <3>1 DEF TypeInv, TypeOK, NoLease, LeaseRow, Time, NoTime
    <3> QED BY Zenon, <1>1, <1>3, <2>1, <2>2, <2>3, <3>1, <3>6, <3>7, RowStep DEF TypeInv, TypeOK
  <2>5. CASE ~MayRelease(snap, p)
    BY <1>3, <1>5, <2>1, <2>2, <2>3, <2>5, QuietStep DEF ReapReservationAct, TypeInv, TypeOK
  <2> QED BY <2>4, <2>5
<1> QED BY <1>4, <1>5

\* The insert of a payment.
LEMMA InsertType ==
    ASSUME TypeInv, NEW w \in Workers, NEW p \in Payments, InsertPayment(w, p)
    PROVE  TypeInv'
<1> USE NoneAssumption, OwnerAssumption, ProductAssumption, TimeAssumption, LimitAssumption
<1> DEFINE s == worker[w].s
           snap == worker[w].snap
           nst == [Idle EXCEPT !.pc = "issue", !.p = p]
<1>1. /\ worker[w] \in WorkerState /\ SessionOK(worker[w], Used) /\ worker[w].pc = "insert"
      /\ Unlock(w) \in [Accounts -> Workers \cup {None}] /\ now \in Nat
  BY Zenon, UnlockType DEF TypeInv, TypeOK, InsertPayment, At
<1>2. /\ s \in Subs /\ snap \in SubRow /\ RowOK(snap, Used)
      /\ sub[s] \in SubRow /\ RowOK(sub[s], Used)
  BY Zenon, <1>1 DEF SessionOK, TypeInv, TypeOK, WorkerState, Settling
<1>3. PICK ttl \in Nat : Stage(w, p, s, ttl)
  <2>0. \A d \in Int : BoundedExpiry(d) \in Int
    BY Zenon, <1>1, ExpiryType
  <2>1. BoundedExpiry(EligibilityDeadline(snap)) \in Int
    <3>1. snap.resUntil \in Int /\ snap.quar \in Int
      BY <1>2 DEF SubRow, Time, NoTime
    <3>2. EligibilityDeadline(snap) \in Int
      BY <3>1 DEF EligibilityDeadline, MinTime, NoTime
    <3> QED BY <2>0, <3>2
  <2>2. BoundedExpiry(now + ResTTL) \in Int
    BY <1>1, <2>0
  <2>3. \/ /\ BoundedExpiry(EligibilityDeadline(snap)) > 0
           /\ Stage(w, p, s, BoundedExpiry(EligibilityDeadline(snap)))
        \/ /\ BoundedExpiry(now + ResTTL) > 0
           /\ Stage(w, p, s, BoundedExpiry(now + ResTTL))
    BY Zenon DEF InsertPayment
  <2>4. ASSUME NEW ttl \in Int, ttl > 0, Stage(w, p, s, ttl)
        PROVE  \E t \in Nat : Stage(w, p, s, t)
    BY <2>4
  <2> QED BY <2>1, <2>2, <2>3, <2>4
<1>4. pay' \in [Payments -> PayRow]
  BY <1>1, <1>2, <1>3 DEF Stage, TypeInv, TypeOK, PayRow, Time
<1>5. /\ \A q \in Payments : q # p => pay'[q] = pay[q]
      /\ pay'[p].status = "pending" /\ pay'[p].sub = s
  BY <1>3 DEF Stage, TypeInv, TypeOK
<1>6. Used' = Used \cup {p} /\ \A q \in Used' : pay'[q].sub \in Subs
  BY <1>2, <1>5 DEF Used, TypeInv
<1>7. nst \in WorkerState
  BY Zenon, IdleType DEF Idle, WorkerState, Steps
<1>8. SessionOK(nst, Used')
  BY <1>6 DEF Idle, SessionOK, Settling, RowOK, NewSub
<1>9. Become(w, nst) /\ UNCHANGED <<now, invoice, rowLock>> /\ acctLock' = Unlock(w)
  BY <1>3 DEF Stage
<1> HIDE DEF nst
<1>10. CASE UNCHANGED <<sub, lease>>
  <2>1. \A t \in Subs : RowOK(sub'[t], Used')
    BY Zenon, <1>6, <1>10 DEF TypeInv, RowOK
  <2> QED BY Zenon, <1>1, <1>4, <1>6, <1>7, <1>8, <1>9, <1>10, <2>1, RowStep DEF TypeInv, TypeOK
<1>11. ASSUME MayReserve(snap), NEW a \in FreeFor(s),
              sub' = [sub EXCEPT ![s] = Flush(@, snap, Reserved(snap, p, a))],
              lease' = [lease EXCEPT ![s] =
                 IF Product[s] = "ip"
                 THEN [state |-> "reserved", addr |-> a, until |-> NoTime] ELSE @]
       PROVE  TypeInv'
  <2>1. a \in Addrs
    BY Zenon, <1>2, <1>11 DEF FreeFor
  <2>2. Reserved(snap, p, a) \in SubRow /\ RowOK(Reserved(snap, p, a), Used')
    BY <1>1, <1>2, <1>6, <2>1, ReservedType
  <2>3. Reserved(snap, p, a).resPay # snap.resPay /\ Reserved(snap, p, a).resUntil # snap.resUntil
    <3>1. snap.resPay = None /\ snap.resUntil = NoTime
      BY <1>11 DEF MayReserve
    <3>2. Reserved(snap, p, a).resPay = p /\ Reserved(snap, p, a).resUntil = now + ResTTL
      BY <1>2 DEF Reserved, SubRow
    <3>3. now + ResTTL # NoTime
      BY <1>1 DEF NoTime
    <3>4. p # None
      OBVIOUS
    <3> QED BY Zenon, <3>1, <3>2, <3>3, <3>4
  <2>4. RowOK(sub[s], Used') /\ \A t \in Subs : RowOK(sub[t], Used')
    BY <1>2, <1>6 DEF TypeInv, RowOK
  <2>5. /\ Flush(sub[s], snap, Reserved(snap, p, a)) \in SubRow
        /\ RowOK(Flush(sub[s], snap, Reserved(snap, p, a)), Used')
    BY Zenon, <1>2, <2>2, <2>3, <2>4, FlushType, FlushPaired
  <2>6. sub' \in [Subs -> SubRow] /\ \A t \in Subs : RowOK(sub'[t], Used')
    BY Zenon, <1>2, <1>11, <2>4, <2>5 DEF TypeInv, TypeOK
  <2>7. lease' \in [Subs -> LeaseRow]
    BY Zenon, <1>2, <1>11, <2>1 DEF TypeInv, TypeOK, LeaseRow, Time, NoTime
  <2> QED BY Zenon, <1>1, <1>4, <1>6, <1>7, <1>8, <1>9, <2>6, <2>7, RowStep DEF TypeInv, TypeOK
<1> QED BY Zenon, <1>10, <1>11 DEF InsertPayment

\* cancel_pending_subscription
LEMMA CancelType ==
    ASSUME TypeInv, NEW w \in Workers, Cancel(w) \/ \E s \in Subs : StartCancel(w, s)
    PROVE  TypeInv'
<1> USE NoneAssumption, OwnerAssumption, ProductAssumption, TimeAssumption, LimitAssumption
<1>0. /\ worker[w] \in WorkerState /\ SessionOK(worker[w], Used)
      /\ Unlock(w) \in [Accounts -> Workers \cup {None}]
      /\ rowLock \in [Payments -> Workers \cup {None}]
      /\ acctLock \in [Accounts -> Workers \cup {None}]
  BY UnlockType DEF TypeInv, TypeOK
<1>1. CASE Cancel(w)
  <2> DEFINE s == worker[w].s
             row == [Unassigned(sub[s]) EXCEPT !.status = "cancelled", !.quar = NoTime]
  <2>1. s \in Subs /\ sub[s] \in SubRow /\ RowOK(sub[s], Used)
    BY <1>0, <1>1 DEF Cancel, At, SessionOK, Settling, TypeInv, TypeOK
  <2>2. Become(w, Idle) /\ UNCHANGED <<now, pay, invoice, rowLock>> /\ Used' = Used
        /\ acctLock' = Unlock(w)
    BY <1>1 DEF Cancel, Used
  <2>3. CASE UNCHANGED <<sub, lease>>
    BY <1>0, <2>2, <2>3, IdleType, IdleOK, QuietStep
  <2>4. CASE sub' = [sub EXCEPT ![s] = row] /\ lease' = [lease EXCEPT ![s] = NoLease]
    <3>1. row \in SubRow /\ RowOK(row, Used)
      BY Zenon, <2>1 DEF Unassigned, SubRow, RowOK, Time, NoTime
    <3>2. NoLease \in LeaseRow
      BY DEF NoLease, LeaseRow, Time, NoTime
    <3> HIDE DEF row
    <3>3. /\ sub' \in [Subs -> SubRow] /\ \A t \in Subs : RowOK(sub'[t], Used')
          /\ lease' \in [Subs -> LeaseRow]
      BY Zenon, <2>1, <2>2, <2>4, <3>1, <3>2 DEF TypeInv, TypeOK
    <3> QED BY <1>0, <2>2, <3>3, IdleType, IdleOK, RowStep DEF TypeInv, TypeOK
  <2> QED BY <1>1, <2>3, <2>4 DEF Cancel
<1>2. ASSUME NEW s \in Subs, StartCancel(w, s) PROVE TypeInv'
  <2>0. acctLock' \in [Accounts -> Workers \cup {None}]
    BY Zenon, <1>0, <1>2 DEF StartCancel
  <2>1. CASE Become(w, [Idle EXCEPT !.pc = "cancel", !.s = s])
    <3>1. [Idle EXCEPT !.pc = "cancel", !.s = s] \in WorkerState
      BY Zenon, IdleType DEF Idle, WorkerState, Steps
    <3>2. SessionOK([Idle EXCEPT !.pc = "cancel", !.s = s], Used)
      BY IdleOK DEF Idle, SessionOK, Settling
    <3> QED BY Zenon, <1>0, <1>2, <2>0, <2>1, <3>1, <3>2, QuietStep DEF StartCancel
  <2>2. ASSUME NEW p \in OpenPayments(s), Become(w, [Settle(w, p, "cancel") EXCEPT !.s = s])
        PROVE  TypeInv'
    <3>1. p \in Used
      BY DEF OpenPayments, Used
    <3> QED BY Zenon, <1>0, <1>2, <2>0, <2>2, <3>1, SettleOK, QuietStep DEF StartCancel
  <2> QED BY Zenon, <1>2, <2>1, <2>2 DEF StartCancel
<1> QED BY <1>1, <1>2

\* The steps of the environment.
LEMMA EnvironmentType ==
    ASSUME TypeInv,
           \/ \E s \in Subs : ExpireElapsed(s)
           \/ \E p \in Payments : PayInvoice(p)
           \/ Tick \/ UNCHANGED vars
    PROVE  TypeInv'
<1> USE NoneAssumption, OwnerAssumption, ProductAssumption, TimeAssumption, LimitAssumption
<1>1. ASSUME NEW s \in Subs, ExpireElapsed(s) PROVE TypeInv'
  <2>1. Used' = Used
    BY Zenon, <1>1 DEF ExpireElapsed, Used
  <2>2. /\ sub' \in [Subs -> SubRow] /\ \A t \in Subs : RowOK(sub'[t], Used')
        /\ lease' \in [Subs -> LeaseRow]
    BY Zenon, <1>1, <2>1, ElapseRows DEF ExpireElapsed
  <2> QED BY Zenon, <1>1, <2>1, <2>2 DEF ExpireElapsed, TypeInv, TypeOK
<1>2. ASSUME NEW p \in Payments, PayInvoice(p) PROVE TypeInv'
  <2>1. invoice' \in [Payments -> Invoice]
    BY <1>2 DEF PayInvoice, TypeInv, TypeOK, Invoice
  <2>2. Used' = Used
    BY <1>2 DEF PayInvoice, Used
  <2> QED BY <1>2, <2>1, <2>2 DEF PayInvoice, TypeInv, TypeOK
<1>3. CASE Tick
  <2>0. now \in Nat
    BY DEF TypeInv, TypeOK
  <2>2. now' = now + 1 /\ UNCHANGED <<sub, lease, pay, invoice, rowLock, acctLock, worker>>
    BY <1>3 DEF Tick
  <2>1. Used' = Used /\ now' \in Nat
    BY <2>0, <2>2 DEF Used
  <2>3. TypeOK'
    BY <2>1, <2>2 DEF TypeInv, TypeOK
  <2> QED BY <2>1, <2>2, <2>3 DEF TypeInv
<1>4. CASE UNCHANGED vars
  <2>1. Used' = Used
    BY Zenon, <1>4 DEF vars, Used
  <2> QED BY Zenon, <1>4, <2>1 DEF vars, TypeInv, TypeOK
<1> QED BY <1>1, <1>2, <1>3, <1>4

LEMMA TypeStep == TypeInv /\ [Next]_vars => TypeInv'
<1> USE NoneAssumption, OwnerAssumption, ProductAssumption, TimeAssumption, LimitAssumption
<1> SUFFICES ASSUME TypeInv, [Next]_vars PROVE TypeInv'
  OBVIOUS
<1>1. ASSUME NEW w \in Workers, Step(w) PROVE TypeInv'
  <2>1. CASE IssueExpired(w) \/ DecideExpired(w)
    BY <2>1, ExpirePaymentType DEF IssueExpired, DecideExpired, Unissued, At, Settling
  <2>2. CASE Issue(w)
    BY <2>2, IssueType
  <2>3. CASE Grant(w)
    BY <2>3, GrantType
  <2>4. CASE IssueNothing(w) \/ Poll(w) \/ Finalize(w) \/ DecideNothing(w) \/ GrantFails(w)
    BY <2>4, SettleQuietType
  <2>5. CASE ReapHoldAct(w) \/ ReapReservationAct(w) \/ \E p \in Payments : InsertPayment(w, p)
    BY <2>5, ReapHoldActType, ReapReservationActType, InsertType
  <2>6. CASE \/ LockAccount(w) \/ ExpireOwn(w) \/ ReapHold(w) \/ ReapHoldsDone(w)
             \/ ReapReservation(w) \/ LoadForPayment(w) \/ InsertFails(w) \/ InsertConflict(w)
    BY <2>6, CreateType
  <2>7. CASE Cancel(w)
    BY <2>7, CancelType
  <2> QED BY <1>1, <2>1, <2>2, <2>3, <2>4, <2>5, <2>6, <2>7 DEF Step
<1>2. ASSUME NEW w \in Workers,
             \/ ProviderFails(w) \/ IssueCrash(w) \/ Crash(w)
             \/ \E p \in Payments : StartSettle(w, p)
             \/ \E s \in Subs : StartCreate(w, s) \/ StartCancel(w, s)
      PROVE TypeInv'
  BY <1>2, SettleQuietType, IssueType, CreateType, CancelType
<1> QED BY <1>1, <1>2, EnvironmentType DEF Next

\* Rows, locks and session registers keep their types through every interleaving
\* of the settlement handlers; in particular every reservation is owned by an
\* inserted payment and has a deadline, so the orphan branch of the reaper is
\* never taken for rows this code wrote.
THEOREM TypeCorrect == Spec => []TypeOK
<1> USE NoneAssumption, OwnerAssumption, ProductAssumption, TimeAssumption, LimitAssumption
<1>1. TypeInv => TypeOK
  BY DEF TypeInv
<1> QED BY <1>1, InitTypeInv, TypeStep, PTL DEF Spec

-----------------------------------------------------------------------------
(* Settlement.                                                             *)

\* What a session knows once the provider reported a settlement, and what it
\* holds while it grants the period: the payment row is locked and open, and the
\* paid-up end it loaded is still the stored one, however stale the other columns
\* of the loaded row are.
Holding(w, st, py, inv, lock, sb) ==
    /\ (st.pc = "grant" \/ (st.pc = "decide" /\ st.seen)) => inv[st.p].state = "settled"
    /\ st.pc = "grant" =>
          /\ lock[st.p] = w
          /\ py[st.p].status = "pending"
          /\ st.snap.pend = sb[py[st.p].sub].pend

HoldInv ==
    /\ TypeInv
    /\ OneOpenPayment
    /\ \A w \in Workers : Holding(w, worker[w], pay, invoice, rowLock, sub)

\* A step that writes no assignment to a row and leaves every paid-up end.
RowsQuiet ==
    \A s \in Subs : /\ sub'[s].pend = sub[s].pend
                    /\ sub'[s].assigned \in {sub[s].assigned, None}

\* The locks of the other sessions stay.
LocksKept(w) ==
    \A p \in Payments, v \in Workers : v # w /\ rowLock[p] = v => rowLock'[p] = v

\* Only session w moves, and not to a point where it holds a settlement.
Moves(w) ==
    /\ \A v \in Workers : v # w => worker'[v] = worker[v]
    /\ worker'[w].pc \notin {"decide", "grant"}

-----------------------------------------------------------------------------
(* What each step does to the ledger's view *)

\* Steps that touch neither payments nor invoices.
Aside(w) ==
    \/ IssueNothing(w) \/ DecideNothing(w) \/ GrantFails(w) \/ ProviderFails(w) \/ Crash(w)
    \/ \E p \in Payments : StartSettle(w, p)
    \/ \E s \in Subs : StartCreate(w, s) \/ StartCancel(w, s)
    \/ LockAccount(w) \/ ExpireOwn(w) \/ ReapHold(w) \/ ReapHoldAct(w) \/ ReapHoldsDone(w)
    \/ ReapReservation(w) \/ ReapReservationAct(w) \/ LoadForPayment(w)
    \/ InsertFails(w) \/ InsertConflict(w) \/ Cancel(w)

LEMMA AsidePlain ==
    ASSUME HoldInv, NEW w \in Workers, Aside(w)
    PROVE  UNCHANGED <<now, pay, invoice>>
BY Zenon DEF Aside, IssueNothing, DecideNothing, GrantFails, ProviderFails, Crash, StartSettle,
       StartCreate, StartCancel, LockAccount, ExpireOwn, ReapHold, ReapHoldAct, ReapHoldsDone,
       ReapReservation, ReapReservationAct, LoadForPayment, InsertFails, InsertConflict, Cancel

LEMMA AsideLocks ==
    ASSUME HoldInv, NEW w \in Workers, Aside(w)
    PROVE  LocksKept(w)
<1>0. /\ rowLock \in [Payments -> Workers \cup {None}]
      /\ worker[w] \in WorkerState /\ SessionOK(worker[w], Used)
  BY DEF HoldInv, TypeInv, TypeOK
<1>1. CASE GrantFails(w)
  <2>1. rowLock[worker[w].p] = w
    BY <1>1 DEF GrantFails, At, HoldInv, Holding
  <2> QED BY <1>0, <1>1, <2>1 DEF GrantFails, LocksKept
<1>2. CASE Crash(w)
  BY <1>0, <1>2 DEF Crash, LocksKept
<1>3. CASE UNCHANGED rowLock
  BY <1>3 DEF LocksKept
<1>4. Aside(w) /\ ~GrantFails(w) /\ ~Crash(w) => UNCHANGED rowLock
  BY Zenon DEF Aside, IssueNothing, DecideNothing, ProviderFails, StartSettle,
         StartCreate, StartCancel, LockAccount, ExpireOwn, ReapHold, ReapHoldAct, ReapHoldsDone,
         ReapReservation, ReapReservationAct, LoadForPayment, InsertFails, InsertConflict, Cancel
<1> QED BY <1>1, <1>2, <1>3, <1>4

\* Becoming st moves only session w.
LEMMA BecomeMoves ==
    ASSUME TypeInv, NEW w \in Workers, NEW st, Become(w, st)
    PROVE  worker'[w] = st /\ \A v \in Workers : v # w => worker'[v] = worker[v]
BY DEF Become, TypeInv, TypeOK

\* A call that returns or fails leaves check_and_settle_payment.
LEMMA ReturnPc ==
    ASSUME TypeInv, NEW w \in Workers
    PROVE  /\ Returned(w).pc \notin {"decide", "grant"}
           /\ Failed(w).pc \notin {"decide", "grant"}
<1>1. worker[w] \in WorkerState
  BY DEF TypeInv, TypeOK
<1>2. Returned(w).pc \notin {"decide", "grant"}
  BY <1>1 DEF Returned, WorkerState, Idle
<1>3. Failed(w).pc \notin {"decide", "grant"}
  <2>1. CASE worker[w].ret = "reapq2"
    BY <1>1, <2>1 DEF Failed, WorkerState
  <2>2. CASE worker[w].ret # "reapq2"
    BY <2>2 DEF Failed, Idle
  <2> QED BY <2>1, <2>2
<1> QED BY <1>2, <1>3

LEMMA AsideMoves ==
    ASSUME HoldInv, NEW w \in Workers, Aside(w)
    PROVE  Moves(w)
<1> DEFINE st == worker[w]
<1>0. TypeInv /\ st \in WorkerState
  BY DEF HoldInv, TypeInv, TypeOK
<1> DEFINE Leaves == \E nst : Become(w, nst) /\ nst.pc \notin {"decide", "grant"}
<1>1. SUFFICES Leaves
  BY <1>0, BecomeMoves DEF Moves
<1>2. CASE IssueNothing(w)
  <2>1. [st EXCEPT !.pc = "poll"].pc = "poll"
    BY <1>0 DEF WorkerState
  <2> QED BY Zenon, <1>0, <1>2, <2>1, ReturnPc DEF IssueNothing, Goto
<1>3. CASE DecideNothing(w) \/ GrantFails(w) \/ ProviderFails(w)
  BY <1>0, <1>3, ReturnPc DEF DecideNothing, GrantFails, ProviderFails
<1>4. CASE Crash(w) \/ InsertFails(w) \/ Cancel(w)
  BY <1>4 DEF Crash, InsertFails, Cancel, Idle
<1>5. CASE InsertConflict(w)
  <2>1. \A p : [Idle EXCEPT !.pc = "issue", !.p = p].pc = "issue"
    BY DEF Idle
  <2> QED BY Zenon, <1>5, <2>1 DEF InsertConflict
<1>6. ASSUME NEW p \in Payments, StartSettle(w, p) PROVE Leaves
  <2>1. Settle(w, p, "idle").pc = "issue"
    BY <1>0 DEF Settle, WorkerState
  <2> QED BY <1>6, <2>1 DEF StartSettle
<1>7. ASSUME NEW s \in Subs, StartCreate(w, s) \/ StartCancel(w, s)
      PROVE  Leaves
  <2>1. [Idle EXCEPT !.pc = "lock", !.s = s].pc = "lock" /\ [Idle EXCEPT !.pc = "cancel", !.s = s].pc = "cancel"
    BY DEF Idle
  <2>2. \A p : /\ [Settle(w, p, "lock") EXCEPT !.s = s].pc = "issue"
               /\ [Settle(w, p, "cancel") EXCEPT !.s = s].pc = "issue"
    BY <1>0 DEF Settle, WorkerState
  <2>3. CASE StartCreate(w, s)
    BY Zenon, <2>1, <2>2, <2>3 DEF StartCreate
  <2>4. CASE StartCancel(w, s)
    BY Zenon, <2>1, <2>2, <2>4 DEF StartCancel
  <2> QED BY <1>7, <2>3, <2>4
<1>8. CASE LockAccount(w)
  <2>1. Idle.pc = "idle" /\ [st EXCEPT !.pc = "expire", !.p = None].pc = "expire"
    BY <1>0 DEF WorkerState, Idle
  <2> QED BY Zenon, <1>8, <2>1 DEF LockAccount
<1>9. CASE ExpireOwn(w) \/ ReapHoldAct(w) \/ ReapHoldsDone(w)
  <2>1. /\ [st EXCEPT !.pc = "reapq", !.t = now, !.todo = Subs].pc = "reapq"
        /\ [st EXCEPT !.pc = "reapq", !.x = None, !.p = None, !.dl = NoTime].pc = "reapq"
        /\ [st EXCEPT !.pc = "reapr", !.todo = Subs].pc = "reapr"
    BY <1>0 DEF WorkerState
  <2> QED BY Zenon, <1>9, <2>1 DEF ExpireOwn, ReapHoldAct, ReapHoldsDone
<1>10. CASE ReapHold(w)
  <2>0. PICK x \in HoldsToVisit(w) :
          LET nst == [st EXCEPT !.pc = "reapq2", !.x = x, !.dl = sub[x].quar, !.todo = @ \ {x}]
          IN  \/ Become(w, nst)
              \/ \E p \in OpenPayments(x) :
                    Become(w, [nst EXCEPT !.pc = "issue", !.ret = "reapq2", !.p = p])
    BY Zenon, <1>10 DEF ReapHold
  <2> DEFINE nst == [st EXCEPT !.pc = "reapq2", !.x = x, !.dl = sub[x].quar, !.todo = @ \ {x}]
  <2>1. /\ nst.pc = "reapq2"
        /\ \A p : [nst EXCEPT !.pc = "issue", !.ret = "reapq2", !.p = p].pc = "issue"
    BY <1>0 DEF WorkerState
  <2> QED BY Zenon, <2>0, <2>1
<1>11. CASE ReapReservation(w)
  <2>1. \A y : [st EXCEPT !.pc = "reapr2", !.x = y, !.snap = sub[y],
                          !.todo = @ \ {y}, !.p = None].pc = "reapr2"
    BY <1>0 DEF WorkerState
  <2> QED BY Zenon, <1>11, <2>1 DEF ReapReservation
<1>12. CASE ReapReservationAct(w)
  <2>1. \A p : [Settle(w, p, "reapr") EXCEPT !.x = None, !.snap = NewSub].pc = "issue"
    BY <1>0 DEF Settle, WorkerState
  <2>2. [st EXCEPT !.pc = "reapr", !.x = None, !.snap = NewSub].pc = "reapr"
    BY <1>0 DEF WorkerState
  <2> QED BY Zenon, <1>12, <2>1, <2>2 DEF ReapReservationAct
<1>13. CASE LoadForPayment(w)
  <2>1. Idle.pc = "idle" /\ [Idle EXCEPT !.pc = "insert", !.s = st.s, !.snap = sub[st.s]].pc = "insert"
    BY DEF Idle
  <2> QED BY Zenon, <1>13, <2>1 DEF LoadForPayment
<1> QED BY <1>2, <1>3, <1>4, <1>5, <1>6, <1>7, <1>8, <1>9, <1>10, <1>11, <1>12, <1>13 DEF Aside

\* expire_elapsed_subscriptions keeps the assignment and the paid-up end.
LEMMA ElapseQuiet ==
    ASSUME TypeInv, NEW s \in Subs, sub' = [sub EXCEPT ![s] = Elapse(@)]
    PROVE  RowsQuiet
<1>1. sub \in [Subs -> SubRow] /\ sub[s] \in SubRow
  BY DEF TypeInv, TypeOK
<1>2. Elapse(sub[s]).pend = sub[s].pend /\ Elapse(sub[s]).assigned = sub[s].assigned
  BY <1>1 DEF Elapse, SubRow
<1> QED BY <1>1, <1>2 DEF RowsQuiet

LEMMA AsideRows ==
    ASSUME HoldInv, NEW w \in Workers, Aside(w)
    PROVE  RowsQuiet
<1> DEFINE st == worker[w]
           x == worker[w].x
           snap == worker[w].snap
<1>0. TypeInv /\ st \in WorkerState /\ SessionOK(st, Used) /\ sub \in [Subs -> SubRow]
      /\ snap \in SubRow
  BY DEF HoldInv, TypeInv, TypeOK, WorkerState
<1>1. CASE UNCHANGED sub
  BY <1>1 DEF RowsQuiet
<1>2. CASE ExpireOwn(w)
  <2>1. st.s \in Subs
    BY <1>0, <1>2 DEF ExpireOwn, At, SessionOK, Settling
  <2> QED BY <1>0, <1>1, <1>2, <2>1, ElapseQuiet DEF ExpireOwn
<1>3. CASE ReapHoldAct(w)
  <2>1. x \in Subs /\ sub[x] \in SubRow
    BY <1>0, <1>3 DEF ReapHoldAct, At, SessionOK
  <2>2. CASE sub' = [sub EXCEPT ![x].quar = RenewalEnd(sub[x])]
    BY <1>0, <2>1, <2>2 DEF RowsQuiet, SubRow
  <2>3. CASE sub' = [sub EXCEPT ![x].assigned = None, ![x].quar = NoTime]
    BY <1>0, <2>1, <2>3 DEF RowsQuiet, SubRow
  <2> QED BY <1>1, <1>3, <2>2, <2>3 DEF ReapHoldAct
<1>4. CASE ReapReservationAct(w)
  <2>1. x \in Subs /\ sub[x] \in SubRow
    BY <1>0, <1>4 DEF ReapReservationAct, At, SessionOK
  <2>2. CASE sub' = [sub EXCEPT ![x] = Flush(@, snap, ReleaseReservation(snap, snap.resPay))]
    <3>1. /\ ReleaseReservation(snap, snap.resPay).pend = snap.pend
          /\ ReleaseReservation(snap, snap.resPay).assigned \in {snap.assigned, None}
      BY <1>0 DEF ReleaseReservation, Unassigned, SubRow
    <3>2. /\ Flush(sub[x], snap, ReleaseReservation(snap, snap.resPay)).pend = sub[x].pend
          /\ Flush(sub[x], snap, ReleaseReservation(snap, snap.resPay)).assigned
                \in {sub[x].assigned, None}
      BY <3>1 DEF Flush, Dirty
    <3> QED BY <1>0, <2>1, <2>2, <3>2 DEF RowsQuiet
  <2> QED BY <1>1, <1>4, <2>2 DEF ReapReservationAct
<1>5. CASE Cancel(w)
  <2> DEFINE row == [Unassigned(sub[st.s]) EXCEPT !.status = "cancelled", !.quar = NoTime]
  <2>1. st.s \in Subs /\ sub[st.s] \in SubRow
    BY <1>0, <1>5 DEF Cancel, At, SessionOK, Settling
  <2>2. row.pend = sub[st.s].pend /\ row.assigned = None
    BY <2>1 DEF Unassigned, SubRow
  <2>3. UNCHANGED sub \/ sub' = [sub EXCEPT ![st.s] = row]
    BY <1>5 DEF Cancel
  <2> HIDE DEF row
  <2> QED BY <1>0, <1>1, <2>1, <2>2, <2>3 DEF RowsQuiet
<1> QED BY Zenon, <1>1, <1>2, <1>3, <1>4, <1>5
        DEF Aside, IssueNothing, DecideNothing, GrantFails, ProviderFails, Crash, StartSettle,
            StartCreate, StartCancel, LockAccount, ReapHold, ReapHoldsDone,
            ReapReservation, LoadForPayment, InsertFails, InsertConflict

-----------------------------------------------------------------------------
(* The steps as steps of the ledger *)

\* A payment's entry in the ledger stays.
EntryKept(p) ==
    /\ pay'[p].status = pay[p].status /\ pay'[p].sub = pay[p].sub
    /\ (invoice'[p].state = "settled") = (invoice[p].state = "settled")

LEMMA LedgerStutters ==
    ASSUME TypeInv, now' = now, \A p \in Payments : EntryKept(p),
           \A s \in Subs : sub'[s].pend = sub[s].pend
    PROVE  UNCHANGED Ledger!vars
<1>1. [p \in Payments |-> pay'[p].status] = [p \in Payments |-> pay[p].status]
  BY DEF EntryKept
<1>2. [p \in Payments |-> pay'[p].sub] = [p \in Payments |-> pay[p].sub]
  BY DEF EntryKept
<1>3. [p \in Payments |-> invoice'[p].state = "settled"]
        = [p \in Payments |-> invoice[p].state = "settled"]
  BY DEF EntryKept
<1>4. [s \in Subs |-> sub'[s].pend] = [s \in Subs |-> sub[s].pend]
  OBVIOUS
<1> QED BY <1>1, <1>2, <1>3, <1>4 DEF Ledger!vars

LEMMA LedgerExpires ==
    ASSUME TypeInv, NEW p \in Payments, now' = now, pay[p].status = "pending",
           pay' = [pay EXCEPT ![p].status = "expired"], invoice' = invoice,
           \A s \in Subs : sub'[s].pend = sub[s].pend
    PROVE  Ledger!Expire(p)
<1>0. pay \in [Payments -> PayRow]
  BY DEF TypeInv, TypeOK
<1>1. [q \in Payments |-> pay'[q].status]
        = [[q \in Payments |-> pay[q].status] EXCEPT ![p] = "expired"]
  BY Zenon, <1>0 DEF PayRow
<1>2. [q \in Payments |-> pay'[q].sub] = [q \in Payments |-> pay[q].sub]
  BY <1>0 DEF PayRow
<1>3. [s \in Subs |-> sub'[s].pend] = [s \in Subs |-> sub[s].pend]
  OBVIOUS
<1> QED BY <1>1, <1>2, <1>3 DEF Ledger!Expire

LEMMA LedgerOpens ==
    ASSUME TypeInv, NEW p \in Payments, NEW s \in Subs, now' = now,
           pay[p].status = "unused", OpenPayments(s) = {},
           \A q \in Payments : q # p => pay'[q] = pay[q],
           pay' \in [Payments -> PayRow],
           pay'[p].status = "pending", pay'[p].sub = s, invoice' = invoice,
           \A t \in Subs : sub'[t].pend = sub[t].pend
    PROVE  Ledger!Open(p, s)
<1>0. pay \in [Payments -> PayRow]
  BY DEF TypeInv, TypeOK
<1>1. [q \in Payments |-> pay'[q].status]
        = [[q \in Payments |-> pay[q].status] EXCEPT ![p] = "pending"]
  BY Zenon, <1>0
<1>2. [q \in Payments |-> pay'[q].sub] = [[q \in Payments |-> pay[q].sub] EXCEPT ![p] = s]
  BY Zenon, <1>0
<1>3. [t \in Subs |-> sub'[t].pend] = [t \in Subs |-> sub[t].pend]
  OBVIOUS
<1>4. \A q \in Payments : ~(pay[q].status = "pending" /\ pay[q].sub = s)
  BY DEF OpenPayments
<1> QED BY <1>1, <1>2, <1>3, <1>4 DEF Ledger!Open

\* The step that pays: one period from now, or from the end that was paid up to.
LEMMA LedgerCredits ==
    ASSUME HoldInv, NEW w \in Workers, Grant(w), NEW p \in Payments, p = worker[w].p
    PROVE  Ledger!Credit(p)
<1> DEFINE s == pay[p].sub
           snap == worker[w].snap
           end == Granted(snap, p).pend
<1>0. /\ pay \in [Payments -> PayRow] /\ sub \in [Subs -> SubRow] /\ now \in Nat
      /\ p \in Payments /\ s \in Subs /\ snap \in SubRow
  BY Zenon DEF HoldInv, TypeInv, TypeOK, WorkerState, SessionOK, Used, Settling, Grant, At
<1>1. /\ invoice[p].state = "settled" /\ pay[p].status = "pending" /\ snap.pend = sub[s].pend
  BY DEF HoldInv, Holding, Grant, At
<1>2. end \in {MaxOf(sub[s].pend, now) + Period, now + Period}
  BY <1>0, <1>1 DEF Granted, Renewed, Activated, SubRow
<1>3. Flush(sub[s], snap, Granted(snap, p)).pend = end
  BY <1>1 DEF Flush, Dirty
<1>4. [t \in Subs |-> sub'[t].pend] = [[t \in Subs |-> sub[t].pend] EXCEPT ![s] = end]
  BY Zenon, <1>0, <1>3 DEF Grant
<1>5. [q \in Payments |-> pay'[q].status]
        = [[q \in Payments |-> pay[q].status] EXCEPT ![p] = "paid"]
  BY ZenonT(30), <1>0 DEF Grant, PayRow
<1>6. [q \in Payments |-> pay'[q].sub] = [q \in Payments |-> pay[q].sub]
  BY <1>0 DEF Grant, PayRow
<1>7. now' = now /\ invoice' = invoice
  BY DEF Grant
<1>8. \E from \in {now, Ledger!Later(sub[s].pend, now)} : end = from + Period
  BY <1>2 DEF Ledger!Later, MaxOf
<1> HIDE DEF end
<1> QED BY Zenon, <1>0, <1>1, <1>4, <1>5, <1>6, <1>7, <1>8 DEF Ledger!Credit

LEMMA IssueKeeps ==
    ASSUME TypeInv, NEW w \in Workers, Issue(w) \/ IssueCrash(w)
    PROVE  (\A p \in Payments : EntryKept(p)) /\ UNCHANGED <<now, sub, rowLock>>
<1>0. /\ pay \in [Payments -> PayRow] /\ invoice \in [Payments -> Invoice]
      /\ worker[w].p \in Payments
  BY Zenon DEF TypeInv, TypeOK, SessionOK, Used, Settling, Issue, IssueCrash, Unissued, At
<1>1. (Looked(worker[w].p).state = "settled") = (invoice[worker[w].p].state = "settled")
  BY <1>0 DEF Looked, Invoice
<1>2. \A p \in Payments : (invoice'[p].state = "settled") = (invoice[p].state = "settled")
  BY <1>0, <1>1 DEF Issue, IssueCrash
<1>3. \A p \in Payments : pay'[p].status = pay[p].status /\ pay'[p].sub = pay[p].sub
  BY <1>0 DEF Issue, IssueCrash, PayRow
<1> QED BY <1>2, <1>3 DEF EntryKept, Issue, IssueCrash

LEMMA ExpireRows ==
    ASSUME TypeInv, NEW w \in Workers, IssueExpired(w) \/ DecideExpired(w)
    PROVE  /\ worker[w].p \in Payments /\ ExpirePayment(w, worker[w].p) /\ RowsQuiet
<1> DEFINE p == worker[w].p
           s == pay[p].sub
<1>1. /\ p \in Payments /\ s \in Subs /\ sub \in [Subs -> SubRow] /\ sub[s] \in SubRow
      /\ ExpirePayment(w, p)
  BY Zenon DEF TypeInv, TypeOK, SessionOK, Used, Settling, IssueExpired, DecideExpired, Unissued, At
<1>2. /\ ReleaseReservation(sub[s], p).pend = sub[s].pend
      /\ ReleaseReservation(sub[s], p).assigned \in {sub[s].assigned, None}
  BY <1>1 DEF ReleaseReservation, Unassigned, SubRow
<1> QED BY Zenon, <1>1, <1>2 DEF ExpirePayment, RowsQuiet

\* An insert leaves every row alone, or gives one row an assignment that is free.
LEMMA InsertRows ==
    ASSUME TypeInv, NEW w \in Workers, NEW p \in Payments, InsertPayment(w, p)
    PROVE  /\ \A t \in Subs : sub'[t].pend = sub[t].pend
           /\ \/ sub' = sub
              \/ \E s \in Subs, a \in Addrs :
                    /\ \A t \in Subs : sub[t].assigned # a
                    /\ sub'[s].assigned \in {sub[s].assigned, a}
                    /\ \A t \in Subs : t # s => sub'[t] = sub[t]
<1> DEFINE s == worker[w].s
           snap == worker[w].snap
<1>1. /\ s \in Subs /\ snap \in SubRow /\ sub \in [Subs -> SubRow]
  BY DEF TypeInv, TypeOK, InsertPayment, At, SessionOK, WorkerState, Settling
<1>2. CASE UNCHANGED sub
  BY <1>2
<1>3. ASSUME NEW a \in FreeFor(s), sub' = [sub EXCEPT ![s] = Flush(@, snap, Reserved(snap, p, a))]
      PROVE  /\ \A t \in Subs : sub'[t].pend = sub[t].pend
             /\ \E r \in Subs, b \in Addrs :
                    /\ \A t \in Subs : sub[t].assigned # b
                    /\ sub'[r].assigned \in {sub[r].assigned, b}
                    /\ \A t \in Subs : t # r => sub'[t] = sub[t]
  <2>1. a \in Addrs /\ \A t \in Subs : sub[t].assigned # a
    BY <1>1, ProductAssumption DEF FreeFor
  <2>2. Reserved(snap, p, a).pend = snap.pend /\ Reserved(snap, p, a).assigned = a
    BY <1>1 DEF Reserved, SubRow
  <2>3. /\ Flush(sub[s], snap, Reserved(snap, p, a)).pend = sub[s].pend
        /\ Flush(sub[s], snap, Reserved(snap, p, a)).assigned \in {sub[s].assigned, a}
    BY <2>2 DEF Flush, Dirty
  <2>4. PICK x : /\ x.pend = sub[s].pend /\ x.assigned \in {sub[s].assigned, a}
                 /\ sub' = [sub EXCEPT ![s] = x]
    BY Zenon, <1>3, <2>3
  <2>5. sub'[s] = x /\ \A t \in Subs : t # s => sub'[t] = sub[t]
    BY Zenon, <1>1, <2>4
  <2>6. \A t \in Subs : sub'[t].pend = sub[t].pend
    BY Zenon, <2>4, <2>5
  <2> QED BY Zenon, <1>1, <2>1, <2>4, <2>5, <2>6
<1> QED BY Zenon, <1>2, <1>3 DEF InsertPayment

\* Every step of a session, of a customer or of the clock is a step of the
\* ledger, or invisible to it.
LEMMA LedgerStep == HoldInv /\ [Next]_vars => [Ledger!Next]_(Ledger!vars)
<1> SUFFICES ASSUME HoldInv, [Next]_vars PROVE Ledger!Next \/ UNCHANGED Ledger!vars
  OBVIOUS
<1>0. TypeInv
  BY DEF HoldInv
<1>1. ASSUME NEW w \in Workers, Aside(w) PROVE UNCHANGED Ledger!vars
  <2>1. UNCHANGED <<now, pay, invoice>> /\ RowsQuiet
    BY <1>1, AsidePlain, AsideRows
  <2> QED BY <1>0, <2>1, LedgerStutters DEF EntryKept, RowsQuiet
<1>2. ASSUME NEW w \in Workers, Poll(w) \/ Finalize(w) PROVE UNCHANGED Ledger!vars
  <2>1. UNCHANGED <<now, pay, invoice, sub>>
    BY <1>2 DEF Poll, Finalize
  <2> QED BY <1>0, <2>1, LedgerStutters DEF EntryKept
<1>3. ASSUME NEW w \in Workers, Issue(w) \/ IssueCrash(w) PROVE UNCHANGED Ledger!vars
  BY <1>0, <1>3, IssueKeeps, LedgerStutters
<1>4. ASSUME NEW w \in Workers, IssueExpired(w) \/ DecideExpired(w) PROVE Ledger!Next
  <2>1. PICK p \in Payments : p = worker[w].p
    BY <1>0, <1>4, ExpireRows
  <2>2. ExpirePayment(w, p) /\ RowsQuiet
    BY <1>0, <1>4, <2>1, ExpireRows
  <2>3. Ledger!Expire(p)
    BY Zenon, <1>0, <2>2, LedgerExpires DEF ExpirePayment, RowsQuiet
  <2> QED BY <2>3 DEF Ledger!Next
<1>5. ASSUME NEW w \in Workers, Grant(w) PROVE Ledger!Next
  <2>1. PICK p \in Payments : p = worker[w].p
    BY Zenon, <1>5 DEF HoldInv, TypeInv, TypeOK, SessionOK, Used, Settling, Grant, At
  <2> QED BY <1>5, <2>1, LedgerCredits DEF Ledger!Next
<1>6. ASSUME NEW w \in Workers, NEW p \in Payments, InsertPayment(w, p) PROVE Ledger!Next
  <2>0. PICK s \in Subs : s = worker[w].s
    BY <1>0, <1>6 DEF TypeInv, InsertPayment, At, SessionOK, Settling
  <2>1. OpenPayments(s) = {} /\ pay \in [Payments -> PayRow]
    BY <1>0, <1>6, <2>0 DEF TypeInv, TypeOK, InsertPayment, MayInsert
  <2>2. PICK ttl : Stage(w, p, s, ttl)
    BY Zenon, <1>6, <2>0 DEF InsertPayment
  <2>3. /\ pay[p].status = "unused" /\ now' = now /\ invoice' = invoice
        /\ \A q \in Payments : q # p => pay'[q] = pay[q]
        /\ pay'[p].status = "pending" /\ pay'[p].sub = s
    BY <2>1, <2>2 DEF Stage
  <2>4. TypeInv'
    BY <1>0, <1>6, InsertType
  <2>5. pay' \in [Payments -> PayRow]
    BY <2>4 DEF TypeInv, TypeOK
  <2>6. Ledger!Open(p, s)
    BY <1>0, <1>6, <2>1, <2>3, <2>5, InsertRows, LedgerOpens
  <2> QED BY <2>6 DEF Ledger!Next
<1>7. ASSUME NEW s \in Subs, ExpireElapsed(s) PROVE UNCHANGED Ledger!vars
  <2>1. UNCHANGED <<now, pay, invoice>> /\ RowsQuiet
    BY Zenon, <1>0, <1>7, ElapseQuiet DEF ExpireElapsed
  <2> QED BY <1>0, <2>1, LedgerStutters DEF EntryKept, RowsQuiet
<1>8. ASSUME NEW p \in Payments, PayInvoice(p) PROVE Ledger!Next
  <2>1. [q \in Payments |-> invoice'[q].state = "settled"]
          = [[q \in Payments |-> invoice[q].state = "settled"] EXCEPT ![p] = TRUE]
    BY ZenonT(30), <1>0, <1>8 DEF PayInvoice, TypeInv, TypeOK, Invoice
  <2>2. Ledger!Receive(p)
    BY <1>8, <2>1 DEF PayInvoice, Ledger!Receive
  <2> QED BY <2>2 DEF Ledger!Next
<1>9. CASE Tick
  BY <1>9 DEF Tick, Ledger!Tick, Ledger!Next
<1>10. CASE UNCHANGED vars
  BY <1>10 DEF vars, Ledger!vars
<1> QED BY <1>1, <1>2, <1>3, <1>4, <1>5, <1>6, <1>7, <1>8, <1>9, <1>10 DEF Next, Step, Aside

-----------------------------------------------------------------------------
(* The inductive invariant *)

\* The ledger itself keeps at most one payment of a subscription open, and never
\* forgets a settlement.
LEMMA LedgerKeeps ==
    ASSUME Ledger!Next \/ UNCHANGED Ledger!vars
    PROVE  /\ OneOpenPayment => OneOpenPayment'
           /\ PaidWasSettled => PaidWasSettled'
           /\ \A p \in Payments : invoice[p].state = "settled" => invoice'[p].state = "settled"
<1> DEFINE status == [p \in Payments |-> pay[p].status]
           owner == [p \in Payments |-> pay[p].sub]
           settled == [p \in Payments |-> invoice[p].state = "settled"]
           Kept == /\ OneOpenPayment => OneOpenPayment'
                   /\ PaidWasSettled => PaidWasSettled'
                   /\ \A p \in Payments :
                         invoice[p].state = "settled" => invoice'[p].state = "settled"
<1>0. /\ \A p \in Payments : /\ status[p] = pay[p].status /\ owner[p] = pay[p].sub
                             /\ settled[p] = (invoice[p].state = "settled")
      /\ \A p \in Payments : /\ status'[p] = pay'[p].status /\ owner'[p] = pay'[p].sub
                             /\ settled'[p] = (invoice'[p].state = "settled")
  OBVIOUS
<1>1. CASE UNCHANGED Ledger!vars
  <2>1. status' = status /\ owner' = owner /\ settled' = settled
    BY <1>1 DEF Ledger!vars
  <2> HIDE DEF status, owner, settled
  <2>2. \A p \in Payments : /\ pay'[p].status = pay[p].status /\ pay'[p].sub = pay[p].sub
                            /\ invoice[p].state = "settled" => invoice'[p].state = "settled"
    BY Zenon, <1>0, <2>1
  <2> QED BY Zenon, <2>2 DEF OneOpenPayment, PaidWasSettled
<1>2. ASSUME NEW p \in Payments, Ledger!Receive(p) PROVE Kept
  <2>1. status' = status /\ owner' = owner /\ settled' = [settled EXCEPT ![p] = TRUE]
    BY <1>2 DEF Ledger!Receive
  <2>2. \A q \in Payments : settled[q] => settled'[q]
    BY Zenon, <2>1
  <2> HIDE DEF status, owner, settled
  <2>3. \A q \in Payments : pay'[q].status = pay[q].status /\ pay'[q].sub = pay[q].sub
    BY Zenon, <1>0, <2>1
  <2>4. \A q \in Payments : invoice[q].state = "settled" => invoice'[q].state = "settled"
    BY Zenon, <1>0, <2>2
  <2> QED BY <2>3, <2>4 DEF OneOpenPayment, PaidWasSettled
<1>3. ASSUME NEW p \in Payments, Ledger!Credit(p) PROVE Kept
  <2>1. /\ status' = [status EXCEPT ![p] = "paid"] /\ owner' = owner /\ settled' = settled
        /\ settled[p]
    BY <1>3 DEF Ledger!Credit
  <2>2. \A q \in Payments : status'[q] = IF q = p THEN "paid" ELSE status[q]
    BY Zenon, <2>1
  <2> HIDE DEF status, owner, settled
  <2>3. \A q \in Payments : /\ pay'[q].status = IF q = p THEN "paid" ELSE pay[q].status
                            /\ pay'[q].sub = pay[q].sub
    BY <1>0, <2>1, <2>2
  <2>4. (\A q \in Payments : (invoice'[q].state = "settled") = (invoice[q].state = "settled")) /\ invoice[p].state = "settled"
    BY Zenon, <1>0, <2>1
  <2>5. OneOpenPayment => OneOpenPayment'
    BY <2>3 DEF OneOpenPayment
  <2>6. PaidWasSettled => PaidWasSettled'
    BY <2>3, <2>4 DEF PaidWasSettled
  <2> QED BY <2>4, <2>5, <2>6
<1>4. ASSUME NEW p \in Payments, Ledger!Expire(p) PROVE Kept
  <2>1. status' = [status EXCEPT ![p] = "expired"] /\ owner' = owner /\ settled' = settled
    BY <1>4 DEF Ledger!Expire
  <2>2. \A q \in Payments : status'[q] = IF q = p THEN "expired" ELSE status[q]
    BY Zenon, <2>1
  <2> HIDE DEF status, owner, settled
  <2>3. \A q \in Payments : /\ pay'[q].status = IF q = p THEN "expired" ELSE pay[q].status
                            /\ pay'[q].sub = pay[q].sub
    BY <1>0, <2>1, <2>2
  <2>4. (\A q \in Payments : (invoice'[q].state = "settled") = (invoice[q].state = "settled"))
    BY <1>0, <2>1
  <2>5. OneOpenPayment => OneOpenPayment'
    BY <2>3 DEF OneOpenPayment
  <2>6. PaidWasSettled => PaidWasSettled'
    BY <2>3, <2>4 DEF PaidWasSettled
  <2> QED BY <2>4, <2>5, <2>6
<1>5. ASSUME NEW p \in Payments, NEW s \in Subs, Ledger!Open(p, s) PROVE Kept
  <2>1. /\ status' = [status EXCEPT ![p] = "pending"] /\ owner' = [owner EXCEPT ![p] = s]
        /\ settled' = settled
        /\ \A q \in Payments : ~(status[q] = "pending" /\ owner[q] = s)
    BY <1>5 DEF Ledger!Open
  <2>2. \A q \in Payments : /\ status'[q] = IF q = p THEN "pending" ELSE status[q]
                            /\ owner'[q] = IF q = p THEN s ELSE owner[q]
    BY Zenon, <2>1
  <2> HIDE DEF status, owner, settled
  <2> QED BY <1>0, <2>1, <2>2 DEF OneOpenPayment, PaidWasSettled
<1>6. CASE Ledger!Tick
  <2>1. status' = status /\ owner' = owner /\ settled' = settled
    BY <1>6 DEF Ledger!Tick
  <2> HIDE DEF status, owner, settled
  <2>2. \A p \in Payments : /\ pay'[p].status = pay[p].status /\ pay'[p].sub = pay[p].sub
                            /\ invoice[p].state = "settled" => invoice'[p].state = "settled"
    BY Zenon, <1>0, <2>1
  <2> QED BY Zenon, <2>2 DEF OneOpenPayment, PaidWasSettled
<1> QED BY <1>1, <1>2, <1>3, <1>4, <1>5, <1>6 DEF Ledger!Next

\* What the other sessions hold survives a step of session w.
LEMMA OthersHold ==
    ASSUME HoldInv, NEW w \in Workers, LocksKept(w),
           \A v \in Workers : v # w => worker'[v] = worker[v],
           Holding(w, worker'[w], pay', invoice', rowLock', sub'),
           \A p \in Payments : invoice[p].state = "settled" => invoice'[p].state = "settled",
           \A p \in Payments : rowLock[p] \in Workers /\ rowLock[p] # w =>
              /\ pay'[p].status = pay[p].status /\ pay'[p].sub = pay[p].sub
              /\ pay[p].status = "pending" => sub'[pay[p].sub].pend = sub[pay[p].sub].pend
    PROVE  \A v \in Workers : Holding(v, worker'[v], pay', invoice', rowLock', sub')
<1> SUFFICES ASSUME NEW v \in Workers, v # w
             PROVE  Holding(v, worker[v], pay', invoice', rowLock', sub')
  OBVIOUS
<1>1. Holding(v, worker[v], pay, invoice, rowLock, sub)
  BY DEF HoldInv
<1>2. worker[v].pc \in {"decide", "grant"} => worker[v].p \in Payments
  BY Zenon DEF HoldInv, TypeInv, SessionOK, Used, Settling
<1>3. worker[v].pc = "grant" => rowLock'[worker[v].p] = v
  BY Zenon, <1>1, <1>2 DEF Holding, LocksKept
<1> QED BY <1>1, <1>2, <1>3 DEF Holding

LEMMA HoldStep == HoldInv /\ [Next]_vars => HoldInv'
<1> SUFFICES ASSUME HoldInv, [Next]_vars PROVE HoldInv'
  OBVIOUS
<1> DEFINE Held == \A v \in Workers : Holding(v, worker'[v], pay', invoice', rowLock', sub')
<1>0. /\ TypeInv /\ TypeInv' /\ OneOpenPayment'
      /\ \A p \in Payments : invoice[p].state = "settled" => invoice'[p].state = "settled"
  BY TypeStep, LedgerStep, LedgerKeeps DEF HoldInv
<1>0a. rowLock \in [Payments -> Workers \cup {None}] /\ pay \in [Payments -> PayRow]
  BY <1>0 DEF TypeInv, TypeOK
<1>0b. \A p \in Payments : pay[p].status = "pending" => pay[p].sub \in Subs
  BY <1>0 DEF TypeInv, Used
<1>0c. ASSUME NEW w \in Workers, Moves(w) PROVE Holding(w, worker'[w], pay', invoice', rowLock', sub')
  BY <1>0c DEF Moves, Holding
<1>1. ASSUME NEW w \in Workers, Aside(w) PROVE Held
  <2>1. UNCHANGED <<now, pay, invoice>> /\ LocksKept(w) /\ Moves(w) /\ RowsQuiet
    BY <1>1, AsidePlain, AsideLocks, AsideMoves, AsideRows
  <2>2. Holding(w, worker'[w], pay', invoice', rowLock', sub')
    BY <1>0c, <2>1
  <2> QED BY <1>0, <1>0b, <2>1, <2>2, OthersHold DEF Moves, RowsQuiet
<1>2. ASSUME NEW w \in Workers, Poll(w) PROVE Held
  <2> DEFINE nst == [worker[w] EXCEPT !.pc = "decide",
                                      !.seen = invoice[worker[w].p].state = "settled"]
  <2>1. /\ UNCHANGED <<pay, invoice, sub, rowLock>> /\ worker[w] \in WorkerState
        /\ worker'[w] = nst /\ \A v \in Workers : v # w => worker'[v] = worker[v]
    BY <1>0, <1>2, BecomeMoves DEF Poll, TypeInv, TypeOK
  <2>2. nst.pc = "decide" /\ nst.p = worker[w].p
        /\ nst.seen = (invoice[worker[w].p].state = "settled")
    BY <2>1 DEF WorkerState
  <2> HIDE DEF nst
  <2>3. Holding(w, worker'[w], pay', invoice', rowLock', sub')
    BY Zenon, <2>1, <2>2 DEF Holding
  <2> QED BY <2>1, <2>3, OthersHold DEF LocksKept
<1>3. ASSUME NEW w \in Workers, Finalize(w) PROVE Held
  <2> DEFINE p == worker[w].p
             nst == [worker[w] EXCEPT !.pc = "grant", !.snap = sub[pay[worker[w].p].sub]]
  <2>1. /\ UNCHANGED <<pay, invoice, sub>> /\ worker[w] \in WorkerState
        /\ worker'[w] = nst /\ \A v \in Workers : v # w => worker'[v] = worker[v]
    BY <1>0, <1>3, BecomeMoves DEF Finalize, TypeInv, TypeOK
  <2>2. nst.pc = "grant" /\ nst.p = p /\ nst.snap = sub[pay[p].sub]
    BY <2>1 DEF WorkerState
  <2>3. p \in Payments
    BY Zenon, <1>0, <1>3 DEF Finalize, At, TypeInv, SessionOK, Used, Settling
  <2>4. /\ rowLock' = [rowLock EXCEPT ![p] = w] /\ rowLock[p] = None
        /\ pay[p].status = "pending" /\ invoice[p].state = "settled"
    BY <1>3 DEF Finalize, At, HoldInv, Holding
  <2> HIDE DEF nst
  <2>5. Holding(w, worker'[w], pay', invoice', rowLock', sub')
    BY <1>0a, <2>1, <2>2, <2>3, <2>4 DEF Holding
  <2>6. LocksKept(w)
    BY <1>0a, <2>3, <2>4, NoneAssumption DEF LocksKept
  <2> QED BY <2>1, <2>5, <2>6, OthersHold
<1>4. ASSUME NEW w \in Workers, Issue(w) \/ IssueCrash(w) PROVE Held
  <2>1. (\A p \in Payments : EntryKept(p)) /\ UNCHANGED <<sub, rowLock>>
    BY <1>0, <1>4, IssueKeeps
  <2>2. Idle.pc = "idle" /\ [worker[w] EXCEPT !.pc = "poll"].pc = "poll"
    BY <1>0 DEF Idle, TypeInv, TypeOK, WorkerState
  <2>3. Moves(w)
    BY Zenon, <1>0, <1>4, <2>2, BecomeMoves DEF Issue, IssueCrash, Goto, Moves
  <2>4. Holding(w, worker'[w], pay', invoice', rowLock', sub')
    BY <1>0c, <2>3
  <2> QED BY Zenon, <1>0, <2>1, <2>3, <2>4, OthersHold DEF Moves, EntryKept, LocksKept
<1>5. ASSUME NEW w \in Workers, IssueExpired(w) \/ DecideExpired(w) PROVE Held
  <2> DEFINE p == worker[w].p
  <2>1. p \in Payments /\ ExpirePayment(w, p) /\ RowsQuiet
    BY <1>0, <1>5, ExpireRows
  <2>2. Moves(w) /\ rowLock' = rowLock /\ rowLock[p] = None
        /\ \A q \in Payments : q # p => pay'[q] = pay[q]
    BY <1>0, <1>0a, <2>1, ReturnPc, BecomeMoves DEF ExpirePayment, Moves
  <2>3. Holding(w, worker'[w], pay', invoice', rowLock', sub')
    BY <1>0c, <2>2
  <2> QED BY <1>0, <1>0b, <2>1, <2>2, <2>3, NoneAssumption, OthersHold
          DEF Moves, LocksKept, RowsQuiet
<1>6. ASSUME NEW w \in Workers, Grant(w) PROVE Held
  <2> DEFINE p == worker[w].p
             s == pay[p].sub
  <2>1. p \in Payments /\ s \in Subs /\ rowLock[p] = w /\ pay[p].status = "pending"
    BY Zenon, <1>6 DEF HoldInv, Holding, TypeInv, SessionOK, Used, Settling, Grant, At
  <2>2. /\ Moves(w) /\ rowLock' = [rowLock EXCEPT ![p] = None]
        /\ \A q \in Payments : q # p => pay'[q] = pay[q]
        /\ \A t \in Subs : t # s => sub'[t] = sub[t]
    <3>1. /\ pay \in [Payments -> PayRow] /\ sub \in [Subs -> SubRow] /\ TypeInv
      BY Zenon, <1>0 DEF HoldInv, TypeInv, TypeOK
    <3>2. /\ pay' = [pay EXCEPT ![p].status = "paid"] /\ rowLock' = [rowLock EXCEPT ![p] = None]
          /\ sub' = [sub EXCEPT ![s] = Flush(@, worker[w].snap, Granted(worker[w].snap, p))]
          /\ Become(w, Returned(w))
      BY Zenon, <1>6 DEF Grant
    <3>3. Moves(w)
      BY Zenon, <3>1, <3>2, ReturnPc, BecomeMoves DEF Moves
    <3> QED BY <3>1, <3>2, <3>3
  <2>3. \A q \in Payments : q # p /\ pay[q].status = "pending" => pay[q].sub # s
    BY <2>1 DEF HoldInv, OneOpenPayment
  <2>4. LocksKept(w)
    BY <1>0a, <2>1, <2>2 DEF LocksKept
  <2>5. Holding(w, worker'[w], pay', invoice', rowLock', sub')
    BY Zenon, <1>0c, <2>2
  <2>6. \A q \in Payments : rowLock[q] \in Workers /\ rowLock[q] # w =>
          /\ pay'[q].status = pay[q].status /\ pay'[q].sub = pay[q].sub
          /\ pay[q].status = "pending" => sub'[pay[q].sub].pend = sub[pay[q].sub].pend
    BY <1>0b, <2>1, <2>2, <2>3
  <2> QED BY Zenon, <1>0, <2>2, <2>4, <2>5, <2>6, OthersHold DEF Moves
<1>7. ASSUME NEW w \in Workers, NEW p \in Payments, InsertPayment(w, p) PROVE Held
  <2>1. PICK ttl : Stage(w, p, worker[w].s, ttl)
    BY <1>7 DEF InsertPayment
  <2>2. [Idle EXCEPT !.pc = "issue", !.p = p].pc = "issue"
    BY DEF Idle
  <2>3. Moves(w) /\ rowLock' = rowLock /\ invoice' = invoice
        /\ \A q \in Payments : q # p => pay'[q] = pay[q]
    BY Zenon, <1>0, <1>0a, <2>1, <2>2, BecomeMoves DEF Stage, Moves
  <2>4. Holding(w, worker'[w], pay', invoice', rowLock', sub')
    BY <1>0c, <2>3
  <2>5. pay[p].status = "unused"
    BY <2>1 DEF Stage
  <2>6. \A v \in Workers : v # w => Holding(v, worker[v], pay', invoice', rowLock', sub')
    <3> SUFFICES ASSUME NEW v \in Workers, v # w
                 PROVE  Holding(v, worker[v], pay', invoice', rowLock', sub')
      OBVIOUS
    <3>1. Holding(v, worker[v], pay, invoice, rowLock, sub)
      BY DEF HoldInv
    <3>2. worker[v].pc \in {"decide", "grant"} => worker[v].p \in Used
      BY <1>0 DEF TypeInv, SessionOK, Settling
    <3>3. worker[v].p \in Used => worker[v].p # p /\ worker[v].p \in Payments
                                   /\ pay[worker[v].p].sub \in Subs
      BY <1>0, <2>5 DEF Used, TypeInv
    <3> QED BY ZenonT(30), <1>0, <1>7, <2>3, <3>1, <3>2, <3>3, InsertRows DEF Holding
  <2> QED BY <2>3, <2>4, <2>6 DEF Moves
<1>8. ASSUME (\E s \in Subs : ExpireElapsed(s)) \/ (\E p \in Payments : PayInvoice(p))
             \/ Tick \/ UNCHANGED vars
      PROVE  Held
  <2>1. /\ UNCHANGED <<pay, rowLock, worker>> /\ \A s \in Subs : sub'[s].pend = sub[s].pend
    <3>1. ASSUME NEW s \in Subs, ExpireElapsed(s)
          PROVE  /\ UNCHANGED <<pay, rowLock, worker>>
                 /\ \A t \in Subs : sub'[t].pend = sub[t].pend
      BY Zenon, <1>0, <3>1, ElapseQuiet DEF ExpireElapsed, RowsQuiet
    <3> QED BY <1>8, <3>1 DEF PayInvoice, Tick, vars
  <2> SUFFICES ASSUME NEW v \in Workers
               PROVE  Holding(v, worker[v], pay, invoice', rowLock, sub')
    BY <2>1
  <2>2. Holding(v, worker[v], pay, invoice, rowLock, sub)
    BY DEF HoldInv
  <2>3. worker[v].pc \in {"decide", "grant"} => worker[v].p \in Payments
    BY Zenon, <1>0 DEF TypeInv, SessionOK, Settling, Used
  <2> QED BY <1>0, <1>0b, <2>1, <2>2, <2>3 DEF Holding
<1>9. Held
  BY <1>1, <1>2, <1>3, <1>4, <1>5, <1>6, <1>7, <1>8 DEF Next, Step, Aside
<1> QED BY <1>0, <1>9 DEF HoldInv

LEMMA InitHold == Init => HoldInv /\ PaidWasSettled /\ UniqueAssignment /\ Ledger!Init
<1> SUFFICES ASSUME Init PROVE HoldInv /\ PaidWasSettled /\ UniqueAssignment /\ Ledger!Init
  OBVIOUS
<1>1. TypeInv
  BY InitTypeInv
<1>2. PICK f \in [Legacy -> Addrs] :
        /\ \A s, t \in Legacy : s # t => f[s] # f[t]
        /\ sub = [s \in Subs |-> IF s \in Legacy THEN LegacySub(f[s]) ELSE NewSub]
  BY Zenon DEF Init
<1>3. UniqueAssignment
  <2>1. (\A a \in Addrs : LegacySub(a).assigned = a) /\ NewSub.assigned = None
    BY DEF LegacySub, NewSub
  <2> QED BY <1>2, <2>1, NoneAssumption DEF UniqueAssignment
<1>4. OneOpenPayment /\ PaidWasSettled
  BY DEF OneOpenPayment, PaidWasSettled, Init, NewPay
<1>5. \A w \in Workers : Holding(w, worker[w], pay, invoice, rowLock, sub)
  BY Zenon DEF Init, Holding, Idle
<1>6. Ledger!Init
  <2>1. \A p \in Payments : /\ pay[p].status = "unused" /\ pay[p].sub = None
                            /\ (invoice[p].state = "settled") = FALSE
    BY DEF Init, NewPay, NoInvoice
  <2>2. \A s \in Subs : sub[s].pend \in Int
    BY <1>1 DEF TypeInv, TypeOK, SubRow, Time, NoTime
  <2>3. [p \in Payments |-> pay[p].status] = [p \in Payments |-> "unused"]
    BY <2>1
  <2>4. [p \in Payments |-> pay[p].sub] = [p \in Payments |-> None]
    BY <2>1
  <2>5. [p \in Payments |-> invoice[p].state = "settled"] = [p \in Payments |-> FALSE]
    BY Zenon, <2>1
  <2>6. now \in Nat /\ [s \in Subs |-> sub[s].pend] \in [Subs -> Int]
    BY <2>2 DEF Init
  <2> QED BY Zenon, <2>3, <2>4, <2>5, <2>6 DEF Ledger!Init
<1> QED BY <1>1, <1>3, <1>4, <1>5, <1>6 DEF HoldInv

LEMMA UniqueStep == HoldInv /\ UniqueAssignment /\ [Next]_vars => UniqueAssignment'
<1> SUFFICES ASSUME HoldInv, UniqueAssignment, [Next]_vars PROVE UniqueAssignment'
  OBVIOUS
<1>0. TypeInv
  BY DEF HoldInv
<1>1. CASE RowsQuiet
  BY <1>1 DEF RowsQuiet, UniqueAssignment
<1>2. CASE UNCHANGED sub
  BY <1>2 DEF UniqueAssignment
<1>3. ASSUME NEW w \in Workers, NEW p \in Payments, InsertPayment(w, p) PROVE UniqueAssignment'
  <2>1. CASE \E s \in Subs, a \in Addrs :
                /\ \A t \in Subs : sub[t].assigned # a
                /\ sub'[s].assigned \in {sub[s].assigned, a}
                /\ \A t \in Subs : t # s => sub'[t] = sub[t]
    BY <2>1 DEF UniqueAssignment
  <2> QED BY <1>0, <1>2, <1>3, <2>1, InsertRows
<1>4. ASSUME NEW w \in Workers, Grant(w) PROVE UniqueAssignment'
  <2> DEFINE p == worker[w].p
             s == pay[p].sub
             snap == worker[w].snap
  <2>1. s \in Subs /\ snap \in SubRow /\ sub \in [Subs -> SubRow]
    BY Zenon, <1>0, <1>4 DEF TypeInv, TypeOK, WorkerState, SessionOK, Used, Settling, Grant, At
  <2>2. Granted(snap, p).assigned = snap.assigned
    BY <2>1 DEF Granted, Renewed, Activated, SubRow
  <2>3. Flush(sub[s], snap, Granted(snap, p)).assigned = sub[s].assigned
    BY <2>2 DEF Flush, Dirty
  <2>4. \A t \in Subs : sub'[t].assigned = sub[t].assigned
    BY Zenon, <1>4, <2>1, <2>3 DEF Grant
  <2> QED BY <2>4 DEF UniqueAssignment
<1>5. ASSUME NEW w \in Workers, Aside(w) \/ IssueExpired(w) \/ DecideExpired(w)
      PROVE  UniqueAssignment'
  BY <1>0, <1>1, <1>5, AsideRows, ExpireRows
<1>6. ASSUME NEW w \in Workers, Poll(w) \/ Finalize(w) \/ Issue(w) \/ IssueCrash(w)
      PROVE  UniqueAssignment'
  BY <1>2, <1>6 DEF Poll, Finalize, Issue, IssueCrash
<1>7. ASSUME NEW s \in Subs, ExpireElapsed(s) PROVE UniqueAssignment'
  BY Zenon, <1>0, <1>1, <1>7, ElapseQuiet DEF ExpireElapsed
<1>8. CASE (\E p \in Payments : PayInvoice(p)) \/ Tick \/ UNCHANGED vars
  BY <1>2, <1>8 DEF PayInvoice, Tick, vars
<1> QED BY <1>3, <1>4, <1>5, <1>6, <1>7, <1>8 DEF Next, Step, Aside

-----------------------------------------------------------------------------
(* The theorems *)

LEMMA HoldInvariant == Spec => []HoldInv
BY InitHold, HoldStep, PTL DEF Spec

\* No interleaving of checkouts, reapers, cancellations and settlements on stale
\* rows leaves two subscriptions with the same dedicated address or shared port.
THEOREM AssignmentsStayUnique == Spec => []UniqueAssignment
BY HoldInvariant, InitHold, UniqueStep, PTL DEF Spec

\* uq_payment_open_subscription and the payment's row lock leave one payment of a
\* subscription open at a time.
THEOREM PaymentsStaySingle == Spec => []OneOpenPayment
<1>1. HoldInv => OneOpenPayment
  BY DEF HoldInv
<1> QED BY <1>1, HoldInvariant, PTL

\* _finalize_payment marks a payment PAID only after its invoice was settled,
\* whatever was reported to which session before it got the row lock.
THEOREM PaidIsSettled == Spec => []PaidWasSettled
<1>1. HoldInv /\ PaidWasSettled /\ [Next]_vars => PaidWasSettled'
  BY LedgerStep, LedgerKeeps
<1> QED BY <1>1, HoldInvariant, InitHold, PTL DEF Spec

\* Settlement, with its sessions, locks, crashes and stale rows, implements the
\* ledger: payments end once, and a settled payment buys one period once.
THEOREM SettlementImplementsLedger == Spec => ImplementsLedger
BY HoldInvariant, InitHold, LedgerStep, PTL DEF Spec, ImplementsLedger, Ledger!Spec

\* A step of the ledger that moves a paid-up end turns an open payment of that
\* subscription into a paid one.
LEMMA OnePeriodStep ==
    ASSUME HoldInv, [Next]_vars, NEW s \in Subs, sub'[s].pend # sub[s].pend
    PROVE  \E p \in Payments :
              /\ pay[p].sub = s /\ pay[p].status = "pending" /\ pay'[p].status = "paid"
              /\ sub'[s].pend <= MaxOf(sub[s].pend, now) + Period
<1> DEFINE status == [p \in Payments |-> pay[p].status]
           owner == [p \in Payments |-> pay[p].sub]
           credit == [t \in Subs |-> sub[t].pend]
<1>0. /\ \A p \in Payments : status[p] = pay[p].status /\ owner[p] = pay[p].sub
      /\ \A p \in Payments : status'[p] = pay'[p].status
      /\ credit[s] = sub[s].pend /\ credit'[s] = sub'[s].pend
      /\ now \in Int /\ sub[s].pend \in Int
  <2>1. now \in Nat /\ sub[s] \in SubRow
    BY DEF HoldInv, TypeInv, TypeOK
  <2>2. now \in Int /\ sub[s].pend \in Int
    BY <2>1, TimeAssumption DEF SubRow, Time, NoTime
  <2>3. /\ \A p \in Payments : status[p] = pay[p].status /\ owner[p] = pay[p].sub
        /\ \A p \in Payments : status'[p] = pay'[p].status
        /\ credit[s] = sub[s].pend /\ credit'[s] = sub'[s].pend
    BY Zenon
  <2> QED BY Zenon, <2>2, <2>3
<1>1. Ledger!Next \/ UNCHANGED Ledger!vars
  BY LedgerStep
<1>2. credit' # credit
  BY <1>0
<1>3. PICK p \in Payments : Ledger!Credit(p)
  BY Zenon, <1>1, <1>2 DEF Ledger!Next, Ledger!vars, Ledger!Open, Ledger!Receive, Ledger!Expire,
                    Ledger!Tick
<1>4. PICK from \in {now, Ledger!Later(credit[owner[p]], now)} :
         credit' = [credit EXCEPT ![owner[p]] = from + Period]
  BY Zenon, <1>3 DEF Ledger!Credit
<1>5. status[p] = "pending" /\ status' = [status EXCEPT ![p] = "paid"] /\ owner[p] \in Subs
  BY <1>3 DEF Ledger!Credit
<1>6. status'[p] = "paid"
  BY <1>5
<1>7. owner[p] = s /\ credit'[s] = from + Period
  BY <1>0, <1>4, <1>5
<1> HIDE DEF status, owner, credit
<1>8. from + Period <= MaxOf(sub[s].pend, now) + Period
  <2>1. PICK e : e = credit[s]
    OBVIOUS
  <2>2. PICK m : m = MaxOf(sub[s].pend, now)
    OBVIOUS
  <2>3. from \in {now, Ledger!Later(e, now)}
    BY Zenon, <1>4, <1>7, <2>1
  <2>4. from <= m
    BY <1>0, <2>1, <2>2, <2>3 DEF Ledger!Later, MaxOf
  <2>5. from \in Int /\ m \in Int
    BY <1>0, <2>1, <2>2, <2>3 DEF Ledger!Later, MaxOf
  <2> QED
    BY <2>2, <2>4, <2>5, TimeAssumption
<1> QED BY <1>0, <1>5, <1>6, <1>7, <1>8

\* Service time moves only together with a payment that turns from PENDING to
\* PAID, by at most one period, even when two sessions finalize at once or one of
\* them loaded the subscription before another one wrote it.
THEOREM OnePaymentOnePeriod == Spec => OnePeriodPerPayment
<1>1. HoldInv /\ [Next]_vars =>
        [\A s \in Subs : sub'[s].pend # sub[s].pend =>
            \E p \in Payments :
               /\ pay[p].sub = s /\ pay[p].status = "pending" /\ pay'[p].status = "paid"
               /\ sub'[s].pend <= MaxOf(sub[s].pend, now) + Period]_vars
  BY OnePeriodStep
<1> QED BY <1>1, HoldInvariant, PTL DEF Spec, OnePeriodPerPayment
=============================================================================
