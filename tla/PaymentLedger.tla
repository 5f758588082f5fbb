---------------------------- MODULE PaymentLedger ----------------------------
(***************************************************************************)
(* What settlement promises, without sessions, locks, leases or providers: *)
(* a subscription has at most one open payment, an open payment ends once, *)
(* as PAID or as EXPIRED, and only a settled one buys service time, once   *)
(* and for one period.  docs/architecture.md: "repeated or concurrent      *)
(* polls grant at most one snapshotted period".                            *)
(***************************************************************************)
EXTENDS Integers

CONSTANTS Subs, Payments, None, Period

VARIABLES
    now,       \* the clock
    status,    \* of each payment
    owner,     \* the subscription a payment is for
    settled,   \* the provider received the money
    credit     \* the time each subscription is paid up to

vars == <<now, status, owner, settled, credit>>

Later(a, b) == IF a > b THEN a ELSE b

Init ==
    /\ now \in Nat
    /\ status = [p \in Payments |-> "unused"]
    /\ owner = [p \in Payments |-> None]
    /\ settled = [p \in Payments |-> FALSE]
    /\ credit \in [Subs -> Int]

\* A checkout starts while no other checkout of the subscription is open.
Open(p, s) ==
    /\ status[p] = "unused"
    /\ \A q \in Payments : ~(status[q] = "pending" /\ owner[q] = s)
    /\ status' = [status EXCEPT ![p] = "pending"]
    /\ owner' = [owner EXCEPT ![p] = s]
    /\ UNCHANGED <<now, settled, credit>>

\* The customer pays.
Receive(p) ==
    /\ settled' = [settled EXCEPT ![p] = TRUE]
    /\ UNCHANGED <<now, status, owner, credit>>

\* A settled payment buys one period, from now or from the paid-up end.
Credit(p) ==
    /\ status[p] = "pending"
    /\ settled[p]
    /\ owner[p] \in Subs
    /\ status' = [status EXCEPT ![p] = "paid"]
    /\ \E from \in {now, Later(credit[owner[p]], now)} :
          credit' = [credit EXCEPT ![owner[p]] = from + Period]
    /\ UNCHANGED <<now, owner, settled>>

Expire(p) ==
    /\ status[p] = "pending"
    /\ status' = [status EXCEPT ![p] = "expired"]
    /\ UNCHANGED <<now, owner, settled, credit>>

Tick ==
    /\ now' = now + 1
    /\ UNCHANGED <<status, owner, settled, credit>>

Next ==
    \/ \E p \in Payments :
          \/ Receive(p) \/ Credit(p) \/ Expire(p)
          \/ \E s \in Subs : Open(p, s)
    \/ Tick

Spec == Init /\ [][Next]_vars
=============================================================================
