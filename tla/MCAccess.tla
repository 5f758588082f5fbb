------------------------------ MODULE MCAccess ------------------------------
(* One instance for the modules of the public API's account side: browser     *)
(* access, hostname claims and the ownership lookup. They share no state, so  *)
(* every behaviour is of one of them, which scene names.                      *)
EXTENDS Access, Domains, DomainVerification, TLC

CONSTANTS u1, u2, b1, b2, k1, k2, r1, r2, d1, d2, q1, q2

VARIABLE scene
allVars == <<vars, domVars, dv, scene>>

----------------------------------------------------------------------------
(* Browser access.                                                           *)

MCHolder == (b1 :> u1) @@ (b2 :> u2)

Has(n, keys) == Cardinality(sessions) = n /\ {p.cred : p \in passkeys} = keys
Left(e, c) == started = MaxRequests - e /\ crashes = c
Cookies(s, l) == jar[b1].session = s /\ jar[b1].legacy = l /\ jar[b2].session = 0
                 /\ jar[b2].legacy = FALSE

Scenes ==
    /\ account[u1] = "active"
    /\ \/ Has(2, {}) /\ Cookies(1, FALSE) /\ Left(4, 0) /\ clock = MaxClock
       \/ Has(1, {k1}) /\ Cookies(0, TRUE) /\ Left(4, 0) /\ clock = MaxClock
       \/ Has(2, {k1}) /\ Cookies(1, FALSE) /\ Left(3, 1) /\ clock = 0
Nobody == account[u1] = "active" /\ Has(0, {}) /\ Cookies(0, FALSE) /\ Left(0, 0) /\ clock = 0

----------------------------------------------------------------------------
(* Hostname claims: two names of one customer zone and a managed one.        *)

Exact == <<"a", "x", "t">>
Parent == <<"x", "t">>
MCHostnames == {Exact, Parent, <<"m", "p", "t">>}
MCSuffixes == {<<"p", "t">>}

Row(status, claimEnd, periodEnd) ==
    [status |-> status, user |-> u1, name |-> Exact, scope |-> "exact",
     verified |-> status # "pending", claimEnd |-> claimEnd, graceEnd |-> Nil,
     periodEnd |-> periodEnd, source |-> Nil, free |-> FALSE, sourceEnd |-> Nil]
Seeded(row) ==
    /\ claim = [c \in Claims |-> IF c = d1 THEN row ELSE NoRow]
    /\ proven = IF row.status \in {"none", "pending"} THEN {} ELSE {d1}
Events(n, u, v, p, k, w, z) ==
    domBudget = [create |-> n, upgrade |-> u, verify |-> v, pay |-> p, cancel |-> k,
                 wallet |-> w, publish |-> z]

\* Two accounts race for names; a first claim with its proof and payment, and
\* one that lapses to another account; rows of before the deadlines were
\* stored; renewal in time and in grace; a reaper against a wallet's send;
\* an upgrade against its source's renewal, and against a new claim.
Names ==
    \/ Seeded(NoRow) /\ zone = {} /\ Events(2, 0, 0, 0, 1, 0, 0)
    \/ /\ Seeded(Row("pending", 2, Nil)) /\ zone = {}
       /\ Events(1, 0, 1, 0, 1, 0, 1) \/ Events(0, 0, 1, 1, 0, 0, 1)
    \/ Seeded(Row("pending", Nil, Nil)) /\ zone = {} /\ Events(0, 0, 1, 1, 0, 0, 1)
    \/ Seeded(Row("expired", Nil, 0)) /\ zone = {d1} /\ Events(1, 0, 0, 1, 0, 0, 0)
    \/ /\ Seeded(Row("active", Nil, 1)) /\ zone = {d1}
       /\ Events(0, 0, 0, 2, 0, 1, 0) \/ Events(1, 0, 0, 1, 0, 0, 0) \/ Events(0, 0, 1, 1, 0, 1, 1)
    \/ /\ Seeded(Row("active", Nil, 2)) /\ zone = {d1, d2}
       /\ Events(0, 1, 0, 2, 0, 0, 0) \/ Events(0, 1, 1, 1, 0, 0, 0) \/ Events(1, 1, 0, 0, 1, 0, 0)
NoNames == Seeded(NoRow) /\ zone = {} /\ Events(0, 0, 0, 0, 0, 0, 0)

----------------------------------------------------------------------------

NoDns == dv = NewLookup("cname")

MCInit ==
    \/ scene = "access" /\ Init /\ Scenes /\ NoNames /\ DomInit /\ NoDns
    \/ scene = "names" /\ Names /\ DomInit /\ Init /\ Nobody /\ NoDns
    \/ scene = "dns" /\ DvInit /\ Init /\ Nobody /\ NoNames /\ DomInit

MCNext ==
    /\ UNCHANGED scene
    /\ \/ scene = "access" /\ Next /\ UNCHANGED <<domVars, dv>>
       \/ scene = "names" /\ DomNext /\ UNCHANGED <<vars, dv>>
       \/ scene = "dns" /\ DvNext /\ UNCHANGED <<vars, domVars>>

\* Requests are interchangeable.
Symmetry == Permutations(Requests) \cup Permutations(DomRequests)

MCSpec == MCInit /\ [][MCNext]_allVars
=============================================================================
