----------------------------- MODULE AccessProofs -----------------------------
(* Proofs about browser sign-in, for any number of accounts, browsers,       *)
(* credentials and requests in flight and for any limits.                    *)
EXTENDS Access, FiniteSetTheorems, TLAPS

Stages == {"idle", "user", "issue", "registration", "authentication", "consume", "existing",
           "store", "key", "verify", "delete"}

Request == [pc : Stages, op : {"none", "issue", "store", "verify"},
            b : Browsers \cup {None}, user : Users \cup {None}, cred : Creds \cup {None},
            chal : Nat, now : Nat, count : Nat, seen : Nat, row : Nat, drop : SUBSET Nat,
            owned : Nat]

\* The stages that each kind of request goes through.
Path(op) ==
    CASE op = "none"   -> {"idle", "registration", "authentication", "delete"}
      [] op = "issue"  -> {"user", "issue"}
      [] op = "store"  -> {"consume", "existing", "user", "store"}
      [] op = "verify" -> {"consume", "key", "user", "verify", "issue"}

SessionsOf(u) == {s \in sessions : s.user = u}
PasskeysOf(u) == {p \in passkeys : p.user = u}
KeptSessions(u, drop) == {s \in sessions : s.user = u /\ s.id \notin drop}

Exists(u) == u \in Users /\ account[u] # "none"

\* A request that deals with an account holds the User row from its lock to its commit;
\* one that dropped sessions or counted passkeys still leaves room for one more.
HoldsUser(r, q) ==
    /\ q.op \in {"issue", "store"} => Exists(q.user)
    /\ q.pc \in {"user", "issue", "store", "verify"} => Exists(q.user)
    /\ q.pc \in {"issue", "store", "verify"} =>
         userLock[q.user] = r /\ (q.op # "issue" => Active(q.user))
    /\ q.pc = "issue" => Cardinality(KeptSessions(q.user, q.drop)) < MaxSessions
    /\ q.pc = "store" => Cardinality(PasskeysOf(q.user)) <= q.owned

\* A sign-in with a passkey holds the credential row from its lock to its commit, so
\* the counter it verified against is the one that is stored.
HoldsKey(r, q) ==
    /\ q.op = "issue" => q.row = 0
    /\ q.op \in {"store", "verify"} => q.cred \in Creds
    /\ q.op = "verify" /\ q.cred \in Counting => q.count > 0
    /\ q.op = "verify" /\ q.pc \in {"user", "verify", "issue"} =>
         /\ keyLock[q.cred] = r /\ q.row \in 1 .. serial
         /\ \A p \in passkeys : p.id = q.row => /\ p.cred = q.cred /\ p.user = q.user
                                                /\ p.count = q.seen
    /\ q.op = "verify" /\ q.pc = "issue" => CounterAccepted(q.count, q.seen)

Sound(r) ==
    /\ req[r].pc \in Path(req[r].op) /\ (req[r].pc # "idle" => req[r].b \in Browsers)
    /\ HoldsUser(r, req[r]) /\ HoldsKey(r, req[r])

\* Row ids are drawn once, and every row belongs to an account.
RowsSound ==
    /\ IsFiniteSet(sessions) /\ IsFiniteSet(passkeys) /\ IsFiniteSet(challenges)
    /\ \A s \in sessions : s.id \in 1 .. serial /\ account[s.user] # "none"
    /\ \A s, t \in sessions : s.id = t.id => s = t
    /\ \A p \in passkeys : p.id \in 1 .. serial /\ account[p.user] # "none"
    /\ \A p, q \in passkeys : p.id = q.id => p = q

LimitsKept ==
    /\ \A u \in Users : /\ Cardinality(SessionsOf(u)) <= MaxSessions
                        /\ Cardinality(PasskeysOf(u)) <= MaxPasskeys
    /\ Cardinality(challenges) <= MaxPending

\* The inductive invariant.
AccessInv ==
    /\ TypeOK /\ req \in [Requests -> Request]
    /\ RowsSound /\ LimitsKept
    /\ \A r \in Requests : Sound(r)

-----------------------------------------------------------------------------
(* Counting.                                                                 *)

\* The sessions of a set that are older than a given one.
Older(S, s) == {t \in S : Before(t, s)}

\* Rows with distinct ids are totally ordered by age: of two, the older one has fewer
\* before it.
LEMMA OlderIsStrict ==
    ASSUME NEW S, IsFiniteSet(S), S \subseteq BrowserSession,
           \A s, t \in S : s.id = t.id => s = t,
           NEW s \in S, NEW t \in S, s # t
    PROVE  Cardinality(Older(S, s)) # Cardinality(Older(S, t))
<1>1. SUFFICES ASSUME NEW x \in S, NEW y \in S, Before(x, y)
               PROVE  Cardinality(Older(S, x)) < Cardinality(Older(S, y))
  <2>1. /\ s.created \in Nat /\ s.id \in Nat
        /\ t.created \in Nat /\ t.id \in Nat /\ s.id # t.id
    BY Zenon DEF BrowserSession
  <2>2. Before(s, t) \/ Before(t, s)
    BY <2>1 DEF Before
  <2>3. IsFiniteSet(Older(S, s)) /\ IsFiniteSet(Older(S, t))
    BY Zenon, FS_Subset DEF Older
  <2>4. Cardinality(Older(S, s)) \in Nat /\ Cardinality(Older(S, t)) \in Nat
    BY Zenon, <2>3, FS_CardinalityType
  <2>5. /\ Before(s, t) => Cardinality(Older(S, s)) < Cardinality(Older(S, t))
        /\ Before(t, s) => Cardinality(Older(S, t)) < Cardinality(Older(S, s))
    BY Zenon, <1>1
  <2> QED
    BY <2>2, <2>4, <2>5
<1>2. \A z \in S : z.created \in Nat /\ z.id \in Nat
  BY Zenon DEF BrowserSession
<1>3. Older(S, x) \in SUBSET Older(S, y)
  BY <1>1, <1>2 DEF Older, Before
<1>4. x \in Older(S, y) /\ x \notin Older(S, x)
  BY <1>1, <1>2 DEF Older, Before
<1>5. IsFiniteSet(Older(S, y)) /\ IsFiniteSet(Older(S, x))
  BY Zenon, FS_Subset DEF Older
<1>6. /\ Cardinality(Older(S, x)) <= Cardinality(Older(S, y))
      /\ Cardinality(Older(S, y)) = Cardinality(Older(S, x)) => Older(S, y) = Older(S, x)
  BY Zenon, <1>3, <1>5, FS_Subset
<1>7. Cardinality(Older(S, x)) \in Nat /\ Cardinality(Older(S, y)) \in Nat
  BY Zenon, <1>5, FS_CardinalityType
<1> QED
  BY <1>4, <1>6, <1>7

\* What is left when the n oldest rows are taken away: the ranks that remain are n and up.
LEMMA OldestLeaves ==
    ASSUME NEW S, IsFiniteSet(S), S \subseteq BrowserSession,
           \A s, t \in S : s.id = t.id => s = t,
           NEW n \in Nat, n <= Cardinality(S)
    PROVE  Cardinality(S \ Oldest(S, n)) <= Cardinality(S) - n
<1> DEFINE R == S \ Oldest(S, n)
           k == Cardinality(S)
           f == [s \in R |-> Cardinality(Older(S, s))]
<1>1. k \in Nat
  BY Zenon, FS_CardinalityType
<1>2. ASSUME NEW s \in R PROVE Cardinality(Older(S, s)) \in n .. (k - 1)
  <2>1. IsFiniteSet(Older(S, s)) /\ Older(S, s) \in SUBSET S
    BY Zenon, FS_Subset DEF Older
  <2>2. Cardinality(Older(S, s)) \in Nat
    BY Zenon, <2>1, FS_CardinalityType
  <2>3. ~(Cardinality(Older(S, s)) < n)
    BY Zenon DEF Oldest, Older
  <2>4. s.created \in Nat /\ s.id \in Nat
    BY Zenon DEF BrowserSession
  <2>5. s \in S /\ s \notin Older(S, s)
    BY <2>4 DEF Older, Before
  <2>6. Cardinality(Older(S, s)) <= k /\ (k = Cardinality(Older(S, s)) => S = Older(S, s))
    BY Zenon, <2>1, FS_Subset
  <2> QED
    BY <1>1, <2>2, <2>3, <2>5, <2>6
<1>3. f \in Injection(R, n .. (k - 1))
  <2>1. f \in [R -> n .. (k - 1)]
    BY Zenon, <1>2
  <2>2. ASSUME NEW s \in R, NEW t \in R, f[s] = f[t] PROVE s = t
    BY Zenon, <2>2, OlderIsStrict
  <2> QED
    BY Zenon, <2>1, <2>2 DEF Injection, IsInjective
<1>4. IsFiniteSet(n .. (k - 1)) /\ Cardinality(n .. (k - 1)) <= k - n
  <2>1. PICK m \in Int : m = k - 1
    BY <1>1
  <2>2. IsFiniteSet(n .. m) /\ Cardinality(n .. m) = IF n > m THEN 0 ELSE m - n + 1
    BY FS_Interval
  <2>3. Cardinality(n .. m) <= k - n
    BY <1>1, <2>1, <2>2
  <2> QED
    BY Zenon, <2>1, <2>2, <2>3
<1>5. IsFiniteSet(R) /\ Cardinality(R) <= Cardinality(n .. (k - 1))
  BY <1>3, <1>4, FS_Injection
<1>6. Cardinality(R) \in Nat /\ Cardinality(n .. (k - 1)) \in Nat
  BY Zenon, <1>4, <1>5, FS_CardinalityType
<1> HIDE DEF R, k
<1>7. Cardinality(R) <= k - n
  BY <1>1, <1>4, <1>5, <1>6
<1> QED
  BY Zenon, <1>7 DEF R, k

\* A part of a finite set is finite and no larger.
LEMMA PartOf ==
    ASSUME NEW S, IsFiniteSet(S), NEW T, T \subseteq S
    PROVE  /\ IsFiniteSet(T) /\ Cardinality(T) <= Cardinality(S)
           /\ Cardinality(T) \in Nat /\ Cardinality(S) \in Nat
<1>1. T \in SUBSET S
  BY Zenon
<1> QED
  BY Zenon, <1>1, FS_Subset, FS_CardinalityType

\* One row more.
LEMMA OneMore ==
    ASSUME NEW S, IsFiniteSet(S), NEW x, NEW T, T \subseteq S \cup {x}
    PROVE  /\ IsFiniteSet(T) /\ Cardinality(T) <= Cardinality(S) + 1
           /\ Cardinality(T) \in Nat /\ Cardinality(S) \in Nat
<1>1. /\ IsFiniteSet(S \cup {x}) /\ Cardinality(S) \in Nat
      /\ Cardinality(S \cup {x}) = IF x \in S THEN Cardinality(S) ELSE Cardinality(S) + 1
  BY Zenon, FS_AddElement, FS_CardinalityType
<1>2. /\ IsFiniteSet(T) /\ Cardinality(T) <= Cardinality(S \cup {x})
      /\ Cardinality(T) \in Nat /\ Cardinality(S \cup {x}) \in Nat
  BY Zenon, <1>1, PartOf
<1> QED
  BY <1>1, <1>2

\* issue_browser_session deletes enough for the account's sessions to have room for one.
LEMMA DiscardedLeaves ==
    ASSUME AccessInv, NEW u \in Users, NEW t \in Nat
    PROVE  /\ Discarded(u, t) \subseteq Nat
           /\ Cardinality(KeptSessions(u, Discarded(u, t))) < MaxSessions
<1> DEFINE own == {s \in sessions : s.user = u}
           existing == {s \in own : s.expires > t}
           overflow == Cardinality(existing) - MaxSessions + 1
           kept == KeptSessions(u, Discarded(u, t))
<1>1. /\ IsFiniteSet(sessions) /\ sessions \subseteq BrowserSession
      /\ \A s, x \in sessions : s.id = x.id => s = x
  BY Zenon DEF AccessInv, TypeOK, RowsSound
<1>2. MaxSessions \in Nat /\ MaxSessions > 0
  BY AccessAssumption
<1>3. IsFiniteSet(existing) /\ Cardinality(existing) \in Nat
  BY Zenon, <1>1, PartOf
<1>4. Discarded(u, t) = {s.id : s \in (own \ existing) \cup Oldest(existing, overflow)}
  BY Zenon DEF Discarded
<1>5. kept \subseteq existing \ Oldest(existing, overflow)
  BY Zenon, <1>4 DEF KeptSessions
<1>6. IsFiniteSet(existing \ Oldest(existing, overflow))
  BY Zenon, <1>3, PartOf
<1>7. /\ Cardinality(kept) <= Cardinality(existing \ Oldest(existing, overflow))
      /\ Cardinality(kept) \in Nat
      /\ Cardinality(existing \ Oldest(existing, overflow)) \in Nat
  BY Zenon, <1>5, <1>6, PartOf
<1>8. Cardinality(existing \ Oldest(existing, overflow)) < MaxSessions
  <2>1. CASE Cardinality(existing) < MaxSessions
    <3>1. Cardinality(existing \ Oldest(existing, overflow)) <= Cardinality(existing)
      BY Zenon, <1>3, PartOf
    <3> HIDE DEF existing
    <3> QED
      BY <1>2, <1>3, <1>7, <2>1, <3>1
  <2>2. CASE Cardinality(existing) >= MaxSessions
    <3>1. existing \subseteq BrowserSession /\ \A s, x \in existing : s.id = x.id => s = x
      BY Zenon, <1>1
    <3> HIDE DEF existing
    <3>2. PICK n \in Nat : n = overflow
      BY <1>2, <1>3, <2>2
    <3>3. n <= Cardinality(existing) /\ Cardinality(existing) - n < MaxSessions
      BY <1>2, <1>3, <3>2
    <3>4. Cardinality(existing \ Oldest(existing, n)) <= Cardinality(existing) - n
      BY Zenon, <1>3, <3>3, <3>1, OldestLeaves
    <3> QED
      BY <1>2, <1>3, <1>7, <3>2, <3>3, <3>4
  <2> HIDE DEF existing
  <2> QED
    BY <1>2, <1>3, <2>1, <2>2
<1>9. Discarded(u, t) \subseteq Nat
  <2>1. \A s \in sessions : s.id \in Nat
    BY Zenon, <1>1 DEF BrowserSession
  <2> QED
    BY Zenon, <1>4, <2>1 DEF Oldest
<1>10. Cardinality(kept) < MaxSessions
  <2> HIDE DEF kept, existing, overflow
  <2> QED
    BY <1>2, <1>7, <1>8
<1> QED
  BY Zenon, <1>9, <1>10

-----------------------------------------------------------------------------
(* What the other requests rely on.                                          *)

\* A step that leaves these alone leaves the locks of request x in place.
LocksKept(x) ==
    /\ \A u \in Users : userLock[u] = x => userLock'[u] = x
    /\ \A c \in Creds : keyLock[c] = x => keyLock'[c] = x

\* What a step may do to the rows that request x has locked: nothing to the account and
\* the credential, and of what belongs to them it may only take away.
RowsKept(x) ==
    /\ serial' \in Nat /\ serial' >= serial
    /\ \A u \in Users : account[u] # "none" => account'[u] # "none"
    /\ \A u \in Users : userLock[u] = x /\ account[u] # "none" =>
         /\ account'[u] = account[u] /\ SessionsOf(u)' \subseteq SessionsOf(u)
         /\ Cardinality(PasskeysOf(u)') <= Cardinality(PasskeysOf(u))
    /\ \A p \in passkeys' : p.id <= serial =>
         \E q \in passkeys : /\ q.id = p.id /\ q.cred = p.cred /\ q.user = p.user
                             /\ keyLock[p.cred] = x => q.count = p.count

\* A request that is not the one that moves stays sound.
LEMMA OthersSound ==
    ASSUME AccessInv, RowsSound', NEW x \in Requests, LocksKept(x), RowsKept(x),
           req'[x] = req[x]
    PROVE  Sound(x)'
<1>1. PICK q \in Request : q = req[x]
  BY Zenon DEF AccessInv
<1>2. /\ q.pc \in Path(q.op) /\ (q.pc # "idle" => q.b \in Browsers)
      /\ HoldsUser(x, q) /\ HoldsKey(x, q) /\ q = req'[x]
  BY Zenon, <1>1 DEF AccessInv, Sound
<1>3. serial \in Nat /\ IsFiniteSet(sessions) /\ IsFiniteSet(passkeys) /\ IsFiniteSet(passkeys')
  BY Zenon DEF AccessInv, TypeOK, RowsSound
<1>4. MaxSessions \in Nat /\ q.owned \in Nat
  BY Zenon, AccessAssumption DEF Request
<1>5. HoldsUser(x, q)'
  <2>1. /\ q.op \in {"issue", "store"} => Exists(q.user)'
        /\ q.pc \in {"user", "issue", "store", "verify"} => Exists(q.user)'
    BY Zenon, <1>2 DEF HoldsUser, Exists, RowsKept
  <2>2. q.pc \in {"issue", "store", "verify"} =>
          /\ q.user \in Users /\ account[q.user] # "none" /\ userLock[q.user] = x
          /\ q.op # "issue" => Active(q.user)
    BY Zenon, <1>2 DEF HoldsUser, Exists
  <2>3. q.pc \in {"issue", "store", "verify"} =>
          userLock'[q.user] = x /\ (q.op # "issue" => Active(q.user)')
    BY Zenon, <2>2 DEF LocksKept, RowsKept, Active
  <2>4. ASSUME q.pc = "issue"
        PROVE  Cardinality(KeptSessions(q.user, q.drop)') < MaxSessions
    <3>1. SessionsOf(q.user)' \subseteq SessionsOf(q.user)
      BY Zenon, <2>2, <2>4 DEF RowsKept
    <3>2. KeptSessions(q.user, q.drop)' \subseteq KeptSessions(q.user, q.drop)
      BY Zenon, <3>1 DEF SessionsOf, KeptSessions
    <3>3. IsFiniteSet(KeptSessions(q.user, q.drop))
      BY Zenon, <1>3, PartOf DEF KeptSessions
    <3>4. /\ Cardinality(KeptSessions(q.user, q.drop)') <= Cardinality(KeptSessions(q.user, q.drop))
          /\ Cardinality(KeptSessions(q.user, q.drop)') \in Nat
          /\ Cardinality(KeptSessions(q.user, q.drop)) \in Nat
      BY Zenon, <3>2, <3>3, PartOf
    <3>5. Cardinality(KeptSessions(q.user, q.drop)) < MaxSessions
      BY Zenon, <1>2, <2>4 DEF HoldsUser
    <3> QED
      BY <1>4, <3>4, <3>5
  <2>5. ASSUME q.pc = "store"
        PROVE  Cardinality(PasskeysOf(q.user)') <= q.owned
    <3>1. Cardinality(PasskeysOf(q.user)') <= Cardinality(PasskeysOf(q.user))
      BY Zenon, <2>2, <2>5 DEF RowsKept
    <3>2. Cardinality(PasskeysOf(q.user)) <= q.owned
      BY Zenon, <1>2, <2>5 DEF HoldsUser
    <3>3. Cardinality(PasskeysOf(q.user)) \in Nat
      BY Zenon, <1>3, PartOf DEF PasskeysOf
    <3>4. PasskeysOf(q.user)' \subseteq passkeys'
      BY Zenon DEF PasskeysOf
    <3>5. Cardinality(PasskeysOf(q.user)') \in Nat
      BY Zenon, <1>3, <3>4, PartOf
    <3> QED
      BY <1>4, <3>1, <3>2, <3>3, <3>5
  <2> QED
    BY Zenon, <2>1, <2>3, <2>4, <2>5 DEF HoldsUser
<1>6. HoldsKey(x, q)'
  <2>1. ASSUME q.op = "verify", q.pc \in {"user", "verify", "issue"}
        PROVE  /\ keyLock'[q.cred] = x /\ q.row \in 1 .. serial'
               /\ \A p \in passkeys' : p.id = q.row => /\ p.cred = q.cred /\ p.user = q.user
                                                       /\ p.count = q.seen
    <3>1. /\ q.cred \in Creds /\ keyLock[q.cred] = x /\ q.row \in 1 .. serial
          /\ \A p \in passkeys : p.id = q.row => /\ p.cred = q.cred /\ p.user = q.user
                                                 /\ p.count = q.seen
      BY Zenon, <1>2, <2>1 DEF HoldsKey
    <3>2. keyLock'[q.cred] = x
      BY Zenon, <3>1 DEF LocksKept
    <3>3. q.row \in 1 .. serial' /\ q.row <= serial
      BY <1>3, <3>1 DEF RowsKept
    <3>4. ASSUME NEW p \in passkeys', p.id = q.row
          PROVE  p.cred = q.cred /\ p.user = q.user /\ p.count = q.seen
      <4>1. PICK o \in passkeys : /\ o.id = p.id /\ o.cred = p.cred /\ o.user = p.user
                                  /\ keyLock[p.cred] = x => o.count = p.count
        BY Zenon, <3>3, <3>4 DEF RowsKept
      <4> QED
        BY Zenon, <3>1, <3>4, <4>1
    <3> QED
      BY Zenon, <3>2, <3>3, <3>4
  <2> QED
    BY Zenon, <1>2, <2>1 DEF HoldsKey, CounterAccepted
<1> QED
  BY Zenon, <1>2, <1>5, <1>6 DEF Sound

\* A step that leaves the accounts, the sessions and the passkeys alone.
LEMMA RowsSame ==
    ASSUME AccessInv, UNCHANGED <<account, sessions, passkeys, serial>>, NEW x
    PROVE  RowsKept(x)
<1>1. serial \in Nat /\ IsFiniteSet(passkeys)
  BY Zenon DEF AccessInv, TypeOK, RowsSound
<1>2. \A u \in Users : PasskeysOf(u)' = PasskeysOf(u) /\ SessionsOf(u)' = SessionsOf(u)
  BY Zenon DEF PasskeysOf, SessionsOf
<1>3. \A u \in Users : Cardinality(PasskeysOf(u)) \in Nat
  BY Zenon, <1>1, PartOf DEF PasskeysOf
<1> QED
  BY <1>1, <1>2, <1>3 DEF RowsKept

\* A step of request r that changes no locks but its own, and leaves the others the
\* rows they have locked.
LEMMA RequestWrites ==
    ASSUME AccessInv, NEW r \in Requests, TypeOK', RowsSound', LimitsKept',
           NEW q \in Request, req' = [req EXCEPT ![r] = q],
           \A x \in Requests \ {r} : LocksKept(x) /\ RowsKept(x),
           q.pc \in Path(q.op), q.pc # "idle" => q.b \in Browsers,
           HoldsUser(r, q)', HoldsKey(r, q)'
    PROVE  AccessInv'
<1>1. req' \in [Requests -> Request] /\ req'[r] = q /\ \A x \in Requests \ {r} : req'[x] = req[x]
  BY Zenon DEF AccessInv
<1>2. ASSUME NEW x \in Requests PROVE Sound(x)'
  <2>1. CASE x = r
    BY Zenon, <1>1, <2>1 DEF Sound
  <2>2. CASE x # r
    BY Zenon, <1>1, <2>2, OthersSound
  <2> QED
    BY Zenon, <2>1, <2>2
<1> QED
  BY Zenon, <1>1, <1>2 DEF AccessInv

\* A step of request r that changes no rows and no locks but its own.
LEMMA RequestStep ==
    ASSUME AccessInv, NEW r \in Requests, UNCHANGED <<rows, serial>>, TypeOK',
           NEW q \in Request, req' = [req EXCEPT ![r] = q],
           \A x \in Requests \ {r} : LocksKept(x),
           q.pc \in Path(q.op), q.pc # "idle" => q.b \in Browsers,
           HoldsUser(r, q)', HoldsKey(r, q)'
    PROVE  AccessInv'
<1>1. RowsSound'
  BY Zenon DEF AccessInv, RowsSound, rows
<1>2. LimitsKept'
  BY Zenon DEF AccessInv, LimitsKept, SessionsOf, PasskeysOf, rows
<1>3. \A x \in Requests \ {r} : RowsKept(x)
  <2>1. UNCHANGED <<account, sessions, passkeys, serial>>
    BY Zenon DEF rows
  <2> QED
    BY Zenon, <2>1, RowsSame
<1> QED
  BY Zenon, <1>1, <1>2, <1>3, RequestWrites

\* A step of none of the requests.
LEMMA OutsideStep ==
    ASSUME AccessInv, TypeOK', RowsSound', LimitsKept', UNCHANGED <<req, locks>>,
           \A x \in Requests : RowsKept(x)
    PROVE  AccessInv'
<1>1. \A x \in Requests : LocksKept(x) /\ req'[x] = req[x]
  BY Zenon DEF LocksKept, locks
<1>2. \A x \in Requests : Sound(x)'
  BY Zenon, <1>1, OthersSound
<1> QED
  BY Zenon, <1>2 DEF AccessInv

-----------------------------------------------------------------------------
(* Requests that start, go on and end.                                       *)

\* An idle request asks for nothing.
LEMMA IdleFits ==
    ASSUME NEW r \in Requests
    PROVE  /\ Idle \in Request /\ Idle.pc = "idle" /\ Idle.pc \in Path(Idle.op)
           /\ HoldsUser(r, Idle)' /\ HoldsKey(r, Idle)'
  BY Zenon DEF Idle, Request, Stages, Path, HoldsUser, HoldsKey

\* The end of a request frees its own locks only.
LEMMA EndsFrees ==
    ASSUME TypeOK, NEW r \in Requests, Ends(r)
    PROVE  /\ userLock' \in [Users -> Requests \cup {None}]
           /\ keyLock' \in [Creds -> Requests \cup {None}]
           /\ \A x \in Requests \ {r} : LocksKept(x)
           /\ req' = [req EXCEPT ![r] = Idle]
  BY DEF TypeOK, Ends, LocksKept

\* A request that ends without having written anything.
LEMMA EndsStep ==
    ASSUME AccessInv, NEW r \in Requests, Ends(r), UNCHANGED <<rows, serial>>, TypeOK'
    PROVE  AccessInv'
<1>1. TypeOK
  BY Zenon DEF AccessInv
<1>2. req' = [req EXCEPT ![r] = Idle] /\ \A x \in Requests \ {r} : LocksKept(x)
  BY Zenon, <1>1, EndsFrees
<1>3. /\ Idle \in Request /\ Idle.pc = "idle" /\ Idle.pc \in Path(Idle.op)
      /\ HoldsUser(r, Idle)' /\ HoldsKey(r, Idle)'
  BY Zenon, IdleFits
<1> QED
  BY Zenon, <1>2, <1>3, RequestStep

\* The types are kept by a step that leaves the typed variables alone.
LEMMA SameTypes ==
    ASSUME TypeOK, UNCHANGED <<rows, jar, device, locks, clock, serial>>
    PROVE  TypeOK'
  BY Zenon DEF TypeOK, rows, locks

\* A request arrives, and so far only knows what it was given.
LEMMA ArrivesStep ==
    ASSUME AccessInv, NEW r \in Requests, UNCHANGED <<rows, locks, serial>>, TypeOK',
           NEW q \in Request, req' = [req EXCEPT ![r] = q], q.b \in Browsers,
           q.pc \in Path(q.op), q.pc \notin {"issue", "store", "verify"},
           q.pc = "user" => q.op = "issue",
           q.op \in {"issue", "store"} => Exists(q.user),
           q.op = "issue" => q.row = 0,
           q.op \in {"store", "verify"} => q.cred \in Creds,
           q.op = "verify" /\ q.cred \in Counting => q.count > 0
    PROVE  AccessInv'
<1>1. \A x \in Requests \ {r} : LocksKept(x)
  BY Zenon DEF LocksKept, locks
<1>2. Exists(q.user)' <=> Exists(q.user)
  BY Zenon DEF Exists, rows
<1>3. HoldsUser(r, q)'
  BY Zenon, <1>2 DEF HoldsUser
<1>4. HoldsKey(r, q)'
  BY Zenon DEF HoldsKey
<1> QED
  BY Zenon, <1>1, <1>3, <1>4, RequestStep

\* Whoever is authenticated has an account.
LEMMA AuthenticatedExists ==
    ASSUME AccessInv, NEW b \in Browsers, NEW u \in Users, Authenticated(b, u)
    PROVE  Exists(u)
  BY Zenon, AccessAssumption DEF Authenticated, SessionUsers, Active, Exists

\* Signing in with the bearer token: the request knows its account.
LEMMA TokenLoginStep ==
    ASSUME AccessInv, NEW r \in Requests, NEW b \in Browsers, TokenLogin(r, b)
    PROVE  AccessInv'
<1>1. PICK q : q = [Idle EXCEPT !.pc = "user", !.op = "issue", !.b = b,
                                !.user = Holder[b], !.now = clock]
  BY Zenon
<1>2. Holder[b] \in Users /\ clock \in Nat
  BY AccessAssumption DEF AccessInv, TypeOK
<1>3. /\ q \in Request /\ q.b = b /\ q.pc = "user" /\ q.op = "issue" /\ q.user = Holder[b]
      /\ q.row = 0
  BY Zenon, <1>1, <1>2 DEF Idle, Request, Stages
<1>4. UNCHANGED <<rows, locks, serial>> /\ TypeOK' /\ req' = [req EXCEPT ![r] = q]
  BY Zenon, <1>1, SameTypes DEF TokenLogin, AccessInv
<1>5. Exists(q.user)
  BY Zenon, <1>2, <1>3 DEF Exists, TokenLogin, Active
<1>6. q.pc \in Path(q.op)
  BY Zenon, <1>3 DEF Path
<1> QED
  BY Zenon, <1>3, <1>4, <1>5, <1>6, ArrivesStep

\* The option endpoints, once they know whom they serve.
LEMMA OptionsStep ==
    ASSUME AccessInv, NEW r \in Requests, NEW b \in Browsers,
           RegistrationOptions(r, b) \/ AuthenticationOptions(r, b)
    PROVE  AccessInv'
<1>1. UNCHANGED <<rows, jar, device, locks, clock, serial>>
  BY Zenon DEF RegistrationOptions, AuthenticationOptions
<1>2. TypeOK' /\ clock \in Nat
  <2>1. TypeOK
    BY Zenon DEF AccessInv
  <2>2. TypeOK'
    BY Zenon, <1>1, <2>1, SameTypes
  <2> QED
    BY <2>1, <2>2, AccessAssumption DEF TypeOK
<1>3. PICK q \in Request :
        /\ req' = [req EXCEPT ![r] = q] /\ q.b = b /\ q.op = "none"
        /\ q.pc \in {"registration", "authentication"}
  <2>1. ASSUME NEW u \in Users
        PROVE  LET q == [Idle EXCEPT !.pc = "registration", !.b = b, !.user = u, !.now = clock]
               IN q \in Request /\ q.b = b /\ q.op = "none" /\ q.pc = "registration"
    BY Zenon, <1>2 DEF Idle, Request, Stages
  <2>2. LET q == [Idle EXCEPT !.pc = "authentication", !.b = b, !.now = clock]
        IN q \in Request /\ q.b = b /\ q.op = "none" /\ q.pc = "authentication"
    BY Zenon, <1>2 DEF Idle, Request, Stages
  <2> QED
    BY Zenon, <2>1, <2>2 DEF RegistrationOptions, AuthenticationOptions
<1>4. q.pc \in Path(q.op) /\ q.pc \notin {"issue", "store", "verify", "user"}
  BY Zenon, <1>3 DEF Path
<1>5. UNCHANGED <<rows, locks, serial>>
  BY Zenon, <1>1
<1> QED
  BY Zenon, <1>2, <1>3, <1>4, <1>5, ArrivesStep

\* A passkey is presented for registration.
LEMMA RegisterStep ==
    ASSUME AccessInv, NEW r \in Requests, NEW b \in Browsers, RegisterPasskey(r, b)
    PROVE  AccessInv'
<1>1. TypeOK
  BY Zenon DEF AccessInv
<1>2. UNCHANGED <<rows, jar, device, locks, clock, serial>>
  BY Zenon DEF RegisterPasskey
<1>3. TypeOK' /\ UNCHANGED <<rows, locks, serial>>
  BY Zenon, <1>1, <1>2, SameTypes
<1>4. PICK u \in Users, c \in Creds, ch \in {d.id : d \in challenges} :
         /\ Authenticated(b, u)
         /\ req' = [req EXCEPT ![r] = [Idle EXCEPT
                      !.pc = "consume", !.op = "store", !.b = b, !.user = u, !.cred = c,
                      !.chal = ch, !.count = device[c]]]
  BY Zenon DEF RegisterPasskey
<1>5. PICK q : q = [Idle EXCEPT !.pc = "consume", !.op = "store", !.b = b, !.user = u,
                                !.cred = c, !.chal = ch, !.count = device[c]]
  BY Zenon
<1>6. ch \in Nat /\ device[c] \in Nat
  BY Zenon, <1>1 DEF TypeOK, WebAuthnChallenge
<1>7. /\ q \in Request /\ q.b = b /\ q.pc = "consume" /\ q.op = "store" /\ q.user = u
      /\ q.cred = c
  BY Zenon, <1>5, <1>6 DEF Idle, Request, Stages
<1>8. Exists(u)
  BY Zenon, <1>4, AuthenticatedExists
<1>9. q.pc \in Path(q.op)
  BY Zenon, <1>7 DEF Path
<1> QED
  BY Zenon, <1>3, <1>4, <1>5, <1>7, <1>8, <1>9, ArrivesStep

\* A passkey is presented for signing in: its authenticator has counted.
LEMMA AuthenticateStep ==
    ASSUME AccessInv, NEW r \in Requests, NEW b \in Browsers, AuthenticatePasskey(r, b)
    PROVE  AccessInv'
<1>1. TypeOK
  BY Zenon DEF AccessInv
<1>2. UNCHANGED <<rows, jar, locks, clock, serial>>
  BY Zenon DEF AuthenticatePasskey
<1>3. PICK c \in Creds, ch \in {d.id : d \in challenges} :
         /\ device' = [device EXCEPT ![c] = Signs(c)]
         /\ req' = [req EXCEPT ![r] = [Idle EXCEPT
                      !.pc = "consume", !.op = "verify", !.b = b, !.cred = c, !.chal = ch,
                      !.count = Signs(c)]]
  BY Zenon DEF AuthenticatePasskey
<1>4. device \in [Creds -> Nat] /\ device[c] \in Nat
  BY Zenon, <1>1 DEF TypeOK
<1>5. Signs(c) \in Nat /\ (c \in Counting => Signs(c) > 0)
  BY <1>4 DEF Signs
<1>6. ch \in Nat
  BY Zenon, <1>1 DEF TypeOK, WebAuthnChallenge
<1>7. device' \in [Creds -> Nat]
  BY Zenon, <1>3, <1>4, <1>5
<1>8. TypeOK'
  BY Zenon, <1>1, <1>2, <1>7 DEF TypeOK, rows, locks
<1>9. PICK q : q = [Idle EXCEPT !.pc = "consume", !.op = "verify", !.b = b, !.cred = c,
                                !.chal = ch, !.count = Signs(c)]
  BY Zenon
<1>10. /\ q \in Request /\ q.b = b /\ q.pc = "consume" /\ q.op = "verify"
       /\ q.cred = c /\ q.count = Signs(c)
  BY Zenon, <1>5, <1>6, <1>9 DEF Idle, Request, Stages
<1>11. q.pc \in Path(q.op)
  BY Zenon, <1>10 DEF Path
<1>12. req' = [req EXCEPT ![r] = q] /\ UNCHANGED <<rows, locks, serial>>
  BY Zenon, <1>2, <1>3, <1>9
<1> QED
  BY Zenon, <1>5, <1>8, <1>10, <1>11, <1>12, ArrivesStep

\* A passkey is to be removed.
LEMMA DeletePasskeyStep ==
    ASSUME AccessInv, NEW r \in Requests, NEW b \in Browsers, DeletePasskey(r, b)
    PROVE  AccessInv'
<1>1. TypeOK
  BY Zenon DEF AccessInv
<1>2. UNCHANGED <<rows, jar, device, locks, clock, serial>>
  BY Zenon DEF DeletePasskey
<1>3. TypeOK' /\ UNCHANGED <<rows, locks, serial>>
  BY Zenon, <1>1, <1>2, SameTypes
<1>4. PICK p \in passkeys :
        req' = [req EXCEPT ![r] = [Idle EXCEPT !.pc = "delete", !.b = b, !.user = p.user,
                                               !.cred = p.cred, !.row = p.id]]
  BY Zenon DEF DeletePasskey
<1>5. p.user \in Users /\ p.cred \in Creds /\ p.id \in Nat
  BY Zenon, <1>1 DEF TypeOK, PasskeyCredential
<1>6. PICK q : q = [Idle EXCEPT !.pc = "delete", !.b = b, !.user = p.user,
                                !.cred = p.cred, !.row = p.id]
  BY Zenon
<1>7. q \in Request /\ q.b = b /\ q.pc = "delete" /\ q.op = "none"
  BY Zenon, <1>5, <1>6 DEF Idle, Request, Stages
<1>8. q.pc \in Path(q.op)
  BY Zenon, <1>7 DEF Path
<1>9. req' = [req EXCEPT ![r] = q]
  BY Zenon, <1>4, <1>6
<1> QED
  BY Zenon, <1>3, <1>7, <1>8, <1>9, ArrivesStep

-----------------------------------------------------------------------------
(* Locks.                                                                    *)

\* The User row is locked: what the request counts against a limit is read under the
\* lock, and an account that is not active gets no further unless it signs in with its
\* token.
LEMMA LockUserStep ==
    ASSUME AccessInv, NEW r \in Requests, LockUser(r)
    PROVE  AccessInv'
<1>1. TypeOK /\ Sound(r) /\ req \in [Requests -> Request]
  BY Zenon DEF AccessInv
<1>2. PICK o \in Request : o = req[r]
  BY Zenon, <1>1
<1>3. /\ o.pc = "user" /\ userLock[o.user] = None
      /\ UNCHANGED <<rows, jar, device, clock, serial>>
  BY Zenon, <1>2 DEF LockUser
<1>4. UNCHANGED <<rows, serial>>
  BY Zenon, <1>3
<1>5. CASE Ends(r)
  <2>1. TypeOK'
    BY Zenon, <1>1, <1>3, <1>5, EndsFrees DEF TypeOK, rows
  <2> QED
    BY Zenon, <1>4, <1>5, <2>1, EndsStep
<1>6. CASE ~Ends(r)
  <2> DEFINE owned == {p \in passkeys : p.user = o.user}
  <2>1. /\ o.op = "issue" \/ Active(o.user)
        /\ userLock' = [userLock EXCEPT ![o.user] = r] /\ UNCHANGED keyLock
        /\ req' = [req EXCEPT ![r].pc = o.op,
             ![r].drop = IF o.op = "issue" THEN Discarded(o.user, o.now) ELSE {},
             ![r].owned = IF o.op = "store" THEN Cardinality(owned) ELSE 0]
    BY Zenon, <1>2, <1>6 DEF LockUser
  <2>2. PICK d : d = IF o.op = "issue" THEN Discarded(o.user, o.now) ELSE {}
    BY Zenon
  <2>3. PICK n : n = IF o.op = "store" THEN Cardinality(PasskeysOf(o.user)) ELSE 0
    BY Zenon
  <2>4. PICK q : q = [o EXCEPT !.pc = o.op, !.drop = d, !.owned = n]
    BY Zenon
  <2>5. req' = [req EXCEPT ![r] = q]
    BY Zenon, <1>1, <1>2, <2>1, <2>2, <2>3, <2>4 DEF PasskeysOf
  <2>6. /\ o.op \in {"issue", "store", "verify"} /\ Exists(o.user)
        /\ o.b \in Browsers /\ HoldsUser(r, o) /\ HoldsKey(r, o)
    <3>1. o.pc \in Path(o.op) /\ o.op \in {"none", "issue", "store", "verify"}
      BY Zenon, <1>1, <1>2 DEF Sound, Request
    <3>2. o.op # "none"
      BY Zenon, <1>3, <3>1 DEF Path
    <3> QED
      BY Zenon, <1>1, <1>2, <1>3, <3>1, <3>2 DEF Sound, HoldsUser
  <2>7. o.op = "issue" => d \subseteq Nat /\ Cardinality(KeptSessions(o.user, d)) < MaxSessions
    <3>1. o.now \in Nat /\ (o.op = "issue" => d = Discarded(o.user, o.now))
      BY Zenon, <2>2 DEF Request
    <3> QED
      BY Zenon, <2>6, <3>1, DiscardedLeaves DEF Exists
  <2>8. d \in SUBSET Nat
    BY Zenon, <2>2, <2>7
  <2>9. Cardinality(PasskeysOf(o.user)) \in Nat
    BY Zenon, PartOf DEF AccessInv, RowsSound, PasskeysOf
  <2>10. n \in Nat /\ (o.op = "store" => Cardinality(PasskeysOf(o.user)) <= n)
    BY <2>3, <2>9
  <2>11. /\ q \in Request /\ q.pc = o.op /\ q.op = o.op /\ q.b = o.b /\ q.user = o.user
         /\ q.drop = d /\ q.owned = n /\ q.cred = o.cred /\ q.row = o.row /\ q.seen = o.seen
         /\ q.count = o.count
    BY Zenon, <2>4, <2>6, <2>8, <2>10 DEF Request, Stages
  <2>12. q.pc \in Path(q.op)
    BY Zenon, <2>6, <2>11 DEF Path
  <2>13. \A x \in Requests \ {r} : LocksKept(x)
    <3>1. o.user \in Users /\ userLock \in [Users -> Requests \cup {None}] /\ None \notin Requests
      BY Zenon, <1>1, <2>6, AccessAssumption DEF Exists, TypeOK
    <3> QED
      BY Zenon, <1>3, <2>1, <3>1 DEF LocksKept
  <2>14. TypeOK'
    <3>1. userLock' \in [Users -> Requests \cup {None}]
      BY Zenon, <1>1, <2>1 DEF TypeOK
    <3> QED
      BY Zenon, <1>1, <1>3, <2>1, <3>1 DEF TypeOK, rows
  <2>15. HoldsUser(r, q)'
    <3>1. userLock'[o.user] = r
      BY Zenon, <1>1, <2>1, <2>6 DEF TypeOK, Exists
    <3>2. /\ Exists(o.user)' = Exists(o.user) /\ Active(o.user)' = Active(o.user)
          /\ KeptSessions(o.user, d)' = KeptSessions(o.user, d)
          /\ PasskeysOf(o.user)' = PasskeysOf(o.user)
      BY Zenon, <1>4 DEF Exists, Active, KeptSessions, PasskeysOf, rows
    <3> QED
      BY Zenon, <2>1, <2>6, <2>7, <2>10, <2>11, <3>1, <3>2 DEF HoldsUser
  <2>16. HoldsKey(r, q)'
    <3>1. UNCHANGED <<keyLock, serial, passkeys>>
      BY Zenon, <1>4, <2>1 DEF rows
    <3> QED
      BY Zenon, <1>3, <2>6, <2>11, <3>1 DEF HoldsKey
  <2> QED
    BY Zenon, <1>4, <2>5, <2>6, <2>11, <2>12, <2>13, <2>14, <2>15, <2>16, RequestStep
<1> QED
  BY Zenon, <1>5, <1>6

\* What a request that ends leaves typed.
LEMMA EndsTypes ==
    ASSUME TypeOK, NEW r \in Requests, Ends(r),
           UNCHANGED <<rows, jar, device, clock, serial>>
    PROVE  TypeOK'
  BY Zenon, EndsFrees DEF TypeOK, rows

\* The credential was looked for: the request ends, or goes on to lock its account.
LEMMA CheckExistingStep ==
    ASSUME AccessInv, NEW r \in Requests, CheckExisting(r)
    PROVE  AccessInv'
<1>1. TypeOK /\ Sound(r) /\ req \in [Requests -> Request]
  BY Zenon DEF AccessInv
<1>2. PICK o \in Request : o = req[r]
  BY Zenon, <1>1
<1>3. o.pc = "existing" /\ UNCHANGED <<rows, jar, device, clock, serial>>
  BY Zenon, <1>2 DEF CheckExisting
<1>4. UNCHANGED <<rows, serial>>
  BY Zenon, <1>3
<1>5. CASE Ends(r)
  BY Zenon, <1>1, <1>3, <1>4, <1>5, EndsTypes, EndsStep
<1>6. CASE ~Ends(r)
  <2>1. Goes(r, "user") /\ UNCHANGED locks
    BY Zenon, <1>6 DEF CheckExisting
  <2>2. PICK q : q = [o EXCEPT !.pc = "user"]
    BY Zenon
  <2>3. req' = [req EXCEPT ![r] = q]
    BY Zenon, <1>1, <1>2, <2>1, <2>2 DEF Goes
  <2>4. q \in Request /\ q.pc = "user" /\ q.op = o.op /\ q.b = o.b /\ q.user = o.user
        /\ q.cred = o.cred /\ q.row = o.row /\ q.count = o.count
    BY Zenon, <2>2 DEF Request, Stages
  <2>5. /\ o.op = "store" /\ o.b \in Browsers /\ HoldsUser(r, o) /\ HoldsKey(r, o)
    <3>1. o.pc \in Path(o.op) /\ o.op \in {"none", "issue", "store", "verify"}
      BY Zenon, <1>1, <1>2 DEF Sound, Request
    <3> QED
      BY Zenon, <1>1, <1>2, <1>3, <3>1 DEF Sound, Path
  <2>6. TypeOK'
    BY Zenon, <1>1, <1>3, <2>1, SameTypes
  <2>7. HoldsUser(r, q)'
    BY Zenon, <1>4, <2>4, <2>5 DEF HoldsUser, Exists, rows
  <2>8. HoldsKey(r, q)'
    BY Zenon, <2>4, <2>5 DEF HoldsKey
  <2>9. q.pc \in Path(q.op)
    BY Zenon, <2>4, <2>5 DEF Path
  <2>10. \A x \in Requests \ {r} : LocksKept(x)
    BY Zenon, <2>1 DEF LocksKept, locks
  <2> QED
    BY Zenon, <1>4, <2>3, <2>4, <2>5, <2>6, <2>7, <2>8, <2>9, <2>10, RequestStep
<1> QED
  BY Zenon, <1>5, <1>6

\* The credential row is locked, and its counter read under the lock.
LEMMA LockKeyStep ==
    ASSUME AccessInv, NEW r \in Requests, LockKey(r)
    PROVE  AccessInv'
<1>1. TypeOK /\ Sound(r) /\ req \in [Requests -> Request] /\ RowsSound
  BY Zenon DEF AccessInv
<1>2. PICK o \in Request : o = req[r]
  BY Zenon, <1>1
<1>3. o.pc = "key" /\ UNCHANGED <<rows, jar, device, clock, serial>>
  BY Zenon, <1>2 DEF LockKey
<1>4. UNCHANGED <<rows, serial>>
  BY Zenon, <1>3
<1>5. CASE Ends(r)
  BY Zenon, <1>1, <1>3, <1>4, <1>5, EndsTypes, EndsStep
<1>6. CASE ~Ends(r)
  <2>1. /\ keyLock[o.cred] = None /\ keyLock' = [keyLock EXCEPT ![o.cred] = r]
        /\ UNCHANGED userLock
        /\ \E p \in {p \in passkeys : p.cred = o.cred} :
             req' = [req EXCEPT ![r].pc = "user", ![r].user = p.user, ![r].row = p.id,
                                ![r].seen = p.count]
    BY Zenon, <1>2, <1>6 DEF LockKey
  <2>2. PICK p \in passkeys :
          /\ p.cred = o.cred
          /\ req' = [req EXCEPT ![r].pc = "user", ![r].user = p.user, ![r].row = p.id,
                                ![r].seen = p.count]
    BY Zenon, <2>1
  <2>3. PICK q : q = [o EXCEPT !.pc = "user", !.user = p.user, !.row = p.id, !.seen = p.count]
    BY Zenon
  <2>4. req' = [req EXCEPT ![r] = q]
    BY Zenon, <1>1, <1>2, <2>2, <2>3
  <2>5. p.user \in Users /\ p.id \in Nat /\ p.count \in Nat /\ p.cred \in Creds
    BY Zenon, <1>1 DEF TypeOK, PasskeyCredential
  <2>6. /\ q \in Request /\ q.pc = "user" /\ q.op = o.op /\ q.b = o.b /\ q.user = p.user
        /\ q.cred = o.cred /\ q.row = p.id /\ q.seen = p.count /\ q.count = o.count
    BY Zenon, <2>3, <2>5 DEF Request, Stages
  <2>7. o.op = "verify" /\ o.b \in Browsers /\ HoldsKey(r, o)
    <3>1. o.pc \in Path(o.op) /\ o.op \in {"none", "issue", "store", "verify"}
      BY Zenon, <1>1, <1>2 DEF Sound, Request
    <3> QED
      BY Zenon, <1>1, <1>2, <1>3, <3>1 DEF Sound, Path
  <2>8. \A x \in Requests \ {r} : LocksKept(x)
    <3>1. keyLock \in [Creds -> Requests \cup {None}] /\ None \notin Requests
      BY Zenon, <1>1, AccessAssumption DEF TypeOK
    <3> QED
      BY Zenon, <2>1, <2>2, <2>5, <3>1 DEF LocksKept
  <2>9. TypeOK'
    <3>1. keyLock' \in [Creds -> Requests \cup {None}]
      BY Zenon, <1>1, <2>1 DEF TypeOK
    <3> QED
      BY Zenon, <1>1, <1>3, <2>1, <3>1 DEF TypeOK, rows
  <2>10. HoldsUser(r, q)'
    <3>1. account' = account /\ account[p.user] # "none"
      BY Zenon, <1>1, <1>4 DEF RowsSound, rows
    <3> QED
      BY Zenon, <2>5, <2>6, <2>7, <3>1 DEF HoldsUser, Exists
  <2>11. HoldsKey(r, q)'
    <3>1. serial' = serial /\ passkeys' = passkeys
      BY Zenon, <1>4 DEF rows
    <3>2. keyLock'[o.cred] = r
      BY Zenon, <1>1, <2>1, <2>2, <2>5 DEF TypeOK
    <3>3. p.id \in 1 .. serial /\ \A x \in passkeys : x.id = p.id => x = p
      BY Zenon, <1>1 DEF RowsSound
    <3> QED
      BY Zenon, <2>2, <2>6, <2>7, <3>1, <3>2, <3>3 DEF HoldsKey
  <2>12. q.pc \in Path(q.op)
    BY Zenon, <2>6, <2>7 DEF Path
  <2> QED
    BY Zenon, <1>4, <2>4, <2>6, <2>7, <2>8, <2>9, <2>10, <2>11, <2>12, RequestStep
<1> QED
  BY Zenon, <1>5, <1>6

\* The assertion is accepted, and the sessions to discard are read under the User lock.
LEMMA VerifyStep ==
    ASSUME AccessInv, NEW r \in Requests, VerifyAssertion(r)
    PROVE  AccessInv'
<1>1. TypeOK /\ Sound(r) /\ req \in [Requests -> Request]
  BY Zenon DEF AccessInv
<1>2. PICK o \in Request : o = req[r]
  BY Zenon, <1>1
<1>3. o.pc = "verify" /\ UNCHANGED <<rows, jar, device, clock, serial>>
  BY Zenon, <1>2 DEF VerifyAssertion
<1>4. UNCHANGED <<rows, serial>>
  BY Zenon, <1>3
<1>5. CASE Ends(r)
  BY Zenon, <1>1, <1>3, <1>4, <1>5, EndsTypes, EndsStep
<1>6. CASE ~Ends(r)
  <2>1. /\ CounterAccepted(o.count, o.seen) /\ UNCHANGED locks
        /\ req' = [req EXCEPT ![r].pc = "issue", ![r].now = clock,
                              ![r].drop = Discarded(o.user, clock)]
    BY Zenon, <1>2, <1>6 DEF VerifyAssertion
  <2>2. PICK d : d = Discarded(o.user, clock)
    BY Zenon
  <2>3. PICK q : q = [o EXCEPT !.pc = "issue", !.now = clock, !.drop = d]
    BY Zenon
  <2>4. req' = [req EXCEPT ![r] = q]
    BY Zenon, <1>1, <1>2, <2>1, <2>2, <2>3
  <2>5. o.op = "verify" /\ o.b \in Browsers /\ HoldsUser(r, o) /\ HoldsKey(r, o)
    <3>1. o.pc \in Path(o.op) /\ o.op \in {"none", "issue", "store", "verify"}
      BY Zenon, <1>1, <1>2 DEF Sound, Request
    <3> QED
      BY Zenon, <1>1, <1>2, <1>3, <3>1 DEF Sound, Path
  <2>6. Exists(o.user) /\ userLock[o.user] = r /\ Active(o.user)
    BY Zenon, <1>3, <2>5 DEF HoldsUser
  <2>7. clock \in Nat
    BY <1>1, AccessAssumption DEF TypeOK
  <2>8. d \subseteq Nat /\ Cardinality(KeptSessions(o.user, d)) < MaxSessions
    BY Zenon, <2>2, <2>6, <2>7, DiscardedLeaves DEF Exists
  <2>9. /\ q \in Request /\ q.pc = "issue" /\ q.op = o.op /\ q.b = o.b /\ q.user = o.user
        /\ q.drop = d /\ q.cred = o.cred /\ q.row = o.row /\ q.seen = o.seen
        /\ q.count = o.count
    BY Zenon, <2>3, <2>7, <2>8 DEF Request, Stages
  <2>10. TypeOK'
    BY Zenon, <1>1, <1>3, <2>1, SameTypes
  <2>11. \A x \in Requests \ {r} : LocksKept(x)
    BY Zenon, <2>1 DEF LocksKept, locks
  <2>12. HoldsUser(r, q)'
    BY Zenon, <1>4, <2>1, <2>5, <2>6, <2>8, <2>9
    DEF HoldsUser, Exists, Active, KeptSessions, rows, locks
  <2>13. HoldsKey(r, q)'
    <3>1. UNCHANGED <<keyLock, serial, passkeys>>
      BY Zenon, <1>4, <2>1 DEF rows, locks
    <3> QED
      BY Zenon, <1>3, <2>1, <2>5, <2>9, <3>1 DEF HoldsKey
  <2>14. q.pc \in Path(q.op)
    BY Zenon, <2>5, <2>9 DEF Path
  <2> QED
    BY Zenon, <1>4, <2>4, <2>5, <2>9, <2>10, <2>11, <2>12, <2>13, <2>14, RequestStep
<1> QED
  BY Zenon, <1>5, <1>6

-----------------------------------------------------------------------------
(* Steps that write.                                                         *)

\* The last step of a request, which writes and answers.
LEMMA EndsWriting ==
    ASSUME AccessInv, NEW r \in Requests, Ends(r), TypeOK', RowsSound', LimitsKept',
           \A x \in Requests \ {r} : RowsKept(x)
    PROVE  AccessInv'
<1>1. TypeOK
  BY Zenon DEF AccessInv
<1>2. req' = [req EXCEPT ![r] = Idle] /\ \A x \in Requests \ {r} : LocksKept(x)
  BY Zenon, <1>1, EndsFrees
<1>3. /\ Idle \in Request /\ Idle.pc = "idle" /\ Idle.pc \in Path(Idle.op)
      /\ HoldsUser(r, Idle)' /\ HoldsKey(r, Idle)'
  BY Zenon, IdleFits
<1> QED
  BY Zenon, <1>2, <1>3, RequestWrites

\* Challenges have no part in the other rows' soundness.
LEMMA ChallengesOnly ==
    ASSUME AccessInv, UNCHANGED <<account, sessions, passkeys>>,
           serial' \in Nat, serial' >= serial,
           IsFiniteSet(challenges'), Cardinality(challenges') <= MaxPending
    PROVE  RowsSound' /\ LimitsKept' /\ \A x : RowsKept(x)
<1>1. serial \in Nat /\ RowsSound /\ LimitsKept
  BY Zenon DEF AccessInv, TypeOK
<1>2. \A i : i \in 1 .. serial => i \in 1 .. serial'
  BY <1>1
<1>3. RowsSound'
  BY Zenon, <1>1, <1>2 DEF RowsSound
<1>4. \A u \in Users : PasskeysOf(u)' = PasskeysOf(u) /\ SessionsOf(u)' = SessionsOf(u)
  BY Zenon DEF PasskeysOf, SessionsOf
<1>5. LimitsKept'
  BY Zenon, <1>1, <1>4 DEF LimitsKept
<1>6. \A u \in Users : Cardinality(PasskeysOf(u)) \in Nat
  BY Zenon, <1>1, PartOf DEF RowsSound, PasskeysOf
<1>7. ASSUME NEW x PROVE RowsKept(x)
  BY <1>4, <1>6 DEF RowsKept
<1> QED
  BY Zenon, <1>3, <1>5, <1>7

\* A challenge is stored while fewer than the limit remain.
LEMMA StoreChallengeStep ==
    ASSUME AccessInv, NEW r \in Requests, StoreChallenge(r)
    PROVE  AccessInv'
<1>1. TypeOK /\ Sound(r) /\ req \in [Requests -> Request] /\ LimitsKept /\ IsFiniteSet(challenges)
  BY Zenon DEF AccessInv, RowsSound
<1>2. PICK o \in Request : o = req[r]
  BY Zenon, <1>1
<1>3. PICK kept : kept = Remaining(o.pc, o.user, o.now)
  BY Zenon
<1>4. /\ o.pc \in {"registration", "authentication"} /\ Ends(r)
      /\ UNCHANGED <<account, sessions, passkeys, device, clock>>
      /\ \/ /\ Cardinality(kept) < MaxPending /\ serial' = serial + 1
            /\ challenges' = kept \cup
                 {[id |-> serial + 1, kind |-> o.pc, user |-> o.user,
                   binding |-> serial + 1, expires |-> o.now + ChallengeAge]}
            /\ jar' = [jar EXCEPT ![o.b].binding = serial + 1]
         \/ UNCHANGED <<challenges, serial, jar>>
  BY Zenon, <1>2, <1>3 DEF StoreChallenge, Draws
<1>5. CASE UNCHANGED <<challenges, serial, jar>>
  <2>1. UNCHANGED <<rows, serial>> /\ UNCHANGED <<rows, jar, device, clock, serial>>
    BY Zenon, <1>4, <1>5 DEF rows
  <2> QED
    BY Zenon, <1>1, <1>4, <2>1, EndsTypes, EndsStep
<1>6. CASE ~UNCHANGED <<challenges, serial, jar>>
  <2>1. PICK c : c = [id |-> serial + 1, kind |-> o.pc, user |-> o.user,
                      binding |-> serial + 1, expires |-> o.now + ChallengeAge]
    BY Zenon
  <2>2. /\ Cardinality(kept) < MaxPending /\ serial' = serial + 1
        /\ challenges' = kept \cup {c} /\ jar' = [jar EXCEPT ![o.b].binding = serial + 1]
    BY Zenon, <1>4, <1>6, <2>1
  <2>3. kept \subseteq challenges
    BY Zenon, <1>3 DEF Remaining
  <2>4. IsFiniteSet(kept)
    BY Zenon, <1>1, <2>3, PartOf
  <2>5. IsFiniteSet(challenges') /\ Cardinality(challenges') <= MaxPending
    <3>1. /\ IsFiniteSet(challenges') /\ Cardinality(challenges') <= Cardinality(kept) + 1
          /\ Cardinality(challenges') \in Nat /\ Cardinality(kept) \in Nat
      BY Zenon, <2>2, <2>4, OneMore
    <3> QED
      BY <2>2, <3>1, AccessAssumption
  <2>6. serial \in Nat /\ serial' \in Nat /\ serial' >= serial
    BY <1>1, <2>2 DEF TypeOK
  <2>7. c \in WebAuthnChallenge
    <3>1. o.user \in Users \cup {None} /\ o.now \in Nat /\ ChallengeAge \in Nat
      BY Zenon, AccessAssumption DEF Request
    <3> QED
      BY <1>4, <2>1, <2>6, <3>1 DEF WebAuthnChallenge
  <2>8. challenges' \subseteq WebAuthnChallenge
    BY Zenon, <1>1, <2>2, <2>3, <2>7 DEF TypeOK
  <2>9. jar' \in [Browsers -> Jar]
    BY Zenon, <1>1, <2>2, <2>6 DEF TypeOK, Jar
  <2>10. TypeOK'
    BY Zenon, <1>1, <1>4, <2>6, <2>8, <2>9, EndsFrees DEF TypeOK
  <2>11. RowsSound' /\ LimitsKept' /\ \A x : RowsKept(x)
    BY Zenon, <1>4, <2>5, <2>6, ChallengesOnly
  <2> QED
    BY Zenon, <1>4, <2>10, <2>11, EndsWriting
<1> QED
  BY Zenon, <1>5, <1>6

\* A challenge is consumed by the request that brought it, which goes on.
LEMMA ConsumeStep ==
    ASSUME AccessInv, NEW r \in Requests, ConsumeRegistration(r) \/ ConsumeAuthentication(r)
    PROVE  AccessInv'
<1>1. TypeOK /\ Sound(r) /\ req \in [Requests -> Request] /\ LimitsKept /\ IsFiniteSet(challenges)
  BY Zenon DEF AccessInv, RowsSound
<1>2. PICK o \in Request : o = req[r]
  BY Zenon, <1>1
<1>3. PICK kind, u, next : /\ Consume(r, kind, u, next) /\ o.pc = "consume"
                           /\ \/ next = "existing" /\ o.op = "store"
                              \/ next = "key" /\ o.op = "verify"
  BY Zenon, <1>2 DEF ConsumeRegistration, ConsumeAuthentication
<1>4. /\ challenges' \subseteq challenges
      /\ Ends(r) \/ (Goes(r, next) /\ UNCHANGED locks)
      /\ UNCHANGED <<account, sessions, passkeys, jar, device, clock, serial>>
  BY Zenon, <1>3 DEF Consume
<1>5. IsFiniteSet(challenges') /\ Cardinality(challenges') <= MaxPending
  <2>1. /\ IsFiniteSet(challenges') /\ Cardinality(challenges') <= Cardinality(challenges)
        /\ Cardinality(challenges') \in Nat /\ Cardinality(challenges) \in Nat
    BY Zenon, <1>1, <1>4, PartOf
  <2>2. Cardinality(challenges) <= MaxPending /\ MaxPending \in Nat
    BY Zenon, <1>1, AccessAssumption DEF LimitsKept
  <2> QED
    BY <2>1, <2>2
<1>6. serial' \in Nat /\ serial' >= serial
  BY <1>1, <1>4 DEF TypeOK
<1>7. RowsSound' /\ LimitsKept' /\ \A x : RowsKept(x)
  BY Zenon, <1>4, <1>5, <1>6, ChallengesOnly
<1>8. challenges' \subseteq WebAuthnChallenge
  BY Zenon, <1>1, <1>4 DEF TypeOK
<1>9. CASE Ends(r)
  <2>1. TypeOK'
    BY Zenon, <1>1, <1>4, <1>8, <1>9, EndsFrees DEF TypeOK
  <2> QED
    BY Zenon, <1>7, <1>9, <2>1, EndsWriting
<1>10. CASE Goes(r, next) /\ UNCHANGED locks
  <2>1. TypeOK'
    BY Zenon, <1>1, <1>4, <1>8, <1>10 DEF TypeOK, locks
  <2>2. PICK q : q = [o EXCEPT !.pc = next]
    BY Zenon
  <2>3. req' = [req EXCEPT ![r] = q]
    BY Zenon, <1>1, <1>2, <1>10, <2>2 DEF Goes
  <2>4. /\ q \in Request /\ q.pc = next /\ q.op = o.op /\ q.b = o.b /\ q.user = o.user
        /\ q.cred = o.cred /\ q.row = o.row /\ q.count = o.count
    BY Zenon, <1>3, <2>2 DEF Request, Stages
  <2>5. o.b \in Browsers /\ HoldsUser(r, o) /\ HoldsKey(r, o)
    BY Zenon, <1>1, <1>2, <1>3 DEF Sound
  <2>6. HoldsUser(r, q)'
    BY Zenon, <1>3, <1>4, <2>4, <2>5 DEF HoldsUser, Exists
  <2>7. HoldsKey(r, q)'
    BY Zenon, <1>3, <2>4, <2>5 DEF HoldsKey
  <2>8. q.pc \in Path(q.op)
    BY Zenon, <1>3, <2>4 DEF Path
  <2>9. \A x \in Requests \ {r} : LocksKept(x) /\ RowsKept(x)
    BY Zenon, <1>7, <1>10 DEF LocksKept, locks
  <2> QED
    BY Zenon, <1>7, <2>1, <2>3, <2>4, <2>5, <2>6, <2>7, <2>8, <2>9, RequestWrites
<1> QED
  BY Zenon, <1>4, <1>9, <1>10

\* Signing out, an expired session that is met, and the administrator's sign-in only
\* take sessions away.
LEMMA SessionsGone ==
    ASSUME AccessInv, UNCHANGED <<account, passkeys, challenges, serial>>,
           sessions' \subseteq sessions
    PROVE  RowsSound' /\ LimitsKept' /\ \A x : RowsKept(x)
<1>1. serial \in Nat /\ RowsSound /\ LimitsKept
  BY Zenon DEF AccessInv, TypeOK
<1>2. IsFiniteSet(sessions')
  BY Zenon, <1>1, PartOf DEF RowsSound
<1>3. RowsSound'
  BY Zenon, <1>1, <1>2 DEF RowsSound
<1>4. \A u \in Users : PasskeysOf(u)' = PasskeysOf(u) /\ SessionsOf(u)' \subseteq SessionsOf(u)
  BY Zenon DEF PasskeysOf, SessionsOf
<1>5. ASSUME NEW u \in Users
      PROVE  Cardinality(SessionsOf(u)') <= MaxSessions
  <2>1. IsFiniteSet(SessionsOf(u))
    BY Zenon, <1>1, PartOf DEF SessionsOf, RowsSound
  <2>2. /\ Cardinality(SessionsOf(u)') <= Cardinality(SessionsOf(u))
        /\ Cardinality(SessionsOf(u)') \in Nat /\ Cardinality(SessionsOf(u)) \in Nat
    BY Zenon, <1>4, <2>1, PartOf
  <2>3. Cardinality(SessionsOf(u)) <= MaxSessions /\ MaxSessions \in Nat
    BY Zenon, <1>1, AccessAssumption DEF LimitsKept
  <2> QED
    BY <2>2, <2>3
<1>6. LimitsKept'
  BY Zenon, <1>1, <1>4, <1>5 DEF LimitsKept
<1>7. \A u \in Users : Cardinality(PasskeysOf(u)) \in Nat
  BY Zenon, <1>1, PartOf DEF RowsSound, PasskeysOf
<1>8. ASSUME NEW x PROVE RowsKept(x)
  BY <1>1, <1>4, <1>7 DEF RowsKept
<1> QED
  BY Zenon, <1>3, <1>6, <1>8

\* The browser's own requests and the administrator's sign-in.
LEMMA BrowserStep ==
    ASSUME AccessInv, NEW b \in Browsers,
           Logout(b) \/ DropExpired(b) \/ AdminLogin(b) \/ AdminLogout(b)
    PROVE  AccessInv'
<1>1. TypeOK /\ clock \in Nat
  BY AccessAssumption DEF AccessInv, TypeOK
<1>2. UNCHANGED <<account, passkeys, challenges, serial, req, locks, device, clock>>
  BY Zenon DEF Logout, DropExpired, AdminLogin, AdminLogout, rows
<1>3. sessions' \subseteq sessions
  BY Zenon DEF Logout, DropExpired, AdminLogin, AdminLogout, rows, Revoked
<1>4. jar' \in [Browsers -> Jar]
  <2>1. jar \in [Browsers -> Jar]
    BY Zenon, <1>1 DEF TypeOK
  <2>2. CASE Logout(b)
    BY Zenon, <2>1, <2>2 DEF Logout, Jar
  <2>3. CASE DropExpired(b)
    BY Zenon, <2>1, <2>3 DEF DropExpired
  <2>4. CASE AdminLogin(b)
    BY Zenon, <1>1, <2>1, <2>4 DEF AdminLogin, Jar
  <2>5. CASE AdminLogout(b)
    BY Zenon, <2>1, <2>5 DEF AdminLogout, Jar
  <2> QED
    BY Zenon, <2>2, <2>3, <2>4, <2>5
<1>5. TypeOK'
  BY Zenon, <1>1, <1>2, <1>3, <1>4 DEF TypeOK, locks
<1>6. RowsSound' /\ LimitsKept' /\ \A x : RowsKept(x)
  BY Zenon, <1>2, <1>3, SessionsGone
<1> QED
  BY Zenon, <1>2, <1>5, <1>6, OutsideStep

\* Time passes.
LEMMA TickStep ==
    ASSUME AccessInv, Tick
    PROVE  AccessInv'
<1>1. TypeOK /\ UNCHANGED <<rows, jar, device, req, locks, serial>>
  BY Zenon DEF AccessInv, Tick
<1>2. clock' \in 0 .. MaxClock
  BY <1>1, AccessAssumption DEF TypeOK, Tick
<1>3. TypeOK'
  BY Zenon, <1>1, <1>2 DEF TypeOK, rows, locks
<1>4. RowsSound' /\ LimitsKept'
  BY Zenon, <1>1 DEF AccessInv, RowsSound, LimitsKept, SessionsOf, PasskeysOf, rows
<1>5. \A x : RowsKept(x)
  BY Zenon, <1>1, RowsSame DEF rows
<1> QED
  BY Zenon, <1>1, <1>3, <1>4, <1>5, OutsideStep

\* A replica is lost with its request.
LEMMA CrashStep ==
    ASSUME AccessInv, NEW r \in Requests, Crash(r)
    PROVE  AccessInv'
<1>1. TypeOK /\ Ends(r) /\ UNCHANGED <<rows, jar, device, clock, serial>>
  BY Zenon DEF AccessInv, Crash
<1> QED
  BY Zenon, <1>1, EndsTypes, EndsStep

\* The administrator suspends or restores an account that no request has locked.
LEMMA SuspensionStep ==
    ASSUME AccessInv, NEW u \in Users, NEW status \in {"active", "suspended"},
           SetSuspension(u, status)
    PROVE  AccessInv'
<1>1. TypeOK /\ RowsSound /\ LimitsKept
  BY Zenon DEF AccessInv
<1>2. /\ UNCHANGED <<sessions, passkeys, challenges, jar, device, req, locks, clock, serial>>
      /\ account' = [account EXCEPT ![u] = status] /\ userLock[u] = None
      /\ account \in [Users -> {"none", "active", "suspended"}] /\ serial \in Nat
      /\ passkeys \subseteq PasskeyCredential /\ sessions \subseteq BrowserSession
  BY Zenon, <1>1 DEF SetSuspension, TypeOK
<1>3. /\ account' \in [Users -> {"none", "active", "suspended"}]
      /\ \A v \in Users : account[v] # "none" => account'[v] # "none"
      /\ \A v \in Users : v # u => account'[v] = account[v]
  BY Zenon, <1>2
<1>4. TypeOK'
  BY Zenon, <1>1, <1>2, <1>3 DEF TypeOK, locks
<1>5. RowsSound'
  <2>1. \A s \in sessions : s.user \in Users
    BY Zenon, <1>2 DEF BrowserSession
  <2>2. \A p \in passkeys : p.user \in Users
    BY Zenon, <1>2 DEF PasskeyCredential
  <2> QED
    BY Zenon, <1>1, <1>2, <1>3, <2>1, <2>2 DEF RowsSound
<1>6. \A v : PasskeysOf(v)' = PasskeysOf(v) /\ SessionsOf(v)' = SessionsOf(v)
  BY Zenon, <1>2 DEF PasskeysOf, SessionsOf
<1>7. LimitsKept'
  BY Zenon, <1>1, <1>2, <1>6 DEF LimitsKept
<1>8. \A v \in Users : Cardinality(PasskeysOf(v)) \in Nat
  BY Zenon, <1>1, PartOf DEF RowsSound, PasskeysOf
<1>9. ASSUME NEW x \in Requests PROVE RowsKept(x)
  <2>1. \A v \in Users : userLock[v] = x => v # u
    BY Zenon, <1>2, AccessAssumption
  <2> QED
    BY <1>2, <1>3, <1>6, <1>8, <2>1 DEF RowsKept
<1> QED
  BY Zenon, <1>2, <1>4, <1>5, <1>7, <1>9, OutsideStep

\* A new counter is written to one credential row: every row stays what it was otherwise.
LEMMA Recounted ==
    ASSUME AccessInv, NEW row, NEW n \in Nat,
           passkeys' = {IF p.id = row THEN [p EXCEPT !.count = n] ELSE p : p \in passkeys}
    PROVE  /\ passkeys' \subseteq PasskeyCredential /\ IsFiniteSet(passkeys')
           /\ \A p \in passkeys' : \E o \in passkeys :
                /\ p.id = o.id /\ p.cred = o.cred /\ p.user = o.user
                /\ p.count = IF o.id = row THEN n ELSE o.count
           /\ \A p, q \in passkeys' : p.id = q.id => p = q
           /\ \A u : Cardinality(PasskeysOf(u)') <= Cardinality(PasskeysOf(u))
<1> DEFINE New(p) == IF p.id = row THEN [p EXCEPT !.count = n] ELSE p
<1>1. /\ passkeys \subseteq PasskeyCredential /\ IsFiniteSet(passkeys)
      /\ \A p, q \in passkeys : p.id = q.id => p = q
  BY Zenon DEF AccessInv, TypeOK, RowsSound
<1>2. \A p \in passkeys : /\ New(p) \in PasskeyCredential /\ New(p).id = p.id
                          /\ New(p).cred = p.cred /\ New(p).user = p.user
                          /\ New(p).count = IF p.id = row THEN n ELSE p.count
  BY Zenon, <1>1 DEF PasskeyCredential
<1>3. passkeys' = {New(p) : p \in passkeys}
  BY Zenon
<1> HIDE DEF New
<1>4. passkeys' \subseteq PasskeyCredential
  BY Zenon, <1>2, <1>3
<1>5. \A p \in passkeys' : \E o \in passkeys : p = New(o)
  BY Zenon, <1>3
<1>6. \A p \in passkeys' : \E o \in passkeys :
        /\ p.id = o.id /\ p.cred = o.cred /\ p.user = o.user
        /\ p.count = IF o.id = row THEN n ELSE o.count
  <2> TAKE p \in passkeys'
  <2>1. PICK o \in passkeys : p = New(o)
    BY Zenon, <1>5
  <2>2. /\ p.id = o.id /\ p.cred = o.cred /\ p.user = o.user
        /\ p.count = IF o.id = row THEN n ELSE o.count
    BY Zenon, <1>2, <2>1
  <2> QED
    BY Zenon, <2>2
<1>7. ASSUME NEW p \in passkeys', NEW q \in passkeys', p.id = q.id PROVE p = q
  <2>1. PICK o \in passkeys : p = New(o)
    BY Zenon, <1>5
  <2>2. PICK w \in passkeys : q = New(w)
    BY Zenon, <1>5
  <2>3. o.id = w.id
    BY Zenon, <1>2, <1>7, <2>1, <2>2
  <2>4. o = w
    BY Zenon, <1>1, <2>3
  <2> QED
    BY Zenon, <2>1, <2>2, <2>4
<1>8. ASSUME NEW S, S \subseteq passkeys, NEW T, T = {New(p) : p \in S}
      PROVE  IsFiniteSet(T) /\ Cardinality(T) <= Cardinality(S)
  <2>1. IsFiniteSet(S)
    BY Zenon, <1>1, <1>8, PartOf
  <2>2. PICK f : f = [p \in S |-> New(p)]
    BY Zenon
  <2>3. f \in Surjection(S, T)
    BY Zenon, <1>8, <2>2 DEF Surjection
  <2> QED
    BY Zenon, <2>1, <2>3, FS_Surjection
<1>9. IsFiniteSet(passkeys')
  BY Zenon, <1>3, <1>8
<1>10. ASSUME NEW u PROVE Cardinality(PasskeysOf(u)') <= Cardinality(PasskeysOf(u))
  <2>1. PasskeysOf(u)' = {New(p) : p \in PasskeysOf(u)}
    <3>1. PasskeysOf(u)' \subseteq {New(p) : p \in PasskeysOf(u)}
      BY Zenon, <1>2, <1>3 DEF PasskeysOf
    <3>2. {New(p) : p \in PasskeysOf(u)} \subseteq PasskeysOf(u)'
      BY Zenon, <1>2, <1>3 DEF PasskeysOf
    <3> QED
      BY Zenon, <3>1, <3>2
  <2>2. PasskeysOf(u) \subseteq passkeys
    BY Zenon DEF PasskeysOf
  <2> QED
    BY Zenon, <1>8, <2>1, <2>2
<1> QED
  BY Zenon, <1>4, <1>6, <1>7, <1>9, <1>10

\* The session that a sign-in inserts.
NewSession(u, t, method, id) ==
    [id |-> id, user |-> u, created |-> t, expires |-> t + SessionAge, method |-> method]

\* A new session, after the ones in drop were deleted, and what it leaves of the others.
LEMMA IssuedSound ==
    ASSUME AccessInv, NEW u \in Users, NEW t \in Nat, NEW method \in {"token", "passkey"},
           NEW drop, Cardinality(KeptSessions(u, drop)) < MaxSessions,
           sessions' = Issued(u, t, method, drop, serial + 1)
    PROVE  /\ sessions' \subseteq BrowserSession /\ IsFiniteSet(sessions')
           /\ sessions' \subseteq sessions \cup {NewSession(u, t, method, serial + 1)}
           /\ \A s \in sessions' : s.id \in 1 .. serial + 1
           /\ \A s, x \in sessions' : s.id = x.id => s = x
           /\ \A v \in Users : Cardinality(SessionsOf(v)') <= MaxSessions
           /\ \A v \in Users : v # u => SessionsOf(v)' \subseteq SessionsOf(v)
<1>1. PICK n : n = NewSession(u, t, method, serial + 1)
  BY Zenon
<1>2. /\ sessions \subseteq BrowserSession /\ IsFiniteSet(sessions) /\ serial \in Nat
      /\ \A s \in sessions : s.id \in 1 .. serial
      /\ \A s, x \in sessions : s.id = x.id => s = x
      /\ \A v \in Users : Cardinality(SessionsOf(v)) <= MaxSessions
  BY Zenon DEF AccessInv, TypeOK, RowsSound, LimitsKept
<1>3. SessionAge \in Nat /\ MaxSessions \in Nat
  BY Zenon, AccessAssumption
<1>4. n \in BrowserSession /\ n.id = serial + 1 /\ n.user = u
  BY <1>1, <1>2, <1>3 DEF NewSession, BrowserSession
<1>5. sessions' = {s \in sessions : s.id \notin drop} \cup {n}
  BY Zenon, <1>1 DEF Issued, NewSession
<1>6. sessions' \subseteq sessions \cup {n}
  BY Zenon, <1>5
<1>7. sessions' \subseteq BrowserSession
  BY Zenon, <1>2, <1>4, <1>6
<1>8. IsFiniteSet(sessions')
  BY Zenon, <1>2, <1>6, OneMore
<1>9. \A s \in sessions : s.id \in Nat /\ s.id <= serial /\ s.id \in 1 .. serial + 1
  BY <1>2
<1>10. \A s \in sessions' : s.id \in 1 .. serial + 1
  BY <1>2, <1>4, <1>6, <1>9
<1>11. \A s, x \in sessions' : s.id = x.id => s = x
  BY <1>2, <1>4, <1>6, <1>9
<1>12. \A v \in Users : v # u => SessionsOf(v)' \subseteq SessionsOf(v)
  BY Zenon, <1>4, <1>6 DEF SessionsOf
<1>13. ASSUME NEW v \in Users PROVE Cardinality(SessionsOf(v)') <= MaxSessions
  <2>1. CASE v = u
    <3>1. SessionsOf(u)' \subseteq KeptSessions(u, drop) \cup {n}
      BY Zenon, <1>5 DEF SessionsOf, KeptSessions
    <3>2. IsFiniteSet(KeptSessions(u, drop))
      BY Zenon, <1>2, PartOf DEF KeptSessions
    <3>3. /\ Cardinality(SessionsOf(u)') <= Cardinality(KeptSessions(u, drop)) + 1
          /\ Cardinality(SessionsOf(u)') \in Nat /\ Cardinality(KeptSessions(u, drop)) \in Nat
      BY Zenon, <3>1, <3>2, OneMore
    <3> QED
      BY <1>3, <2>1, <3>3
  <2>2. CASE v # u
    <3>1. IsFiniteSet(SessionsOf(v)) /\ Cardinality(SessionsOf(v)) <= MaxSessions
      BY Zenon, <1>2, PartOf DEF SessionsOf
    <3>2. /\ Cardinality(SessionsOf(v)') <= Cardinality(SessionsOf(v))
          /\ Cardinality(SessionsOf(v)') \in Nat /\ Cardinality(SessionsOf(v)) \in Nat
      BY Zenon, <1>12, <2>2, <3>1, PartOf
    <3> QED
      BY <1>3, <3>1, <3>2
  <2> QED
    BY Zenon, <2>1, <2>2
<1> QED
  BY Zenon, <1>1, <1>6, <1>7, <1>8, <1>10, <1>11, <1>12, <1>13

\* A sign-in's cookies.
LEMMA SignedInType ==
    ASSUME jar \in [Browsers -> Jar], NEW b \in Browsers, NEW id \in Nat
    PROVE  SignedIn(b, id) \in [Browsers -> Jar]
<1>1. PICK j : j = [jar[b] EXCEPT !.session = id, !.legacy = FALSE]
  BY Zenon
<1>2. j \in Jar
  BY Zenon, <1>1 DEF Jar
<1>3. SignedIn(b, id) = [jar EXCEPT ![b] = j]
  BY Zenon, <1>1 DEF SignedIn
<1> QED
  BY Zenon, <1>2, <1>3

\* The commit of a sign-in.
LEMMA IssueStep ==
    ASSUME AccessInv, NEW r \in Requests, IssueSession(r)
    PROVE  AccessInv'
<1>1. /\ TypeOK /\ Sound(r) /\ req \in [Requests -> Request] /\ RowsSound /\ LimitsKept
      /\ serial \in Nat
  BY Zenon DEF AccessInv, TypeOK
<1>2. PICK o \in Request : o = req[r]
  BY Zenon, <1>1
<1>3. /\ o.pc = "issue" /\ serial' = serial + 1 /\ Ends(r)
      /\ sessions' = Issued(o.user, o.now, IF o.op = "issue" THEN "token" ELSE "passkey",
                            o.drop, serial + 1)
      /\ passkeys' = {IF p.id = o.row THEN [p EXCEPT !.count = o.count] ELSE p : p \in passkeys}
      /\ jar' = IF o.op = "issue" THEN SignedIn(o.b, serial + 1)
                ELSE [SignedIn(o.b, serial + 1) EXCEPT ![o.b].binding = 0]
      /\ UNCHANGED <<account, challenges, device, clock>>
  BY Zenon, <1>2 DEF IssueSession, Draws
<1>4. PICK method \in {"token", "passkey"} :
        sessions' = Issued(o.user, o.now, method, o.drop, serial + 1)
  BY Zenon, <1>3
<1>5. /\ o.pc \in Path(o.op) /\ o.op \in {"none", "issue", "store", "verify"}
      /\ o.b \in Browsers /\ HoldsUser(r, o) /\ HoldsKey(r, o)
      /\ o.now \in Nat /\ o.count \in Nat
  BY Zenon, <1>1, <1>2, <1>3 DEF Sound, Request
<1>6. o.op \in {"issue", "verify"}
  BY Zenon, <1>3, <1>5 DEF Path
<1>7. /\ o.user \in Users /\ account[o.user] # "none" /\ userLock[o.user] = r
      /\ Cardinality(KeptSessions(o.user, o.drop)) < MaxSessions
  BY Zenon, <1>3, <1>5 DEF HoldsUser, Exists
<1>8. /\ sessions' \subseteq BrowserSession /\ IsFiniteSet(sessions')
      /\ sessions' \subseteq sessions \cup {NewSession(o.user, o.now, method, serial + 1)}
      /\ \A s \in sessions' : s.id \in 1 .. serial + 1
      /\ \A s, x \in sessions' : s.id = x.id => s = x
      /\ \A v \in Users : Cardinality(SessionsOf(v)') <= MaxSessions
      /\ \A v \in Users : v # o.user => SessionsOf(v)' \subseteq SessionsOf(v)
  BY Zenon, <1>4, <1>5, <1>7, IssuedSound
<1>9. /\ passkeys' \subseteq PasskeyCredential /\ IsFiniteSet(passkeys')
      /\ \A p \in passkeys' : \E w \in passkeys :
           /\ p.id = w.id /\ p.cred = w.cred /\ p.user = w.user
           /\ p.count = IF w.id = o.row THEN o.count ELSE w.count
      /\ \A p, q \in passkeys' : p.id = q.id => p = q
      /\ \A u : Cardinality(PasskeysOf(u)') <= Cardinality(PasskeysOf(u))
  BY Zenon, <1>3, <1>5, Recounted
<1>10. jar' \in [Browsers -> Jar]
  <2>1. jar \in [Browsers -> Jar]
    BY Zenon, <1>1 DEF TypeOK
  <2>2. SignedIn(o.b, serial + 1) \in [Browsers -> Jar]
    BY <1>1, <1>5, <2>1, SignedInType
  <2>3. [SignedIn(o.b, serial + 1) EXCEPT ![o.b].binding = 0] \in [Browsers -> Jar]
    BY Zenon, <2>2 DEF Jar
  <2> QED
    BY Zenon, <1>3, <2>2, <2>3
<1>11. TypeOK'
  <2>1. serial' \in Nat
    BY <1>1, <1>3
  <2> QED
    BY Zenon, <1>1, <1>3, <1>8, <1>9, <1>10, <2>1, EndsFrees DEF TypeOK
<1>12. RowsSound'
  <2>1. \A s \in sessions' : account[s.user] # "none"
    BY <1>1, <1>7, <1>8 DEF RowsSound, NewSession
  <2>2. \A p \in passkeys' : p.id \in 1 .. serial' /\ account[p.user] # "none"
    BY <1>1, <1>3, <1>9 DEF RowsSound
  <2> QED
    BY Zenon, <1>1, <1>3, <1>8, <1>9, <2>1, <2>2 DEF RowsSound
<1>13. LimitsKept'
  <2>1. ASSUME NEW u \in Users PROVE Cardinality(PasskeysOf(u)') <= MaxPasskeys
    <3>1. PasskeysOf(u)' \subseteq passkeys'
      BY Zenon DEF PasskeysOf
    <3>2. Cardinality(PasskeysOf(u)') \in Nat
      BY Zenon, <1>9, <3>1, PartOf
    <3>3. Cardinality(PasskeysOf(u)) \in Nat
      BY Zenon, <1>1, PartOf DEF PasskeysOf, RowsSound
    <3>4. Cardinality(PasskeysOf(u)) <= MaxPasskeys /\ MaxPasskeys \in Nat
      BY Zenon, <1>1, AccessAssumption DEF LimitsKept
    <3> QED
      BY <1>9, <3>2, <3>3, <3>4
  <2> QED
    BY Zenon, <1>1, <1>3, <1>8, <2>1 DEF LimitsKept
<1>14. ASSUME NEW x \in Requests \ {r} PROVE RowsKept(x)
  <2>1. \A u \in Users : userLock[u] = x => u # o.user
    BY Zenon, <1>7
  <2>2. ASSUME NEW p \in passkeys'
        PROVE  \E q \in passkeys : /\ q.id = p.id /\ q.cred = p.cred /\ q.user = p.user
                                   /\ keyLock[p.cred] = x => q.count = p.count
    <3>1. PICK w \in passkeys : /\ p.id = w.id /\ p.cred = w.cred /\ p.user = w.user
                                /\ p.count = IF w.id = o.row THEN o.count ELSE w.count
      BY Zenon, <1>9
    <3>2. w.id = o.row => keyLock[w.cred] = r
      <4>1. w.id # 0
        BY <1>1 DEF RowsSound
      <4> QED
        BY Zenon, <1>3, <1>5, <1>6, <4>1 DEF HoldsKey
    <3> QED
      BY Zenon, <3>1, <3>2
  <2>3. serial' \in Nat /\ serial' >= serial /\ account' = account
    BY <1>1, <1>3
  <2> QED
    BY Zenon, <1>8, <1>9, <2>1, <2>2, <2>3 DEF RowsKept
<1> QED
  BY Zenon, <1>3, <1>11, <1>12, <1>13, <1>14, EndsWriting

\* A new account and its first session.
LEMMA SignupStep ==
    ASSUME AccessInv, NEW r \in Requests, NEW b \in Browsers, Signup(r, b)
    PROVE  AccessInv'
<1>1. /\ TypeOK /\ RowsSound /\ LimitsKept /\ serial \in Nat /\ clock \in Nat
      /\ account \in [Users -> {"none", "active", "suspended"}]
  BY AccessAssumption DEF AccessInv, TypeOK
<1>2. PICK u \in Users : u = Holder[b]
  BY Zenon, AccessAssumption
<1>3. /\ account[u] = "none" /\ serial' = serial + 1
      /\ account' = [account EXCEPT ![u] = "active"]
      /\ sessions' = Issued(u, clock, "token", {}, serial + 1)
      /\ jar' = SignedIn(b, serial + 1)
      /\ UNCHANGED <<passkeys, challenges, device, req, locks, clock>>
  BY Zenon, <1>2 DEF Signup, Draws
<1>4. Cardinality(KeptSessions(u, {})) < MaxSessions
  <2>1. KeptSessions(u, {}) = {}
    BY Zenon, <1>1, <1>3 DEF KeptSessions, RowsSound
  <2>2. Cardinality({}) = 0
    BY Zenon, FS_EmptySet
  <2> QED
    BY <2>1, <2>2, AccessAssumption
<1>5. /\ sessions' \subseteq BrowserSession /\ IsFiniteSet(sessions')
      /\ sessions' \subseteq sessions \cup {NewSession(u, clock, "token", serial + 1)}
      /\ \A s \in sessions' : s.id \in 1 .. serial + 1
      /\ \A s, x \in sessions' : s.id = x.id => s = x
      /\ \A v \in Users : Cardinality(SessionsOf(v)') <= MaxSessions
      /\ \A v \in Users : v # u => SessionsOf(v)' \subseteq SessionsOf(v)
  BY Zenon, <1>1, <1>3, <1>4, IssuedSound
<1>6. jar' \in [Browsers -> Jar]
  BY <1>1, <1>3, SignedInType DEF TypeOK
<1>7. /\ account' \in [Users -> {"none", "active", "suspended"}]
      /\ \A v \in Users : account[v] # "none" => account'[v] # "none"
      /\ \A v \in Users : v # u => account'[v] = account[v]
      /\ account'[u] # "none"
  BY Zenon, <1>1, <1>3
<1>8. serial' \in Nat /\ serial' >= serial
  BY <1>1, <1>3
<1>9. TypeOK'
  BY Zenon, <1>1, <1>3, <1>5, <1>6, <1>7, <1>8 DEF TypeOK, locks
<1>10. RowsSound'
  <2>1. \A s \in sessions : s.user \in Users
    BY Zenon, <1>1 DEF TypeOK, BrowserSession
  <2>2. \A p \in passkeys : p.user \in Users /\ p.id \in 1 .. serial'
    BY <1>1, <1>3 DEF TypeOK, PasskeyCredential, RowsSound
  <2>3. \A s \in sessions' : s \in sessions \/ s.user = u
    BY <1>5 DEF NewSession
  <2>4. \A s \in sessions' : account'[s.user] # "none"
    BY Zenon, <1>1, <1>7, <2>1, <2>3 DEF RowsSound
  <2>5. \A p \in passkeys : account'[p.user] # "none"
    BY Zenon, <1>1, <1>7, <2>2 DEF RowsSound
  <2> QED
    BY Zenon, <1>1, <1>3, <1>5, <2>2, <2>4, <2>5 DEF RowsSound
<1>11. \A v : PasskeysOf(v)' = PasskeysOf(v)
  BY Zenon, <1>3 DEF PasskeysOf
<1>12. LimitsKept'
  BY Zenon, <1>1, <1>3, <1>5, <1>11 DEF LimitsKept
<1>13. \A v \in Users : Cardinality(PasskeysOf(v)) \in Nat
  BY Zenon, <1>1, PartOf DEF RowsSound, PasskeysOf
<1>14. ASSUME NEW x \in Requests PROVE RowsKept(x)
  BY <1>3, <1>5, <1>7, <1>8, <1>11, <1>13 DEF RowsKept
<1> QED
  BY Zenon, <1>3, <1>9, <1>10, <1>12, <1>14, OutsideStep

\* A passkey is stored for an account that has room for it.
LEMMA StorePasskeyStep ==
    ASSUME AccessInv, NEW r \in Requests, StorePasskey(r)
    PROVE  AccessInv'
<1>1. /\ TypeOK /\ Sound(r) /\ req \in [Requests -> Request] /\ RowsSound /\ LimitsKept
      /\ serial \in Nat /\ passkeys \subseteq PasskeyCredential
  BY Zenon DEF AccessInv, TypeOK
<1>2. PICK o \in Request : o = req[r]
  BY Zenon, <1>1
<1>3. PICK n : n = [id |-> serial + 1, cred |-> o.cred, user |-> o.user, count |-> o.count]
  BY Zenon
<1>4. /\ o.pc = "store" /\ Ends(r)
      /\ UNCHANGED <<account, sessions, challenges, device, clock>>
      /\ \/ /\ o.owned < MaxPasskeys /\ serial' = serial + 1
            /\ passkeys' = passkeys \cup {n} /\ jar' = [jar EXCEPT ![o.b].binding = 0]
         \/ UNCHANGED <<passkeys, serial, jar>>
  BY Zenon, <1>2, <1>3 DEF StorePasskey, Draws
<1>5. CASE UNCHANGED <<passkeys, serial, jar>>
  <2>1. UNCHANGED <<rows, serial>> /\ UNCHANGED <<rows, jar, device, clock, serial>>
    BY Zenon, <1>4, <1>5 DEF rows
  <2> QED
    BY Zenon, <1>1, <1>4, <2>1, EndsTypes, EndsStep
<1>6. CASE ~UNCHANGED <<passkeys, serial, jar>>
  <2>1. /\ o.owned < MaxPasskeys /\ serial' = serial + 1
        /\ passkeys' = passkeys \cup {n} /\ jar' = [jar EXCEPT ![o.b].binding = 0]
    BY Zenon, <1>4, <1>6
  <2>2. /\ o.pc \in Path(o.op) /\ o.op \in {"none", "issue", "store", "verify"}
        /\ HoldsUser(r, o) /\ HoldsKey(r, o) /\ o.count \in Nat /\ o.owned \in Nat
    BY Zenon, <1>1, <1>2 DEF Sound, Request
  <2>3. /\ o.user \in Users /\ account[o.user] # "none" /\ userLock[o.user] = r
        /\ Cardinality(PasskeysOf(o.user)) <= o.owned
    BY Zenon, <1>4, <2>2 DEF HoldsUser, Exists
  <2>4. o.cred \in Creds
    BY Zenon, <1>4, <2>2 DEF HoldsKey, Path
  <2>5. n \in PasskeyCredential /\ n.id = serial + 1 /\ n.user = o.user
    BY <1>1, <1>3, <2>2, <2>3, <2>4 DEF PasskeyCredential
  <2>6. passkeys' \subseteq PasskeyCredential
    BY Zenon, <1>1, <2>1, <2>5
  <2>7. jar' \in [Browsers -> Jar]
    BY Zenon, <1>1, <2>1 DEF TypeOK, Jar
  <2>8. serial' \in Nat /\ serial' >= serial
    BY <1>1, <2>1
  <2>9. TypeOK'
    BY Zenon, <1>1, <1>4, <2>6, <2>7, <2>8, EndsFrees DEF TypeOK
  <2>10. IsFiniteSet(passkeys) /\ IsFiniteSet(passkeys')
    BY Zenon, <1>1, <2>1, OneMore DEF RowsSound
  <2>11. \A p \in passkeys : p.id \in Nat /\ p.id <= serial /\ p.id \in 1 .. serial'
    BY <1>1, <2>1 DEF RowsSound
  <2>12. \A p \in passkeys' : p.id \in 1 .. serial' /\ account[p.user] # "none"
    <3>1. n.id \in 1 .. serial' /\ account[n.user] # "none"
      BY <1>1, <2>1, <2>3, <2>5
    <3> QED
      BY Zenon, <1>1, <2>1, <2>11, <3>1 DEF RowsSound
  <2>13. \A p, q \in passkeys' : p.id = q.id => p = q
    <3>1. \A p \in passkeys : p.id # n.id
      BY <1>1, <2>5, <2>11
    <3> QED
      BY Zenon, <1>1, <2>1, <3>1 DEF RowsSound
  <2>14. \A s \in sessions : s.id \in 1 .. serial'
    BY <1>1, <2>1 DEF RowsSound
  <2>15. RowsSound'
    BY Zenon, <1>1, <1>4, <2>10, <2>12, <2>13, <2>14 DEF RowsSound
  <2>16. \A v : SessionsOf(v)' = SessionsOf(v) /\ (v # o.user => PasskeysOf(v)' = PasskeysOf(v))
    BY Zenon, <1>4, <2>1, <2>5 DEF SessionsOf, PasskeysOf
  <2>17. Cardinality(PasskeysOf(o.user)') <= MaxPasskeys
    <3>1. PasskeysOf(o.user)' \subseteq PasskeysOf(o.user) \cup {n}
      BY Zenon, <2>1 DEF PasskeysOf
    <3>2. IsFiniteSet(PasskeysOf(o.user))
      BY Zenon, <2>10, PartOf DEF PasskeysOf
    <3>3. /\ Cardinality(PasskeysOf(o.user)') <= Cardinality(PasskeysOf(o.user)) + 1
          /\ Cardinality(PasskeysOf(o.user)') \in Nat /\ Cardinality(PasskeysOf(o.user)) \in Nat
      BY Zenon, <3>1, <3>2, OneMore
    <3>4. MaxPasskeys \in Nat
      BY Zenon, AccessAssumption
    <3> QED
      BY <2>1, <2>2, <2>3, <3>3, <3>4
  <2>18. LimitsKept'
    BY Zenon, <1>1, <1>4, <2>16, <2>17 DEF LimitsKept
  <2>19. \A v \in Users : Cardinality(PasskeysOf(v)) \in Nat
    BY Zenon, <2>10, PartOf DEF PasskeysOf
  <2>20. \A p \in passkeys' : p.id <= serial => p \in passkeys
    BY <1>1, <2>1, <2>5
  <2>21. ASSUME NEW x \in Requests \ {r} PROVE RowsKept(x)
    <3>1. \A u \in Users : userLock[u] = x => u # o.user
      BY Zenon, <2>3
    <3> QED
      BY <1>4, <2>8, <2>16, <2>19, <2>20, <3>1 DEF RowsKept
  <2> QED
    BY Zenon, <1>4, <2>9, <2>15, <2>18, <2>21, EndsWriting
<1> QED
  BY Zenon, <1>5, <1>6

\* A passkey is removed.
LEMMA DeleteRowStep ==
    ASSUME AccessInv, NEW r \in Requests, DeleteRow(r)
    PROVE  AccessInv'
<1>1. TypeOK /\ RowsSound /\ LimitsKept /\ serial \in Nat /\ IsFiniteSet(passkeys)
  BY Zenon DEF AccessInv, TypeOK, RowsSound
<1>2. /\ passkeys' \subseteq passkeys /\ Ends(r)
      /\ UNCHANGED <<account, sessions, challenges, jar, device, clock, serial>>
  BY Zenon DEF DeleteRow
<1>3. TypeOK'
  BY Zenon, <1>1, <1>2, EndsFrees DEF TypeOK
<1>4. IsFiniteSet(passkeys')
  BY Zenon, <1>1, <1>2, PartOf
<1>5. RowsSound'
  BY Zenon, <1>1, <1>2, <1>4 DEF RowsSound
<1>6. \A v : SessionsOf(v)' = SessionsOf(v) /\ PasskeysOf(v)' \subseteq PasskeysOf(v)
  BY Zenon, <1>2 DEF SessionsOf, PasskeysOf
<1>7. \A v : IsFiniteSet(PasskeysOf(v))
  BY Zenon, <1>1, PartOf DEF PasskeysOf
<1>8. \A v : /\ Cardinality(PasskeysOf(v)') <= Cardinality(PasskeysOf(v))
             /\ Cardinality(PasskeysOf(v)') \in Nat /\ Cardinality(PasskeysOf(v)) \in Nat
  BY Zenon, <1>6, <1>7, PartOf
<1>9. \A v \in Users : Cardinality(PasskeysOf(v)') <= MaxPasskeys
  BY <1>1, <1>8, AccessAssumption DEF LimitsKept
<1>10. LimitsKept'
  BY Zenon, <1>1, <1>2, <1>6, <1>9 DEF LimitsKept
<1>11. ASSUME NEW x PROVE RowsKept(x)
  BY <1>1, <1>2, <1>6, <1>8 DEF RowsKept
<1> QED
  BY Zenon, <1>2, <1>3, <1>5, <1>10, <1>11, EndsWriting

-----------------------------------------------------------------------------
(* The inductive invariant.                                                  *)

\* A quiet moment satisfies the invariant.
LEMMA InitSound ==
    ASSUME Init
    PROVE  AccessInv
<1>1. PICK u \in Users, n \in 0 .. MaxSessions, keys \in SUBSET Creds :
         /\ IsFiniteSet(keys) /\ Cardinality(keys) <= MaxPasskeys
         /\ account = [v \in Users |-> IF v = u THEN "active" ELSE "none"]
         /\ sessions = [id : 1 .. n, user : {u}, created : {0}, expires : {SessionAge},
                        method : {"token"}]
         /\ \E row \in [keys -> 1 .. Cardinality(keys)] :
              /\ \A c, d \in keys : row[c] = row[d] => c = d
              /\ passkeys = {[id |-> row[c], cred |-> c, user |-> u, count |-> 0] : c \in keys}
         /\ jar \in [Browsers -> [session : 0 .. n, binding : {0}, legacy : BOOLEAN,
                                  admin : {None}]]
  BY Zenon DEF Init
<1>2. PICK row \in [keys -> 1 .. Cardinality(keys)] :
              /\ \A c, d \in keys : row[c] = row[d] => c = d
              /\ passkeys = {[id |-> row[c], cred |-> c, user |-> u, count |-> 0] : c \in keys}
  BY Zenon, <1>1
<1>3. /\ challenges = {} /\ device = [c \in Creds |-> 0] /\ req = [r \in Requests |-> Idle]
      /\ userLock = [v \in Users |-> None] /\ keyLock = [c \in Creds |-> None]
      /\ clock \in 0 .. MaxClock /\ serial = MaxSessions + MaxPasskeys
  BY Zenon DEF Init
<1>4. /\ MaxSessions \in Nat /\ MaxPasskeys \in Nat /\ MaxPending \in Nat /\ SessionAge \in Nat
      /\ n \in Nat /\ n <= MaxSessions /\ serial \in Nat /\ Cardinality(keys) \in Nat
  BY <1>1, <1>3, AccessAssumption, FS_CardinalityType
<1>5. /\ sessions \subseteq BrowserSession
      /\ \A s \in sessions : s.id \in 1 .. n /\ s.user = u
      /\ \A s, t \in sessions : s.id = t.id => s = t
  BY <1>1, <1>4 DEF BrowserSession
<1>6. IsFiniteSet(sessions) /\ Cardinality(sessions) <= MaxSessions /\ Cardinality(sessions) \in Nat
  <2>1. PICK f : f = [s \in sessions |-> s.id]
    BY Zenon
  <2>2. f \in Injection(sessions, 1 .. n)
    BY Zenon, <1>5, <2>1 DEF Injection, IsInjective
  <2>3. IsFiniteSet(1 .. n) /\ Cardinality(1 .. n) <= n
    <3>1. 1 \in Int /\ n \in Int
      BY <1>4
    <3>2. IsFiniteSet(1 .. n) /\ Cardinality(1 .. n) = IF 1 > n THEN 0 ELSE n - 1 + 1
      BY Zenon, <3>1, FS_Interval
    <3> QED
      BY <1>4, <3>2
  <2>4. IsFiniteSet(sessions) /\ Cardinality(sessions) <= Cardinality(1 .. n)
    BY Zenon, <2>2, <2>3, FS_Injection
  <2>5. Cardinality(sessions) \in Nat /\ Cardinality(1 .. n) \in Nat
    BY Zenon, <2>3, <2>4, FS_CardinalityType
  <2> QED
    BY <1>4, <2>3, <2>4, <2>5
<1>7. /\ passkeys \subseteq PasskeyCredential
      /\ \A p \in passkeys : p.id \in 1 .. MaxPasskeys /\ p.user = u
      /\ \A p, q \in passkeys : p.id = q.id => p = q
  <2>1. \A c \in keys : row[c] \in Nat /\ row[c] \in 1 .. MaxPasskeys /\ c \in Creds
    BY <1>1, <1>4
  <2>2. ASSUME NEW p \in passkeys
        PROVE  /\ p \in PasskeyCredential /\ p.user = u /\ p.cred \in keys
               /\ p = [id |-> row[p.cred], cred |-> p.cred, user |-> u, count |-> 0]
               /\ p.id = row[p.cred] /\ p.id \in 1 .. MaxPasskeys
    <3>1. PICK c \in keys : p = [id |-> row[c], cred |-> c, user |-> u, count |-> 0]
      BY Zenon, <1>2
    <3> QED
      BY Zenon, <2>1, <3>1 DEF PasskeyCredential
  <2>3. ASSUME NEW p \in passkeys, NEW q \in passkeys, p.id = q.id PROVE p = q
    <3>1. p.cred \in keys /\ q.cred \in keys /\ row[p.cred] = row[q.cred]
      BY Zenon, <2>2, <2>3
    <3>2. p.cred = q.cred
      BY Zenon, <1>2, <3>1
    <3> QED
      BY Zenon, <2>2, <3>2
  <2> QED
    BY Zenon, <2>2, <2>3
<1>8. IsFiniteSet(passkeys) /\ Cardinality(passkeys) <= MaxPasskeys /\ Cardinality(passkeys) \in Nat
  <2>1. PICK f : f = [c \in keys |-> [id |-> row[c], cred |-> c, user |-> u, count |-> 0]]
    BY Zenon
  <2>2. f \in Surjection(keys, passkeys)
    BY Zenon, <1>2, <2>1 DEF Surjection
  <2>3. IsFiniteSet(passkeys) /\ Cardinality(passkeys) <= Cardinality(keys)
    BY Zenon, <1>1, <2>2, FS_Surjection
  <2>4. Cardinality(passkeys) \in Nat
    BY Zenon, <2>3, FS_CardinalityType
  <2> QED
    BY <1>1, <1>4, <2>3, <2>4
<1>9. IsFiniteSet(challenges) /\ Cardinality(challenges) <= MaxPending
  BY <1>3, <1>4, FS_EmptySet
<1>10. jar \in [Browsers -> Jar]
  <2>1. [session : 0 .. n, binding : {0}, legacy : BOOLEAN, admin : {None}] \subseteq Jar
    BY <1>4 DEF Jar
  <2> QED
    BY Zenon, <1>1, <2>1
<1>11. TypeOK
  BY Zenon, <1>1, <1>3, <1>4, <1>5, <1>7, <1>10 DEF TypeOK
<1>12. RowsSound
  BY <1>1, <1>3, <1>4, <1>5, <1>6, <1>7, <1>8, <1>9 DEF RowsSound
<1>13. ASSUME NEW v \in Users
       PROVE  Cardinality(SessionsOf(v)) <= MaxSessions /\ Cardinality(PasskeysOf(v)) <= MaxPasskeys
  <2>1. SessionsOf(v) \subseteq sessions /\ PasskeysOf(v) \subseteq passkeys
    BY Zenon DEF SessionsOf, PasskeysOf
  <2>2. Cardinality(SessionsOf(v)) <= Cardinality(sessions) /\ Cardinality(SessionsOf(v)) \in Nat
    BY Zenon, <1>6, <2>1, PartOf
  <2>3. Cardinality(PasskeysOf(v)) <= Cardinality(passkeys) /\ Cardinality(PasskeysOf(v)) \in Nat
    BY Zenon, <1>8, <2>1, PartOf
  <2> QED
    BY <1>4, <1>6, <1>8, <2>2, <2>3
<1>14. LimitsKept
  BY Zenon, <1>9, <1>13 DEF LimitsKept
<1>15. req \in [Requests -> Request] /\ \A r \in Requests : req[r] = Idle
  BY Zenon, <1>3, IdleFits
<1>16. ASSUME NEW r \in Requests PROVE Sound(r)
  BY <1>15 DEF Sound, Idle, Path, HoldsUser, HoldsKey
<1> QED
  BY Zenon, <1>11, <1>12, <1>14, <1>15, <1>16 DEF AccessInv

\* Every step of the system keeps the invariant.
LEMMA NextSound ==
    ASSUME AccessInv, [Next]_vars
    PROVE  AccessInv'
<1>1. ASSUME NEW r \in Requests, Step(r) PROVE AccessInv'
  BY Zenon, <1>1, LockUserStep, IssueStep, StoreChallengeStep, ConsumeStep, CheckExistingStep,
     StorePasskeyStep, LockKeyStep, VerifyStep, DeleteRowStep DEF Step
<1>2. ASSUME NEW r \in Requests, NEW b \in Browsers, Arrives(r, b) PROVE AccessInv'
  BY Zenon, <1>2, TokenLoginStep, SignupStep, OptionsStep, RegisterStep, AuthenticateStep,
     DeletePasskeyStep DEF Arrives, ExchangeToken, Login, Dashboard
<1>3. ASSUME NEW u \in Users, SuspendAccount(u) \/ UnsuspendAccount(u) PROVE AccessInv'
  BY Zenon, <1>3, SuspensionStep DEF SuspendAccount, UnsuspendAccount
<1>4. ASSUME NEW b \in Browsers, NEW u \in Users,
             AdminSuspendAccount(b, u) \/ AdminRestoreAccount(b, u)
      PROVE  AccessInv'
  BY Zenon, <1>4, SuspensionStep DEF AdminSuspendAccount, AdminRestoreAccount
<1>5. ASSUME UNCHANGED vars PROVE AccessInv'
  <2>1. UNCHANGED <<rows, jar, device, req, locks, clock, serial>>
    BY Zenon, <1>5 DEF vars, rows, locks
  <2>2. TypeOK' /\ RowsSound' /\ LimitsKept'
    BY Zenon, <2>1, SameTypes DEF AccessInv, RowsSound, LimitsKept, SessionsOf, PasskeysOf, rows
  <2>3. \A x : RowsKept(x)
    BY Zenon, <2>1, RowsSame DEF rows
  <2> QED
    BY Zenon, <2>1, <2>2, <2>3, OutsideStep
<1> QED
  BY Zenon, <1>1, <1>2, <1>3, <1>4, <1>5, BrowserStep, TickStep, CrashStep DEF Next

\* The invariant implies the limits, of which it counts also the expired challenges.
LEMMA LimitsFollow ==
    ASSUME AccessInv
    PROVE  LimitsHold
<1>1. LimitsKept /\ IsFiniteSet(challenges)
  BY Zenon DEF AccessInv, RowsSound
<1>2. {c \in challenges : c.expires > clock} \subseteq challenges
  BY Zenon
<1>3. /\ Cardinality({c \in challenges : c.expires > clock}) <= Cardinality(challenges)
      /\ Cardinality({c \in challenges : c.expires > clock}) \in Nat
      /\ Cardinality(challenges) \in Nat
  BY Zenon, <1>1, <1>2, PartOf
<1>4. Cardinality(challenges) <= MaxPending /\ MaxPending \in Nat
  BY Zenon, <1>1, AccessAssumption DEF LimitsKept
<1>5. Cardinality({c \in challenges : c.expires > clock}) <= MaxPending
  BY <1>3, <1>4
<1> QED
  BY Zenon, <1>1, <1>5 DEF LimitsHold, LimitsKept, SessionsOf, PasskeysOf

\* However many sign-ins and registrations run at once, an account stays within its
\* number of sessions and passkeys, and the service within its pending challenges
\* (browser_sessions.py:116-134, passkeys.py:403-419 and 179-202).
THEOREM LimitsAlwaysHold == Spec => []LimitsHold
<1>1. AccessInv /\ [Next]_vars => AccessInv'
  BY Zenon, NextSound
<1> QED
  BY <1>1, InitSound, LimitsFollow, PTL DEF Spec

-----------------------------------------------------------------------------
(* What a step may not do.                                                   *)

\* All steps but three leave the sessions and the passkeys or only take some away.
LEMMA OtherSteps ==
    ASSUME AccessInv, Next, ~ \E r \in Requests : IssueSession(r) \/ StorePasskey(r),
           ~ \E r \in Requests, b \in Browsers : Signup(r, b)
    PROVE  /\ sessions' \subseteq sessions /\ passkeys' \subseteq passkeys
           /\ sessions' # sessions => UNCHANGED req
<1>1. ASSUME NEW r \in Requests, Step(r) \/ Crash(r)
      PROVE  sessions' = sessions /\ passkeys' \subseteq passkeys
  BY Zenon, <1>1 DEF Step, Crash, LockUser, StoreChallenge, ConsumeRegistration,
     ConsumeAuthentication, Consume, CheckExisting, LockKey, VerifyAssertion, DeleteRow, rows
<1>2. ASSUME NEW r \in Requests, NEW b \in Browsers, Arrives(r, b)
      PROVE  sessions' = sessions /\ passkeys' = passkeys
  BY Zenon, <1>2 DEF Arrives, ExchangeToken, Login, Dashboard, TokenLogin, RegistrationOptions,
     AuthenticationOptions, RegisterPasskey, AuthenticatePasskey, DeletePasskey, rows
<1>3. ASSUME NEW b \in Browsers, Logout(b) \/ DropExpired(b) \/ AdminLogin(b) \/ AdminLogout(b)
      PROVE  sessions' \subseteq sessions /\ passkeys' = passkeys /\ UNCHANGED req
  BY Zenon, <1>3 DEF Logout, DropExpired, AdminLogin, AdminLogout, Revoked, rows
<1>4. ASSUME NEW u \in Users, NEW status, SetSuspension(u, status)
      PROVE  sessions' = sessions /\ passkeys' = passkeys
  BY Zenon, <1>4 DEF SetSuspension
<1>5. ASSUME NEW b \in Browsers, NEW u \in Users,
             \/ SuspendAccount(u) \/ UnsuspendAccount(u)
             \/ AdminSuspendAccount(b, u) \/ AdminRestoreAccount(b, u)
      PROVE  sessions' = sessions /\ passkeys' = passkeys
  BY Zenon, <1>4, <1>5 DEF SuspendAccount, UnsuspendAccount, AdminSuspendAccount,
     AdminRestoreAccount
<1>6. ASSUME NEW u \in Users, SuspendAccount(u) \/ UnsuspendAccount(u)
      PROVE  sessions' = sessions /\ passkeys' = passkeys
  BY Zenon, <1>4, <1>6 DEF SuspendAccount, UnsuspendAccount
<1>7. ASSUME Tick PROVE sessions' = sessions /\ passkeys' = passkeys
  BY Zenon, <1>7 DEF Tick, rows
<1> QED
  BY Zenon, <1>1, <1>2, <1>3, <1>5, <1>6, <1>7 DEF Next

\* What the commit of a sign-in knows of its request: the rows it locked are as it read
\* them, and for a passkey the account is active and the counter has advanced.
LEMMA IssueKnows ==
    ASSUME AccessInv, NEW r \in Requests, IssueSession(r)
    PROVE  /\ req[r].op \in {"issue", "verify"} /\ req[r].count \in Nat /\ req[r].seen \in Nat
           /\ sessions' \subseteq sessions \cup
                {NewSession(req[r].user, req[r].now,
                            IF req[r].op = "issue" THEN "token" ELSE "passkey", serial + 1)}
           /\ \A p \in passkeys : p.id = req[r].row =>
                /\ req[r].op = "verify" /\ p.cred = req[r].cred /\ p.user = req[r].user
                /\ p.count = req[r].seen
           /\ req[r].op = "verify" => /\ account[req[r].user] = "active"
                                      /\ CounterAccepted(req[r].count, req[r].seen)
                                      /\ req[r].cred \in Counting => req[r].count > 0
<1>1. Sound(r) /\ req \in [Requests -> Request] /\ RowsSound
  BY Zenon DEF AccessInv
<1>2. PICK o \in Request : o = req[r]
  BY Zenon, <1>1
<1>3. /\ o.pc = "issue"
      /\ sessions' = Issued(o.user, o.now, IF o.op = "issue" THEN "token" ELSE "passkey",
                            o.drop, serial + 1)
  BY Zenon, <1>2 DEF IssueSession
<1>4. /\ o.pc \in Path(o.op) /\ o.op \in {"none", "issue", "store", "verify"}
      /\ HoldsUser(r, o) /\ HoldsKey(r, o) /\ o.count \in Nat /\ o.seen \in Nat
  BY Zenon, <1>1, <1>2 DEF Sound, Request
<1>5. o.op \in {"issue", "verify"}
  BY Zenon, <1>3, <1>4 DEF Path
<1>6. sessions' \subseteq sessions \cup
        {NewSession(o.user, o.now, IF o.op = "issue" THEN "token" ELSE "passkey", serial + 1)}
  BY Zenon, <1>3 DEF Issued, NewSession
<1>7. ASSUME NEW p \in passkeys, p.id = o.row
      PROVE  o.op = "verify" /\ p.cred = o.cred /\ p.user = o.user /\ p.count = o.seen
  <2>1. p.id # 0
    BY <1>1 DEF RowsSound
  <2>2. o.op = "verify"
    BY Zenon, <1>4, <1>5, <1>7, <2>1 DEF HoldsKey
  <2> QED
    BY Zenon, <1>3, <1>4, <1>7, <2>2 DEF HoldsKey
<1>8. o.op = "verify" => /\ account[o.user] = "active" /\ CounterAccepted(o.count, o.seen)
                         /\ o.cred \in Counting => o.count > 0
  BY Zenon, <1>3, <1>4 DEF HoldsUser, HoldsKey, Active
<1> QED
  BY Zenon, <1>2, <1>4, <1>5, <1>6, <1>7, <1>8

\* The two commits that grant something do so to an active account.
LEMMA GrantStep ==
    ASSUME AccessInv, Next
    PROVE  /\ \A p \in passkeys' \ passkeys : account[p.user] = "active"
           /\ \A s \in sessions' \ sessions : s.method = "passkey" => account[s.user] = "active"
<1>1. ASSUME NEW r \in Requests, IssueSession(r)
      PROVE  /\ \A p \in passkeys' \ passkeys : account[p.user] = "active"
             /\ \A s \in sessions' \ sessions : s.method = "passkey" => account[s.user] = "active"
  <2>1. PICK o : o = req[r]
    BY Zenon
  <2>2. passkeys' = {IF p.id = o.row THEN [p EXCEPT !.count = o.count] ELSE p : p \in passkeys}
    BY Zenon, <1>1, <2>1 DEF IssueSession
  <2>3. /\ o.op \in {"issue", "verify"}
        /\ sessions' \subseteq sessions \cup
             {NewSession(o.user, o.now, IF o.op = "issue" THEN "token" ELSE "passkey", serial + 1)}
        /\ \A p \in passkeys : p.id = o.row => o.op = "verify" /\ p.user = o.user
        /\ o.op = "verify" => account[o.user] = "active"
    BY Zenon, <1>1, <2>1, IssueKnows
  <2>4. ASSUME NEW p \in passkeys' \ passkeys PROVE account[p.user] = "active"
    <3>1. PICK w \in passkeys : p = IF w.id = o.row THEN [w EXCEPT !.count = o.count] ELSE w
      BY Zenon, <2>2
    <3>2. w.id = o.row /\ p = [w EXCEPT !.count = o.count]
      BY Zenon, <2>4, <3>1
    <3>3. p.user = w.user
      BY Zenon, <3>2 DEF AccessInv, TypeOK, PasskeyCredential
    <3> QED
      BY Zenon, <2>3, <3>2, <3>3
  <2>5. ASSUME NEW s \in sessions' \ sessions, s.method = "passkey"
        PROVE  account[s.user] = "active"
    <3>1. s = NewSession(o.user, o.now, IF o.op = "issue" THEN "token" ELSE "passkey", serial + 1)
      BY Zenon, <2>3, <2>5
    <3>2. s.user = o.user /\ s.method = IF o.op = "issue" THEN "token" ELSE "passkey"
      BY Zenon, <3>1 DEF NewSession
    <3> QED
      BY Zenon, <2>3, <2>5, <3>2
  <2> QED
    BY Zenon, <2>4, <2>5
<1>2. ASSUME NEW r \in Requests, StorePasskey(r)
      PROVE  /\ \A p \in passkeys' \ passkeys : account[p.user] = "active"
             /\ \A s \in sessions' \ sessions : s.method = "passkey" => account[s.user] = "active"
  <2>1. PICK o \in Request : o = req[r]
    BY Zenon DEF AccessInv
  <2>2. PICK n : n = [id |-> serial + 1, cred |-> o.cred, user |-> o.user, count |-> o.count]
    BY Zenon
  <2>3. o.pc = "store" /\ sessions' = sessions /\ passkeys' \subseteq passkeys \cup {n}
    BY Zenon, <1>2, <2>1, <2>2 DEF StorePasskey
  <2>4. account[o.user] = "active"
    <3>1. o.pc \in Path(o.op) /\ HoldsUser(r, o) /\ o.op \in {"none", "issue", "store", "verify"}
      BY Zenon, <2>1 DEF AccessInv, Sound, Request
    <3> QED
      BY Zenon, <2>3, <3>1 DEF Path, HoldsUser, Active
  <2>5. n.user = o.user
    BY Zenon, <2>2
  <2> QED
    BY Zenon, <2>3, <2>4, <2>5
<1>3. ASSUME NEW r \in Requests, NEW b \in Browsers, Signup(r, b)
      PROVE  /\ \A p \in passkeys' \ passkeys : account[p.user] = "active"
             /\ \A s \in sessions' \ sessions : s.method = "passkey" => account[s.user] = "active"
  <2>1. /\ passkeys' = passkeys
        /\ sessions' \subseteq sessions \cup {NewSession(Holder[b], clock, "token", serial + 1)}
    BY Zenon, <1>3 DEF Signup, Issued, NewSession
  <2>2. NewSession(Holder[b], clock, "token", serial + 1).method = "token"
    BY Zenon DEF NewSession
  <2> QED
    BY Zenon, <2>1, <2>2
<1>4. CASE /\ ~ \E r \in Requests : IssueSession(r) \/ StorePasskey(r)
           /\ ~ \E r \in Requests, b \in Browsers : Signup(r, b)
  BY Zenon, <1>4, OtherSteps
<1> QED
  BY Zenon, <1>1, <1>2, <1>3, <1>4

\* Whatever happened since a request was authenticated, a passkey or a session signed in
\* with one is committed only for an account that is active at that instant
\* (passkeys.py:403-410 and 526-533).
THEOREM GrantsAreToActive == Spec => GrantsNeedActiveAccount
<1>1. AccessInv /\ [Next]_vars => AccessInv'
  BY Zenon, NextSound
<1>2. AccessInv /\ [Next]_vars =>
        [/\ \A p \in passkeys' \ passkeys : account[p.user] = "active"
         /\ \A s \in sessions' \ sessions :
              s.method = "passkey" => account[s.user] = "active"]_vars
  BY Zenon, GrantStep
<1> QED
  BY <1>1, <1>2, InitSound, PTL DEF Spec, GrantsNeedActiveAccount

\* What the commits do to the stored counters.
LEMMA CounterStep ==
    ASSUME AccessInv, Next, NEW p \in passkeys, NEW q \in passkeys', p.id = q.id
    PROVE  /\ q.count >= p.count
           /\ p.cred \in Counting /\ sessions' # sessions
                /\ (\E r \in Requests : req[r].pc = "issue" /\ req[r].row = p.id
                                          /\ req'[r].pc = "idle")
                => q.count > p.count
<1>1. /\ \A v, w \in passkeys : v.id = w.id => v = w
      /\ p.id \in Nat /\ p.id <= serial /\ serial \in Nat /\ p.count \in Nat
      /\ req \in [Requests -> Request]
  BY DEF AccessInv, TypeOK, RowsSound, PasskeyCredential
<1>2. ASSUME NEW r \in Requests, IssueSession(r)
      PROVE  /\ q.count >= p.count
             /\ p.cred \in Counting /\ (\E x \in Requests : /\ req[x].pc = "issue"
                                          /\ req[x].row = p.id /\ req'[x].pc = "idle")
                  => q.count > p.count
  <2>1. PICK o : o = req[r]
    BY Zenon
  <2>2. /\ passkeys' = {IF v.id = o.row THEN [v EXCEPT !.count = o.count] ELSE v : v \in passkeys}
        /\ req' = [req EXCEPT ![r] = Idle]
    BY Zenon, <1>2, <2>1 DEF IssueSession, Ends
  <2>3. /\ o.count \in Nat /\ o.seen \in Nat
        /\ \A v \in passkeys : v.id = o.row => o.op = "verify" /\ v.cred = o.cred /\ v.count = o.seen
        /\ o.op = "verify" => /\ CounterAccepted(o.count, o.seen)
                              /\ o.cred \in Counting => o.count > 0
    BY Zenon, <1>2, <2>1, IssueKnows
  <2>4. PICK w \in passkeys : q = IF w.id = o.row THEN [w EXCEPT !.count = o.count] ELSE w
    BY Zenon, <2>2
  <2>5. w \in PasskeyCredential
    BY Zenon DEF AccessInv, TypeOK
  <2>6. q.id = w.id /\ q.count = IF w.id = o.row THEN o.count ELSE w.count
    BY Zenon, <2>4, <2>5 DEF PasskeyCredential
  <2>7. w = p
    BY Zenon, <1>1, <2>6
  <2>8. CASE p.id # o.row
    <3>1. q.count = p.count
      BY Zenon, <2>6, <2>7, <2>8
    <3>2. \A x \in Requests : req[x].pc = "issue" /\ req'[x].pc = "idle" => x = r
      BY Zenon, <1>1, <2>2
    <3> QED
      BY <1>1, <2>1, <2>8, <3>1, <3>2
  <2>9. CASE p.id = o.row
    <3>1. /\ q.count = o.count /\ p.count = o.seen /\ p.cred = o.cred
          /\ CounterAccepted(o.count, o.seen) /\ (o.cred \in Counting => o.count > 0)
      BY Zenon, <2>3, <2>6, <2>7, <2>9
    <3> QED
      BY <2>3, <3>1 DEF CounterAccepted
  <2> QED
    BY Zenon, <2>8, <2>9
<1>3. CASE ~ \E r \in Requests : IssueSession(r)
  <2>1. q = p /\ (sessions' # sessions => UNCHANGED req)
    <3>1. ASSUME NEW r \in Requests, StorePasskey(r)
          PROVE  q = p /\ sessions' = sessions
      <4>1. PICK o : o = req[r]
        BY Zenon
      <4>2. PICK n : n = [id |-> serial + 1, cred |-> o.cred, user |-> o.user, count |-> o.count]
        BY Zenon
      <4>3. sessions' = sessions /\ passkeys' \subseteq passkeys \cup {n}
        BY Zenon, <3>1, <4>1, <4>2 DEF StorePasskey
      <4>4. q # n
        BY <1>1, <4>2
      <4> QED
        BY Zenon, <1>1, <4>3, <4>4
    <3>2. ASSUME NEW r \in Requests, NEW b \in Browsers, Signup(r, b)
          PROVE  q = p /\ UNCHANGED req
      BY Zenon, <1>1, <3>2 DEF Signup
    <3>3. CASE /\ ~ \E r \in Requests : StorePasskey(r)
               /\ ~ \E r \in Requests, b \in Browsers : Signup(r, b)
      BY Zenon, <1>1, <1>3, <3>3, OtherSteps
    <3> QED
      BY Zenon, <3>1, <3>2, <3>3
  <2> QED
    BY <1>1, <2>1
<1> QED
  BY Zenon, <1>2, <1>3

\* The stored counter of a passkey never moves back, and where the authenticator counts
\* every session signed in with it took a new signature, however the assertions of one
\* credential overtake each other (passkeys.py:518-559).
THEOREM CountersAdvance == Spec => CounterAdvances
<1>1. AccessInv /\ [Next]_vars => AccessInv'
  BY Zenon, NextSound
<1>2. AccessInv /\ [Next]_vars =>
        [\A p \in passkeys, q \in passkeys' : p.id = q.id =>
           /\ q.count >= p.count
           /\ p.cred \in Counting /\ sessions' # sessions
                /\ (\E r \in Requests : req[r].pc = "issue" /\ req[r].row = p.id
                                          /\ req'[r].pc = "idle")
                => q.count > p.count]_vars
  BY Zenon, CounterStep
<1> QED
  BY <1>1, <1>2, InitSound, PTL DEF Spec, CounterAdvances
=============================================================================
