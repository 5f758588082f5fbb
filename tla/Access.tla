------------------------------- MODULE Access -------------------------------
(***************************************************************************)
(* Browser sign-in: opaque browser sessions (services/browser_sessions.py),*)
(* passkeys and their WebAuthn challenges (api/passkeys.py), the bearer    *)
(* and session dependencies (core/auth.py), the login pages (api/pages.py) *)
(* and account suspension.                                                 *)
(*                                                                         *)
(* A request is a thread of one replica with its own database transaction. *)
(* It is cut where the code commits, where it waits for a row lock and     *)
(* where it reads the clock before doing either, so two requests of one    *)
(* browser, a suspension and a crash interleave as they can in production. *)
(* Tokens, bindings and challenges are random values that nothing guesses: *)
(* a number drawn once stands for each.  Activity timestamps, names,       *)
(* transports and the rendered pages are left out.                         *)
(***************************************************************************)
EXTENDS Integers, FiniteSets

CONSTANTS
    Users,          \* customer accounts
    Browsers,       \* cookie jars
    Holder,         \* Holder[b]: the account whose bearer token b's user holds
    Creds,          \* authenticator credentials
    Counting,       \* the credentials whose authenticator counts signatures
    Requests,       \* requests that may be in flight at once
    None,
    MaxSessions,    \* BROWSER_SESSION_MAX_PER_USER
    MaxPasskeys,    \* PASSKEY_MAX_CREDENTIALS_PER_USER
    MaxPending,     \* PASSKEY_MAX_PENDING_CHALLENGES
    SessionAge,     \* BROWSER_SESSION_MAX_AGE_SECONDS, in ticks
    ChallengeAge,   \* PASSKEY_CHALLENGE_TTL_SECONDS, in ticks
    AdminAge,       \* ADMIN_SESSION_MAX_AGE_SECONDS, in ticks
    MaxClock,       \* bound: ticks of the clock
    MaxRequests,    \* bound: requests and other events ever started
    MaxCrashes      \* bound: replicas lost while they serve a request

ASSUME AccessAssumption ==
    /\ Holder \in [Browsers -> Users] /\ Counting \subseteq Creds
    /\ None \notin Users \cup Creds \cup Requests
    /\ {MaxSessions, MaxPasskeys, MaxPending} \subseteq Nat \ {0}
    /\ {SessionAge, ChallengeAge, AdminAge} \subseteq Nat \ {0}
    /\ {MaxClock, MaxRequests, MaxCrashes} \subseteq Nat

VARIABLES
    account,     \* User rows: "none", "active" or "suspended"
    sessions,    \* BrowserSession rows
    passkeys,    \* PasskeyCredential rows
    challenges,  \* WebAuthnChallenge rows
    jar,         \* each browser's cookies
    device,      \* each authenticator's signature counter
    req,         \* the requests
    userLock,    \* the request that holds a User row FOR UPDATE
    keyLock,     \* the request that holds a PasskeyCredential row FOR UPDATE
    clock,
    serial,      \* the last random value drawn
    started,     \* requests started
    crashes      \* crashes still to come

vars == <<account, sessions, passkeys, challenges, jar, device, req, userLock,
          keyLock, clock, serial, started, crashes>>

rows == <<account, sessions, passkeys, challenges>>
locks == <<userLock, keyLock>>

(***************************************************************************)
(* The rows.                                                               *)
(***************************************************************************)
BrowserSession == [id : Nat, user : Users, created : Nat, expires : Nat,
                   method : {"token", "passkey"}]

PasskeyCredential == [id : Nat, cred : Creds, user : Users, count : Nat]

WebAuthnChallenge == [id : Nat, kind : {"registration", "authentication"},
                      user : Users \cup {None}, binding : Nat, expires : Nat]

Idle == [pc |-> "idle", op |-> "none", b |-> None, user |-> None, cred |-> None,
         chal |-> 0, now |-> 0, count |-> 0, seen |-> 0, row |-> 0,
         drop |-> {}, owned |-> 0]

Jar == [session : Nat, binding : Nat, legacy : BOOLEAN, admin : Nat \cup {None}]

TypeOK ==
    /\ account \in [Users -> {"none", "active", "suspended"}]
    /\ sessions \subseteq BrowserSession
    /\ passkeys \subseteq PasskeyCredential
    /\ challenges \subseteq WebAuthnChallenge
    /\ jar \in [Browsers -> Jar]
    /\ device \in [Creds -> Nat]
    /\ userLock \in [Users -> Requests \cup {None}]
    /\ keyLock \in [Creds -> Requests \cup {None}]
    /\ clock \in 0 .. MaxClock /\ serial \in Nat

(***************************************************************************)
(* Helpers.                                                                *)
(***************************************************************************)
Active(u) == account[u] = "active"

\* resolve_browser_session: the account behind the session cookie of b
SessionUsers(b) == {s.user : s \in {s \in sessions : /\ s.id = jar[b].session
                                                     /\ s.expires > clock
                                                     /\ Active(s.user)}}

\* current_user: the bearer token, or else the session cookie with its CSRF pair
Authenticated(b, u) == \/ u = Holder[b] /\ Active(u)
                       \/ u \in SessionUsers(b)

\* current_admin or validate_admin_browser_session
AdminSession(b) == jar[b].admin # None /\ clock <= jar[b].admin + AdminAge

Before(s, t) == s.created < t.created \/ (s.created = t.created /\ s.id < t.id)

Oldest(S, n) == {s \in S : Cardinality({t \in S : Before(t, s)}) < n}

\* issue_browser_session, once it holds the User row: the sessions it will delete, those
\* that expired and the oldest that leave no room for one more
Discarded(u, now) ==
    LET own == {s \in sessions : s.user = u}
        existing == {s \in own : s.expires > now}
        overflow == Cardinality(existing) - MaxSessions + 1
    IN {s.id : s \in (own \ existing) \cup Oldest(existing, overflow)}

\* ... and its commit
Issued(u, now, method, discarded, id) ==
    {s \in sessions : s.id \notin discarded}
      \cup {[id |-> id, user |-> u, created |-> now, expires |-> now + SessionAge,
             method |-> method]}

\* set_browser_session_cookies
SignedIn(b, id) == [jar EXCEPT ![b].session = id, ![b].legacy = FALSE]

Counted == started < MaxRequests /\ started' = started + 1

Starts(r) == req[r].pc = "idle" /\ Counted

Goes(r, pc) == req' = [req EXCEPT ![r].pc = pc]

\* mutant: a request that ends keeps the passkey row locked
EndsHolding(r) ==
    /\ req' = [req EXCEPT ![r] = Idle]
    /\ userLock' = [u \in Users |-> IF userLock[u] = r THEN None ELSE userLock[u]]
    /\ UNCHANGED keyLock

\* the request answers and its transaction ends, which frees the rows it locked
Ends(r) ==
    /\ req' = [req EXCEPT ![r] = Idle]
    /\ userLock' = [u \in Users |-> IF userLock[u] = r THEN None ELSE userLock[u]]
    /\ keyLock' = [c \in Creds |-> IF keyLock[c] = r THEN None ELSE keyLock[c]]

Draws == serial' = serial + 1

(***************************************************************************)
(* Signing in with the bearer token.  The account is looked up, the clock  *)
(* is read, and only then is the User row locked and checked again.        *)
(***************************************************************************)
TokenLogin(r, b) ==
    /\ Starts(r) /\ Active(Holder[b])
    /\ req' = [req EXCEPT ![r] = [Idle EXCEPT !.pc = "user", !.op = "issue", !.b = b,
                                              !.user = Holder[b], !.now = clock]]
    /\ UNCHANGED <<rows, jar, device, locks, clock, serial, crashes>>

\* POST /browser-session/token
ExchangeToken(r, b) == TokenLogin(r, b)

\* POST /login, after the form's CSRF pair and the direct rate limit
Login(r, b) == TokenLogin(r, b)

\* GET /dashboard with the retired token cookie and no session that resolves
Dashboard(r, b) == jar[b].legacy /\ SessionUsers(b) = {} /\ TokenLogin(r, b)

\* POST /signup inserts the account and its first session in one transaction
Signup(r, b) ==
    LET u == Holder[b]
    IN /\ Starts(r) /\ account[u] = "none" /\ Draws
       /\ account' = [account EXCEPT ![u] = "active"]
       /\ sessions' = Issued(u, clock, "token", {}, serial + 1)
       /\ jar' = SignedIn(b, serial + 1)
       /\ UNCHANGED <<passkeys, challenges, device, req, locks, clock, crashes>>

\* mutant: the locked row is not checked for a suspension
LockUserUnchecked(r) ==
    LET q == req[r]
        owned == {p \in passkeys : p.user = q.user}
    IN /\ q.pc = "user" /\ userLock[q.user] = None
       /\ userLock' = [userLock EXCEPT ![q.user] = r]
       /\ req' = [req EXCEPT ![r].pc = q.op,
            ![r].drop = IF q.op = "issue" THEN Discarded(q.user, q.now) ELSE {},
            ![r].owned = IF q.op = "store" THEN Cardinality(owned) ELSE 0]
       /\ UNCHANGED <<rows, jar, device, keyLock, clock, serial, started, crashes>>

\* mutant: the row is read without FOR UPDATE
LockUserUnlocked(r) ==
    LET q == req[r]
        owned == {p \in passkeys : p.user = q.user}
    IN /\ q.pc = "user"
       /\ \/ /\ Active(q.user)
             /\ req' = [req EXCEPT ![r].pc = q.op,
                  ![r].drop = IF q.op = "issue" THEN Discarded(q.user, q.now) ELSE {},
                  ![r].owned = IF q.op = "store" THEN Cardinality(owned) ELSE 0]
             /\ UNCHANGED locks
          \/ ~Active(q.user) /\ Ends(r)
       /\ UNCHANGED <<rows, jar, device, clock, serial, started, crashes>>

\* SELECT ... FOR UPDATE on the User row; under the lock the request reads what it will
\* count against a limit.  The passkey handlers load the row afresh and refuse a suspended
\* account; a token sign-in checks the copy its lookup left in the ORM session, which was
\* active.
LockUser(r) ==
    LET q == req[r]
        owned == {p \in passkeys : p.user = q.user}
    IN /\ q.pc = "user" /\ userLock[q.user] = None
       /\ \/ /\ q.op = "issue" \/ Active(q.user)
             /\ userLock' = [userLock EXCEPT ![q.user] = r]
             /\ req' = [req EXCEPT ![r].pc = q.op,
                  ![r].drop = IF q.op = "issue" THEN Discarded(q.user, q.now) ELSE {},
                  ![r].owned = IF q.op = "store" THEN Cardinality(owned) ELSE 0]
             /\ UNCHANGED keyLock
          \/ q.op # "issue" /\ ~Active(q.user) /\ Ends(r)
       /\ UNCHANGED <<rows, jar, device, clock, serial, started, crashes>>

\* the commit of a sign-in; a passkey's new counter is part of it
IssueSession(r) ==
    LET q == req[r]
    IN /\ q.pc = "issue" /\ Draws
       /\ sessions' = Issued(q.user, q.now, IF q.op = "issue" THEN "token" ELSE "passkey",
                             q.drop, serial + 1)
       /\ passkeys' = {IF p.id = q.row THEN [p EXCEPT !.count = q.count] ELSE p :
                       p \in passkeys}
       /\ jar' = IF q.op = "issue" THEN SignedIn(q.b, serial + 1)
                 ELSE [SignedIn(q.b, serial + 1) EXCEPT ![q.b].binding = 0]
       /\ Ends(r)
       /\ UNCHANGED <<account, challenges, device, clock, started, crashes>>

(***************************************************************************)
(* Challenges.  Both option endpoints take the advisory capacity lock, so  *)
(* deleting, counting and inserting is one step; the clock they use was    *)
(* read before it.  A refused request rolls its deletions back.            *)
(***************************************************************************)
RegistrationOptions(r, b) ==
    /\ Starts(r)
    /\ \E u \in Users :
         /\ Authenticated(b, u)
         /\ req' = [req EXCEPT ![r] = [Idle EXCEPT !.pc = "registration", !.b = b,
                                                   !.user = u, !.now = clock]]
    /\ UNCHANGED <<rows, jar, device, locks, clock, serial, crashes>>

AuthenticationOptions(r, b) ==
    /\ Starts(r)
    /\ req' = [req EXCEPT ![r] = [Idle EXCEPT !.pc = "authentication", !.b = b, !.now = clock]]
    /\ UNCHANGED <<rows, jar, device, locks, clock, serial, crashes>>

\* the rows left when the expired and the superseded ones are deleted
Remaining(kind, u, now) ==
    {c \in challenges : /\ c.expires > now
                        /\ ~(kind = "registration" /\ c.kind = kind /\ c.user = u)}

StoreChallenge(r) ==
    LET q == req[r]
        kept == Remaining(q.pc, q.user, q.now)
    IN /\ q.pc \in {"registration", "authentication"}
       /\ \/ /\ Cardinality(kept) < MaxPending /\ Draws
             /\ challenges' = kept \cup
                  {[id |-> serial + 1, kind |-> q.pc, user |-> q.user,
                    binding |-> serial + 1, expires |-> q.now + ChallengeAge]}
             /\ jar' = [jar EXCEPT ![q.b].binding = serial + 1]
          \/ /\ Cardinality(kept) >= MaxPending
             /\ UNCHANGED <<challenges, serial, jar>>
       /\ Ends(r)
       /\ UNCHANGED <<account, sessions, passkeys, device, clock, started, crashes>>

\* _consume_challenge: one DELETE ... RETURNING, committed before verification
Consumed(q, kind, u) ==
    {c \in challenges : /\ c.id = q.chal /\ c.kind = kind /\ c.user = u
                        /\ c.binding = jar[q.b].binding /\ c.expires > clock}

Consume(r, kind, u, next) ==
    LET taken == Consumed(req[r], kind, u)
    IN /\ challenges' = challenges \ taken
       /\ IF taken = {} THEN Ends(r) ELSE Goes(r, next) /\ UNCHANGED locks
       /\ UNCHANGED <<account, sessions, passkeys, jar, device, clock, serial, started,
                      crashes>>

(***************************************************************************)
(* Registering a passkey.                                                  *)
(***************************************************************************)
RegisterPasskey(r, b) ==
    /\ Starts(r)
    /\ \E u \in Users, c \in Creds, ch \in {d.id : d \in challenges} :
         /\ Authenticated(b, u)
         /\ req' = [req EXCEPT ![r] = [Idle EXCEPT
                      !.pc = "consume", !.op = "store", !.b = b, !.user = u, !.cred = c,
                      !.chal = ch, !.count = device[c]]]
    /\ UNCHANGED <<rows, jar, device, locks, clock, serial, crashes>>

ConsumeRegistration(r) ==
    /\ req[r].pc = "consume" /\ req[r].op = "store"
    /\ Consume(r, "registration", req[r].user, "existing")

\* an authenticator's answer may fail verification; a credential that is already
\* stored is locked, found and refused
CheckExisting(r) ==
    /\ req[r].pc = "existing"
    /\ \/ Ends(r)
       \/ /\ \A p \in passkeys : p.cred # req[r].cred
          /\ Goes(r, "user") /\ UNCHANGED locks
    /\ UNCHANGED <<rows, jar, device, clock, serial, started, crashes>>

\* the limit and the insert; the unique credential id refuses the later of two
StorePasskey(r) ==
    LET q == req[r]
        taken == \E p \in passkeys : p.cred = q.cred
    IN /\ q.pc = "store"
       /\ \/ /\ q.owned < MaxPasskeys /\ ~taken /\ Draws
             /\ passkeys' = passkeys \cup {[id |-> serial + 1, cred |-> q.cred,
                                            user |-> q.user, count |-> q.count]}
             /\ jar' = [jar EXCEPT ![q.b].binding = 0]
          \/ /\ q.owned >= MaxPasskeys \/ taken
             /\ UNCHANGED <<passkeys, serial, jar>>
       /\ Ends(r)
       /\ UNCHANGED <<account, sessions, challenges, device, clock, started, crashes>>

(***************************************************************************)
(* Signing in with a passkey.  The authenticator signs, and counts, before *)
(* the request arrives.  The credential row is locked and read afresh, then*)
(* the User row; the locks last until the new counter and the session are  *)
(* committed together.                                                     *)
(***************************************************************************)
Signs(c) == IF c \in Counting THEN device[c] + 1 ELSE 0

AuthenticatePasskey(r, b) ==
    /\ Starts(r)
    /\ \E c \in Creds, ch \in {d.id : d \in challenges} :
         /\ device' = [device EXCEPT ![c] = Signs(c)]
         /\ req' = [req EXCEPT ![r] = [Idle EXCEPT
                      !.pc = "consume", !.op = "verify", !.b = b, !.cred = c, !.chal = ch,
                      !.count = Signs(c)]]
    /\ UNCHANGED <<rows, jar, locks, clock, serial, crashes>>

ConsumeAuthentication(r) ==
    /\ req[r].pc = "consume" /\ req[r].op = "verify"
    /\ Consume(r, "authentication", None, "key")

\* mutant: the credential is read without FOR UPDATE
LockKeyUnlocked(r) ==
    LET stored == {p \in passkeys : p.cred = req[r].cred}
    IN /\ req[r].pc = "key"
       /\ \/ stored = {} /\ Ends(r)
          \/ /\ \E p \in stored :
                  req' = [req EXCEPT ![r].pc = "user", ![r].user = p.user, ![r].row = p.id,
                                     ![r].seen = p.count]
             /\ UNCHANGED locks
       /\ UNCHANGED <<rows, jar, device, clock, serial, started, crashes>>

\* SELECT ... FOR UPDATE with populate_existing on the credential
LockKey(r) ==
    LET c == req[r].cred
        stored == {p \in passkeys : p.cred = c}
    IN /\ req[r].pc = "key"
       /\ \/ stored = {} /\ Ends(r)
          \/ /\ keyLock[c] = None
             /\ keyLock' = [keyLock EXCEPT ![c] = r]
             /\ \E p \in stored :
                  req' = [req EXCEPT ![r].pc = "user", ![r].user = p.user, ![r].row = p.id,
                                     ![r].seen = p.count]
             /\ UNCHANGED userLock
       /\ UNCHANGED <<rows, jar, device, clock, serial, started, crashes>>

\* verify_authentication_response: a counter that is in use must advance
CounterAccepted(count, seen) == count > seen \/ (count = 0 /\ seen = 0)

\* any other part of the verification may fail as well
VerifyAssertion(r) ==
    LET q == req[r]
    IN /\ q.pc = "verify"
       /\ \/ /\ CounterAccepted(q.count, q.seen)
             /\ req' = [req EXCEPT ![r].pc = "issue", ![r].now = clock,
                                   ![r].drop = Discarded(q.user, clock)]
             /\ UNCHANGED locks
          \/ Ends(r)
       /\ UNCHANGED <<rows, jar, device, clock, serial, started, crashes>>

(***************************************************************************)
(* Removing a passkey, signing out, and expiry.                            *)
(***************************************************************************)
DeletePasskey(r, b) ==
    /\ Starts(r)
    /\ \E p \in passkeys :
         /\ Authenticated(b, p.user)
         /\ req' = [req EXCEPT ![r] = [Idle EXCEPT !.pc = "delete", !.b = b, !.user = p.user,
                                                   !.cred = p.cred, !.row = p.id]]
    /\ UNCHANGED <<rows, jar, device, locks, clock, serial, crashes>>

\* DELETE by primary key, which waits for a request that holds the row
DeleteRow(r) ==
    LET gone == {p \in passkeys : p.id = req[r].row}
    IN /\ req[r].pc = "delete"
       /\ gone # {} => keyLock[req[r].cred] = None
       /\ passkeys' = passkeys \ gone
       /\ Ends(r)
       /\ UNCHANGED <<account, sessions, challenges, jar, device, clock, serial, started,
                      crashes>>

Revoked(b) == {s \in sessions : s.id # jar[b].session}

\* DELETE /browser-session
Logout(b) ==
    /\ Counted /\ jar[b].session # 0
    /\ sessions' = Revoked(b)
    /\ jar' = [jar EXCEPT ![b].session = 0, ![b].legacy = FALSE]
    /\ UNCHANGED <<account, passkeys, challenges, device, req, locks, clock, serial, crashes>>

\* resolve_browser_session deletes a session that it finds expired
DropExpired(b) ==
    /\ Counted
    /\ \E s \in sessions : /\ s.id = jar[b].session /\ s.expires <= clock
                           /\ sessions' = sessions \ {s}
    /\ UNCHANGED <<account, passkeys, challenges, jar, device, req, locks, clock, serial,
                   crashes>>

(***************************************************************************)
(* The administrator.  The admin session is a signed cookie with an age,   *)
(* kept nowhere else.                                                      *)
(***************************************************************************)
AdminLogin(b) ==
    /\ Counted
    /\ sessions' = Revoked(b)
    /\ jar' = [jar EXCEPT ![b].session = 0, ![b].legacy = FALSE, ![b].admin = clock]
    /\ UNCHANGED <<account, passkeys, challenges, device, req, locks, clock, serial, crashes>>

AdminLogout(b) ==
    /\ Counted /\ jar[b].admin # None
    /\ jar' = [jar EXCEPT ![b].admin = None]
    /\ UNCHANGED <<rows, device, req, locks, clock, serial, crashes>>

\* the User row is locked, written and committed in one step
SetSuspension(u, status) ==
    /\ Counted /\ account[u] \notin {"none", status} /\ userLock[u] = None
    /\ account' = [account EXCEPT ![u] = status]
    /\ UNCHANGED <<sessions, passkeys, challenges, jar, device, req, locks, clock, serial,
                   crashes>>

\* POST /api/v1/admin/users/... and /api/v2/admin/users/..., with the admin bearer
SuspendAccount(u) == SetSuspension(u, "suspended")
UnsuspendAccount(u) == SetSuspension(u, "active")

\* POST /admin/accounts/... from the admin page
AdminSuspendAccount(b, u) == AdminSession(b) /\ SetSuspension(u, "suspended")
AdminRestoreAccount(b, u) == AdminSession(b) /\ SetSuspension(u, "active")

(***************************************************************************)
(* The environment: time passes, and a replica may die with its request,   *)
(* whose transaction the database then rolls back.                         *)
(***************************************************************************)
Tick ==
    /\ clock < MaxClock /\ clock' = clock + 1
    /\ UNCHANGED <<rows, jar, device, req, locks, serial, started, crashes>>

Crash(r) ==
    /\ req[r].pc # "idle" /\ crashes > 0 /\ crashes' = crashes - 1
    /\ Ends(r)
    /\ UNCHANGED <<rows, jar, device, clock, serial, started>>

Step(r) ==
    \/ LockUser(r) \/ IssueSession(r) \/ StoreChallenge(r)
    \/ ConsumeRegistration(r) \/ CheckExisting(r) \/ StorePasskey(r)
    \/ ConsumeAuthentication(r) \/ LockKey(r) \/ VerifyAssertion(r)
    \/ DeleteRow(r)

Arrives(r, b) ==
    \/ ExchangeToken(r, b) \/ Login(r, b) \/ Dashboard(r, b) \/ Signup(r, b)
    \/ RegistrationOptions(r, b) \/ AuthenticationOptions(r, b)
    \/ RegisterPasskey(r, b) \/ AuthenticatePasskey(r, b) \/ DeletePasskey(r, b)

Next ==
    \/ \E r \in Requests : Step(r) \/ Crash(r)
    \/ \E r \in Requests, b \in Browsers : Arrives(r, b)
    \/ \E b \in Browsers : Logout(b) \/ DropExpired(b) \/ AdminLogin(b) \/ AdminLogout(b)
    \/ \E u \in Users : SuspendAccount(u) \/ UnsuspendAccount(u)
    \/ \E b \in Browsers, u \in Users : AdminSuspendAccount(b, u) \/ AdminRestoreAccount(b, u)
    \/ Tick

(***************************************************************************)
(* A quiet moment: one account exists with sessions and passkeys within    *)
(* the limits, its browsers carrying one of them, the retired cookie, or   *)
(* nothing; the other accounts have yet to sign up.                        *)
(***************************************************************************)
Init ==
    /\ \E u \in Users, n \in 0 .. MaxSessions, keys \in SUBSET Creds :
         /\ IsFiniteSet(keys) /\ Cardinality(keys) <= MaxPasskeys
         /\ account = [v \in Users |-> IF v = u THEN "active" ELSE "none"]
         /\ sessions = [id : 1 .. n, user : {u}, created : {0}, expires : {SessionAge},
                        method : {"token"}]
         /\ \E row \in [keys -> 1 .. Cardinality(keys)] :
              /\ \A c, d \in keys : row[c] = row[d] => c = d
              /\ passkeys = {[id |-> row[c], cred |-> c, user |-> u, count |-> 0] : c \in keys}
         /\ jar \in [Browsers -> [session : 0 .. n, binding : {0}, legacy : BOOLEAN,
                                  admin : {None}]]
         /\ \A b \in Browsers : Holder[b] # u => jar[b].session = 0 /\ ~jar[b].legacy
    /\ challenges = {}
    /\ device = [c \in Creds |-> 0]
    /\ req = [r \in Requests |-> Idle]
    /\ userLock = [u \in Users |-> None]
    /\ keyLock = [c \in Creds |-> None]
    /\ clock \in 0 .. MaxClock /\ serial = MaxSessions + MaxPasskeys
    /\ started \in 0 .. MaxRequests /\ crashes \in 0 .. MaxCrashes

\* the server runs a request to its answer, and the database grants a row lock to
\* those that wait for it in turn
Fairness == \A r \in Requests : WF_vars(Step(r)) /\ SF_vars(LockUser(r) \/ LockKey(r))

Spec == Init /\ [][Next]_vars /\ Fairness

(***************************************************************************)
(* Properties.                                                             *)
(***************************************************************************)
\* A passkey, or a session signed in with one, is only ever given to an account that is
\* not suspended at the instant it is committed, however long ago the request was
\* authenticated (passkeys.py:403-410 and 526-533).
GrantsNeedActiveAccount ==
    [][/\ \A p \in passkeys' \ passkeys : account[p.user] = "active"
       /\ \A s \in sessions' \ sessions :
            s.method = "passkey" => account[s.user] = "active"]_vars

\* Concurrent sign-ins and registrations never take an account over its number of
\* sessions or passkeys, nor the whole service over its pending challenges: each is
\* counted under the lock that every other insert takes (browser_sessions.py:116-134,
\* passkeys.py:403-419, 179-202).
LimitsHold ==
    /\ \A u \in Users :
         /\ Cardinality({s \in sessions : s.user = u}) <= MaxSessions
         /\ Cardinality({p \in passkeys : p.user = u}) <= MaxPasskeys
    /\ Cardinality({c \in challenges : c.expires > clock}) <= MaxPending

\* The stored counter of a passkey follows its authenticator: it never moves back, and
\* for an authenticator that counts every passkey session was paid for with a new
\* signature (passkeys.py:518-559).
CounterAdvances ==
    [][\A p \in passkeys, q \in passkeys' : p.id = q.id =>
         /\ q.count >= p.count
         /\ p.cred \in Counting /\ sessions' # sessions
              /\ (\E r \in Requests : req[r].pc = "issue" /\ req[r].row = p.id
                                        /\ req'[r].pc = "idle")
              => q.count > p.count]_vars

\* Requests never wait for each other in a circle: while one is in flight, one of them
\* can go on (passkeys.py:394-410 and 518-533 lock the credential before the account).
NoWaitCycle ==
    (\E r \in Requests : req[r].pc # "idle") => \E r \in Requests : ENABLED Step(r)
=============================================================================
