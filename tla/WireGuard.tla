------------------------------ MODULE WireGuard ------------------------------
(* The routed plane, from the database to the relay's kernel.                *)
(*                                                                           *)
(* Agents enrol a WireGuard key under their client identity (services/       *)
(* wireguard.py, enroll_key); operators reset identities, suspend accounts   *)
(* and approve SMTP (services/ip_leases.py); the relay fetches a complete    *)
(* desired state that the backend assembles from several reads, and its      *)
(* manager applies it or, when it is too old, closes the plane               *)
(* (go/cmd/blindport-relay/wireguard.go, go/internal/wgnet/state.go).        *)
(*                                                                           *)
(* Time is kept as ages in ticks of the manager's interval.                  *)
EXTENDS Naturals, FiniteSets, TLC

CONSTANTS
    Users,        \* accounts
    RoutedSubs,   \* routed IP subscriptions
    SubUser,      \* [RoutedSubs -> Users]
    Prefixes,     \* managed addresses
    Agents,       \* client state directories
    AgentUser,    \* [Agents -> Users]
    AgentIdentity,\* [Agents -> Identities]: the instance identifier
    AgentKey,     \* [Agents -> Keys]: the WireGuard public key
    Identities,
    Keys,
    KeyRequests,  \* enrolment requests in progress at once
    Versions,     \* snapshot versions the backend replicas serve
    Paid,         \* ticks of a paid period
    Quarantine,   \* ticks an expired address is held
    FetchTicks,   \* ticks a fetch may take
    MaxStaleness, \* the manager's maximum staleness
    MaxEvents,    \* bound: events of each kind
    Nobody        \* an absent value

VARIABLES
    account,   \* [Users -> [suspended, identity]]: the account and its credential
    wgPeer,    \* [Users -> WireGuardPeer row or Nobody]
    routed,    \* [RoutedSubs -> [status, ip, left, held]]
    smtpOk,    \* [RoutedSubs -> BOOLEAN]: the current lease's SMTP exception
    keyReq,    \* [KeyRequests -> enrolment request]
    fetch,     \* the desired-state request in progress
    manager,   \* [age, closed, bound, metered, wedged]: the relay's manager
    kernel,    \* [up, pass, smtp, key]: what the relay forwards
    late,      \* [Prefixes -> [route, smtp]]: ticks without database backing,
               \* counted again after a restart or a skipped Apply and, once
               \* applied, from the fetch that read what is forwarded
    wgBudget   \* events left to the environment

wgVars == <<account, wgPeer, routed, smtpOk, keyReq, fetch, manager, kernel, late, wgBudget>>

PeerRow == [identity : Identities, key : Keys, generation : Nat]
NoRequest == [pc |-> "idle"]
NoFetch == [pc |-> "idle", due |-> FALSE]
NoLate == [p \in Prefixes |-> [route |-> 0, smtp |-> 0]]
Closed == [up |-> {}, pass |-> {}, smtp |-> {}, key |-> [p \in Prefixes |-> Nobody]]

ASSUME WireGuardAssumption ==
    /\ MaxStaleness \in Nat \ {0, 1} /\ Paid \in Nat \ {0}
    /\ Quarantine \in Nat /\ FetchTicks \in Nat /\ Quarantine > FetchTicks   \* config: a day against seconds
    /\ SubUser \in [RoutedSubs -> Users] /\ AgentUser \in [Agents -> Users]
    /\ Versions \subseteq 1 .. 3 /\ Versions # {}
    /\ AgentIdentity \in [Agents -> Identities] /\ AgentKey \in [Agents -> Keys]
    /\ Nobody \notin PeerRow

----------------------------------------------------------------------------
(* Subscriptions and leases. A row's lease is current while ip # Nobody.     *)

Elapsed(s) == routed[s].status = "active" /\ routed[s].left = 0

\* expire_elapsed_subscriptions on the rows S: revoke the elapsed ones and
\* quarantine their leases, SMTP exception included.
ExpireElapsed(S) ==
    LET gone == {s \in S : Elapsed(s)} IN
    /\ routed' = [s \in RoutedSubs |->
         IF s \in gone THEN [routed[s] EXCEPT !.status = "expired", !.held = Quarantine]
                       ELSE routed[s]]
    /\ smtpOk' = [s \in RoutedSubs |-> smtpOk[s] /\ s \notin gone]

\* The rows the query returns; _active_routed_subscriptions expires them
\* before it filters, so it answers with those still in their period.
ActiveRouted(S) == {s \in S : routed[s].status = "active" /\ ~account[SubUser[s]].suspended}
Entitled(S) == {s \in ActiveRouted(S) : routed[s].left > 0}
Of(u) == {s \in RoutedSubs : SubUser[s] = u}

\* client_config: what an agent of u is told of its peer.
EnrolledPeer(u) ==
    IF wgPeer[u] # Nobody /\ wgPeer[u].identity = account[u].identity
    THEN wgPeer[u] ELSE Nobody
GenerationOf(row) == IF row = Nobody THEN 0 ELSE row.generation
KeyOf(row) == IF row = Nobody THEN Nobody ELSE row.key

\* What the plane forwards: a route, a firewall pass and a peer.
Forwards(k, p) == IF p \in k.up \cap k.pass THEN k.key[p] ELSE Nobody
SmtpOpen(k, p) == Forwards(k, p) # Nobody /\ p \in k.smtp

\* The database backs what is forwarded for p, and the SMTP let through.
Holder(p, k) == {s \in Entitled(RoutedSubs) :
    routed[s].ip = p /\ KeyOf(EnrolledPeer(SubUser[s])) = k}
Backed(p) == Forwards(kernel, p) = Nobody \/ Holder(p, Forwards(kernel, p)) # {}
SmtpBacked(p) == SmtpOpen(kernel, p) => \E s \in Holder(p, Forwards(kernel, p)) : smtpOk[s]
Rebacked == late' = [p \in Prefixes |-> [route |-> IF Backed(p)' THEN 0 ELSE late[p].route,
                                         smtp |-> IF SmtpBacked(p)' THEN 0 ELSE late[p].smtp]]

\* A settled payment activates s: on its own lease, or on a free address.
SettleRouted(s, p) ==
    /\ wgBudget.settle > 0
    /\ routed[s].ip \in {Nobody, p}
    /\ \A t \in RoutedSubs \ {s} : routed[t].ip # p
    /\ routed' = [routed EXCEPT ![s] = [status |-> "active", ip |-> p, left |-> Paid, held |-> 0]]
    /\ smtpOk' = [smtpOk EXCEPT ![s] = @ /\ routed[s].ip = p]
    /\ wgBudget' = [wgBudget EXCEPT !.settle = @ - 1]
    /\ UNCHANGED <<account, wgPeer, keyReq, fetch, manager, kernel>> /\ Rebacked

\* The quarantine is over and the address returns to the pool.
ReleaseRouted(s) ==
    /\ routed[s].status = "expired" /\ routed[s].held = 0 /\ routed[s].ip # Nobody
    /\ routed' = [routed EXCEPT ![s].ip = Nobody]
    /\ smtpOk' = [smtpOk EXCEPT ![s] = FALSE]
    /\ UNCHANGED <<account, wgPeer, keyReq, fetch, manager, kernel, late, wgBudget>>

----------------------------------------------------------------------------
(* Operators.                                                                *)

Operate == wgBudget.operator > 0 /\ wgBudget' = [wgBudget EXCEPT !.operator = @ - 1]

\* _set_account_suspension: the flag and every SMTP exception in one commit.
RevokeSmtpForUser(u) == smtpOk' = [s \in RoutedSubs |-> smtpOk[s] /\ SubUser[s] # u]

SuspendRouted(u) ==
    /\ Operate /\ ~account[u].suspended
    /\ account' = [account EXCEPT ![u].suspended = TRUE]
    /\ RevokeSmtpForUser(u)
    /\ UNCHANGED <<wgPeer, routed, keyReq, fetch, manager, kernel, late>>

UnsuspendRouted(u) ==
    /\ Operate /\ account[u].suspended
    /\ account' = [account EXCEPT ![u].suspended = FALSE]
    /\ UNCHANGED <<wgPeer, routed, smtpOk, keyReq, fetch, manager, kernel>> /\ Rebacked

\* _active_routed_subscription: account and row locked, elapsed rows expired
\* first; then the exception of the locked active lease.
ReviewSmtp(s, allowed) ==
    /\ Operate /\ ~account[SubUser[s]].suspended /\ routed[s].status = "active"
    /\ \/ Elapsed(s) /\ ExpireElapsed({s})
       \/ ~Elapsed(s) /\ smtpOk' = [smtpOk EXCEPT ![s] = allowed] /\ UNCHANGED routed
    /\ UNCHANGED <<account, wgPeer, keyReq, fetch, manager, kernel>> /\ Rebacked

ApproveSmtp(s) == ~smtpOk[s] /\ ReviewSmtp(s, TRUE)
RevokeSmtp(s) == smtpOk[s] /\ ReviewSmtp(s, FALSE)

\* The dashboard locks account, row and lease but does not expire first.
AdminLease(s) == ~account[SubUser[s]].suspended /\ routed[s].status = "active"

AdminApproveSmtp(s) ==
    /\ Operate /\ AdminLease(s) /\ ~smtpOk[s]
    /\ smtpOk' = [smtpOk EXCEPT ![s] = TRUE]
    /\ UNCHANGED <<account, wgPeer, routed, keyReq, fetch, manager, kernel>> /\ Rebacked

AdminRevokeSmtp(s) ==
    /\ Operate /\ AdminLease(s) /\ smtpOk[s]
    /\ smtpOk' = [smtpOk EXCEPT ![s] = FALSE]
    /\ UNCHANGED <<account, wgPeer, routed, keyReq, fetch, manager, kernel, late>>

\* An operator deletes the account's client credential; a client then enrols
\* its own. An instance identifier is never used by two identities.
ResetIdentity(u) ==
    /\ Operate /\ account[u].identity # Nobody
    /\ account' = [account EXCEPT ![u].identity = Nobody]
    /\ UNCHANGED <<wgPeer, routed, smtpOk, keyReq, fetch, manager, kernel, late>>

EnrolIdentity(u, i) ==
    /\ account[u].identity = Nobody /\ i \notin wgBudget.used
    /\ account' = [account EXCEPT ![u].identity = i]
    /\ wgBudget' = [wgBudget EXCEPT !.used = @ \cup {i}]
    /\ UNCHANGED <<wgPeer, routed, smtpOk, keyReq, fetch, manager, kernel>> /\ Rebacked

----------------------------------------------------------------------------
(* Enrolment of a key.                                                       *)

KeyStep(r, rec) == keyReq' = [keyReq EXCEPT ![r] = rec]
NoPlane == UNCHANGED <<account, fetch, manager, kernel, late>>

\* GET /client/wireguard by a starting agent; one that finds its own key is
\* done, the others will post the next generation.
WireguardConfig(r, a) ==
    LET u == AgentUser[a] IN
    /\ keyReq[r].pc = "idle" /\ wgBudget.enrol > 0
    /\ wgBudget' = [wgBudget EXCEPT !.enrol = @ - 1]
    /\ ExpireElapsed(ActiveRouted(Of(u)))
    /\ Entitled(Of(u)) # {} /\ account[u].identity # Nobody
    /\ KeyOf(EnrolledPeer(u)) # AgentKey[a]
    /\ KeyStep(r, [pc |-> "post", a |-> a, generation |-> GenerationOf(EnrolledPeer(u)) + 1])
    /\ UNCHANGED wgPeer /\ NoPlane

\* A signature verifies against the account's credential.
IdentitySigned(a) == account[AgentUser[a]].identity = AgentIdentity[a]

\* POST /client/wireguard/key: client_config guards the request, then the
\* signature is verified.
WireguardKey(r) ==
    LET a == keyReq[r].a
        u == AgentUser[a] IN
    /\ keyReq[r].pc = "post"
    /\ ExpireElapsed(ActiveRouted(Of(u)))
    /\ IF Entitled(Of(u)) # {} /\ IdentitySigned(a)
       THEN KeyStep(r, [pc |-> "current", a |-> a, generation |-> keyReq[r].generation])
       ELSE KeyStep(r, NoRequest)
    /\ UNCHANGED <<wgPeer, wgBudget>> /\ NoPlane

\* The current row decides between reset, insert, retry and rotation.
Acceptable(cur, a, g) ==
    IF cur = Nobody \/ cur.identity # AgentIdentity[a] THEN g = 1
    ELSE g = cur.generation + 1

ReadCurrent(r) ==
    LET a == keyReq[r].a
        g == keyReq[r].generation
        cur == wgPeer[AgentUser[a]] IN
    /\ keyReq[r].pc = "current"
    /\ IF Acceptable(cur, a, g)
       THEN KeyStep(r, [pc |-> "write", a |-> a, generation |-> g, cur |-> cur])
       ELSE KeyStep(r, NoRequest)   \* the retry's answer, or a conflict
    /\ UNCHANGED <<wgPeer, routed, smtpOk, wgBudget>> /\ NoPlane

\* Mutant: the update matches the identity alone.
FencedPeerIdentityOnly(u, cur) ==
    IF cur = Nobody THEN wgPeer[u] = Nobody
    ELSE wgPeer[u] # Nobody /\ wgPeer[u].identity = cur.identity

\* The insert needs a free primary key, the updates still match the identity
\* and the generation that were read.
FencedPeer(u, cur) ==
    IF cur = Nobody THEN wgPeer[u] = Nobody
    ELSE /\ wgPeer[u] # Nobody
         /\ wgPeer[u].identity = cur.identity /\ wgPeer[u].generation = cur.generation
UniqueKey(u, k) == \A v \in Users \ {u} : KeyOf(wgPeer[v]) # k

\* The commit. A lost insert or a fenced update leaves the winner's row, and
\* the answer is a conflict unless the winner is this very enrolment.
WriteKey(r) ==
    LET a == keyReq[r].a
        u == AgentUser[a]
        row == [identity |-> AgentIdentity[a], key |-> AgentKey[a],
                generation |-> keyReq[r].generation] IN
    /\ keyReq[r].pc = "write"
    /\ wgPeer' = IF FencedPeer(u, keyReq[r].cur) /\ UniqueKey(u, AgentKey[a])
                 THEN [wgPeer EXCEPT ![u] = row] ELSE wgPeer
    /\ KeyStep(r, [pc |-> "answer", a |-> a])
    /\ UNCHANGED <<account, routed, smtpOk, fetch, manager, kernel, wgBudget>> /\ Rebacked

\* The answer reads client_config once more, which expires elapsed rows.
AnswerKey(r) ==
    /\ keyReq[r].pc = "answer"
    /\ ExpireElapsed(ActiveRouted(Of(AgentUser[keyReq[r].a])))
    /\ KeyStep(r, NoRequest)
    /\ UNCHANGED <<wgPeer, wgBudget>> /\ NoPlane

----------------------------------------------------------------------------
(* The desired state, assembled by one backend request from several reads.   *)

NoStep == UNCHANGED <<account, wgPeer, keyReq, manager, kernel, late, wgBudget>>

\* desired_state, first read: the active rows, elapsed ones expired.
FetchRows(v) ==
    LET rows == Entitled(RoutedSubs) IN
    /\ fetch.pc = "idle" /\ fetch.due
    /\ ExpireElapsed(ActiveRouted(RoutedSubs))
    /\ fetch' = [pc |-> "peers", due |-> FALSE, v |-> v, age |-> 0,
                 rows |-> {<<routed[s].ip, SubUser[s]>> : s \in rows},
                 todo |-> {SubUser[s] : s \in rows},
                 key |-> [u \in Users |-> Nobody], smtp |-> {}, bound |-> Nobody]
    /\ NoStep

\* For every account with a prefix: its peer row, then its credential.
ReadPeer(u) ==
    /\ fetch.pc = "peers" /\ u \in fetch.todo
    /\ fetch' = [fetch EXCEPT !.pc = "credential", !.todo = @ \ {u}, !.key[u] = wgPeer[u]]
    /\ UNCHANGED <<routed, smtpOk>> /\ NoStep

ReadCredential(u) ==
    LET row == fetch.key[u] IN
    /\ fetch.pc = "credential" /\ row \in PeerRow
    /\ fetch' = [fetch EXCEPT !.pc = "peers",
         !.key[u] = IF account[u].identity = row.identity THEN row.key ELSE Nobody]
    /\ UNCHANGED <<routed, smtpOk>> /\ NoStep

\* The account has no peer row: nothing to compare.
SkipPeer ==
    /\ fetch.pc = "credential" /\ \A u \in Users : fetch.key[u] \notin PeerRow
    /\ fetch' = [fetch EXCEPT !.pc = "peers"]
    /\ UNCHANGED <<routed, smtpOk>> /\ NoStep

\* The prefixes of the peers found.
PeerOf(f) == [p \in Prefixes |->
    IF \E u \in Users : <<p, u>> \in f.rows /\ f.key[u] # Nobody
    THEN f.key[CHOOSE u \in Users : <<p, u>> \in f.rows /\ f.key[u] # Nobody] ELSE Nobody]
ActivePrefixes(f) == {p \in Prefixes : PeerOf(f)[p] # Nobody}

\* The first version ends here.
DesiredState ==
    /\ fetch.pc = "peers" /\ fetch.todo = {} /\ fetch.v = 1
    /\ fetch' = [fetch EXCEPT !.pc = "ready"]
    /\ UNCHANGED <<routed, smtpOk>> /\ NoStep

\* The second adds the approved active leases of those prefixes.
Approved == {routed[s].ip : s \in {t \in RoutedSubs : routed[t].status = "active" /\ smtpOk[t]}}
DesiredStateV2 ==
    /\ fetch.pc = "peers" /\ fetch.todo = {} /\ fetch.v > 1
    /\ fetch' = [fetch EXCEPT !.pc = IF fetch.v = 2 THEN "ready" ELSE "bindings",
                              !.smtp = Approved \cap ActivePrefixes(fetch)]
    /\ UNCHANGED <<routed, smtpOk>> /\ NoStep

\* The third reads the rows again to attribute every prefix.
DesiredStateV3 ==
    /\ fetch.pc = "bindings"
    /\ ExpireElapsed(ActiveRouted(RoutedSubs))
    /\ fetch' = [fetch EXCEPT !.pc = "ready",
                              !.bound = {<<routed[s].ip, s>> : s \in Entitled(RoutedSubs)}]
    /\ NoStep

----------------------------------------------------------------------------
(* The relay's manager, one cycle at a time.                                 *)

NoBackend == UNCHANGED <<account, wgPeer, routed, smtpOk, keyReq>>
\* n faults of the relay's host are charged to this cycle.
Faults(n) == wgBudget.fault >= n /\ wgBudget' = [wgBudget EXCEPT !.fault = @ - n]

\* A change of what is forwarded starts a new count.
Flow(k, p) == <<Forwards(k, p), SmtpOpen(k, p)>>
EndCycle(count) ==
    /\ fetch' = [NoFetch EXCEPT !.due = fetch.due]
    /\ late' = [p \in Prefixes |->
         IF Flow(kernel', p) = Flow(kernel, p) THEN count[p] ELSE [route |-> 0, smtp |-> 0]]
    /\ NoBackend

\* What is applied was read, part by part, since the fetch began.
Least(m, n) == IF m < n THEN m ELSE n
ReadWithin(n) == [p \in Prefixes |-> [route |-> Least(late[p].route, n), smtp |-> Least(late[p].smtp, n)]]

\* failClosed leaves early when the plane is marked closed already. The
\* dataplane may refuse, and then it is not marked. wedged records that the
\* kernel was left open by either.
FailClosed(m, k, n) ==
    \/ /\ m.closed /\ Faults(n)
       /\ kernel' = k /\ manager' = [m EXCEPT !.wedged = @ \/ k # kernel]
    \/ /\ ~m.closed /\ Faults(n)
       /\ kernel' = Closed /\ manager' = [m EXCEPT !.closed = TRUE, !.wedged = FALSE]
    \/ /\ ~m.closed /\ Faults(n + 1)
       /\ kernel' = k /\ manager' = [m EXCEPT !.wedged = TRUE]

\* Mutant: a plane that is not marked closed is never too old.
FailClosedIfStaleNever(m, k, n) ==
    Faults(n) /\ kernel' = k /\ manager' = m

\* Closed by a failed cycle once the last success is too long ago.
FailClosedIfStale(m, k, n) ==
    IF ~m.closed /\ m.age < MaxStaleness
    THEN Faults(n) /\ kernel' = k /\ manager' = m
    ELSE FailClosed(m, k, n)

\* Apply in its order: blackhole what lost its peer, install the policy,
\* replace the peers, activate the routes.
Applied(f) == [up |-> ActivePrefixes(f), pass |-> ActivePrefixes(f),
               smtp |-> f.smtp, key |-> PeerOf(f)]
\* What is left when the policy is refused, the peers are refused (Apply
\* closes the plane itself), or a route is.
Partial(f) == {[kernel EXCEPT !.up = @ \cap ActivePrefixes(f)], Closed} \cup
              {[Applied(f) EXCEPT !.up = up] : up \in SUBSET ActivePrefixes(f)}

\* bandwidthBindings: exactly one binding for every prefix with a peer.
BindingsValid(f) == f.bound # Nobody /\ {b[1] : b \in f.bound} = ActivePrefixes(f)
Prepared == manager.metered => BindingsValid(fetch)

\* The backend does not answer, or not in time.
CycleFetchFailed ==
    /\ fetch.pc # "idle" \/ fetch.due
    /\ FailClosedIfStale(manager, kernel, 0)
    /\ EndCycle(late)

\* prepare: no valid bindings, or the counters cannot be read or removed.
CycleAccountingFailed ==
    /\ fetch.pc = "ready" /\ manager.metered
    /\ FailClosedIfStale(manager, kernel, IF BindingsValid(fetch) THEN 1 ELSE 0)
    /\ EndCycle(late)

\* The counter table vanished and the bindings did not change: it is put
\* back, and the desired state is not applied.
CycleTableMissing ==
    /\ fetch.pc = "ready" /\ manager.metered /\ BindingsValid(fetch) /\ Faults(1)
    /\ manager.bound = fetch.bound /\ ~manager.closed
    /\ manager' = [manager EXCEPT !.age = 0]
    /\ fetch' = [NoFetch EXCEPT !.due = fetch.due] /\ late' = NoLate
    /\ UNCHANGED kernel /\ NoBackend

\* A failed Apply closes at once if the counters were removed for it.
CycleApplyFailed ==
    /\ fetch.pc = "ready" /\ Prepared
    /\ \E k \in Partial(fetch) :
         IF manager.metered /\ manager.bound \notin {Nobody, fetch.bound}
         THEN FailClosed(manager, k, 1)
         ELSE FailClosedIfStale(manager, k, 1)
    /\ EndCycle(late)

\* Applied, but the counters could not be installed.
CycleInstallFailed ==
    /\ fetch.pc = "ready" /\ manager.metered /\ BindingsValid(fetch)
    /\ FailClosed([manager EXCEPT !.bound = fetch.bound], Applied(fetch), 1)
    /\ EndCycle(late)

CycleApplied ==
    /\ fetch.pc = "ready" /\ Prepared /\ Faults(0)
    /\ kernel' = Applied(fetch)
    /\ manager' = [manager EXCEPT !.age = 0, !.closed = FALSE, !.bound = fetch.bound, !.wedged = FALSE]
    /\ EndCycle(ReadWithin(fetch.age))

\* The relay process dies and is started again over the same kernel state;
\* it has no success to its name.
NewManager(metered) ==
    [age |-> MaxStaleness, closed |-> FALSE, bound |-> Nobody, metered |-> metered, wedged |-> FALSE]
RelayRestart ==
    /\ Faults(1) /\ manager' = NewManager(manager.metered)
    /\ fetch' = [NoFetch EXCEPT !.due = TRUE] /\ late' = NoLate
    /\ UNCHANGED kernel /\ NoBackend

----------------------------------------------------------------------------
(* Time, and the whole.                                                      *)

\* A route outlives its backing by at most this many ticks: the fetch that
\* read it, the staleness, and the fetch of the cycle that notices.
LateBound == FetchTicks + MaxStaleness + FetchTicks
Later(n) == IF n > LateBound THEN n ELSE n + 1

WgTick ==
    /\ IF fetch.pc = "idle" THEN ~fetch.due ELSE fetch.age < FetchTicks
    /\ fetch' = IF fetch.pc = "idle" THEN [fetch EXCEPT !.due = TRUE]
                ELSE [fetch EXCEPT !.due = TRUE, !.age = @ + 1]
    /\ routed' = [s \in RoutedSubs |-> [routed[s] EXCEPT
         !.left = IF @ > 0 THEN @ - 1 ELSE 0, !.held = IF @ > 0 THEN @ - 1 ELSE 0]]
    /\ manager' = [manager EXCEPT !.age = IF @ < MaxStaleness THEN @ + 1 ELSE @]
    /\ late' = [p \in Prefixes |->
         [route |-> IF Backed(p) THEN 0 ELSE Later(late[p].route),
          smtp |-> IF SmtpBacked(p) THEN 0 ELSE Later(late[p].smtp)]]
    /\ UNCHANGED <<account, wgPeer, smtpOk, keyReq, kernel, wgBudget>>

\* A quiet state: no request, no fetch; the kernel closed or in step.
InStep == [up |-> {p \in Prefixes : \E k \in Keys : Holder(p, k) # {}},
           pass |-> {p \in Prefixes : \E k \in Keys : Holder(p, k) # {}}, smtp |-> {},
           key |-> [p \in Prefixes |-> IF \E k \in Keys : Holder(p, k) # {}
                    THEN CHOOSE k \in Keys : Holder(p, k) # {} ELSE Nobody]]

WgInit ==
    /\ account \in [Users -> [suspended : {FALSE}, identity : Identities \cup {Nobody}]]
    /\ wgPeer \in [Users -> [identity : Identities, key : Keys, generation : {1}] \cup {Nobody}]
    /\ \A u \in Users : wgPeer[u] # Nobody =>
         /\ account[u].identity = wgPeer[u].identity
         /\ \E a \in Agents : /\ AgentUser[a] = u /\ AgentIdentity[a] = wgPeer[u].identity
                              /\ AgentKey[a] = wgPeer[u].key
    /\ routed \in [RoutedSubs -> [status : {"active"}, ip : Prefixes, left : {Paid}, held : {0}]
                                 \cup [status : {"pending"}, ip : {Nobody}, left : {0}, held : {0}]]
    /\ \A s, t \in RoutedSubs : s # t => routed[s].ip = Nobody \/ routed[s].ip # routed[t].ip
    /\ smtpOk = [s \in RoutedSubs |-> FALSE]
    /\ keyReq = [r \in KeyRequests |-> NoRequest]
    /\ fetch = NoFetch
    /\ kernel \in {Closed, InStep}
    /\ \E metered \in BOOLEAN :
         manager = [NewManager(metered) EXCEPT !.age = IF kernel = Closed THEN @ ELSE 0]
    /\ late = NoLate
    /\ wgBudget \in [settle : 0 .. MaxEvents, operator : 0 .. MaxEvents,
                     enrol : 0 .. MaxEvents, fault : 0 .. MaxEvents,
                     used : {{account[u].identity : u \in Users}}]

Backend ==
    \/ \E s \in RoutedSubs, p \in Prefixes : SettleRouted(s, p)
    \/ \E s \in RoutedSubs : \/ ReleaseRouted(s) \/ ApproveSmtp(s) \/ RevokeSmtp(s)
                             \/ AdminApproveSmtp(s) \/ AdminRevokeSmtp(s)
    \/ \E u \in Users : SuspendRouted(u) \/ UnsuspendRouted(u) \/ ResetIdentity(u)
    \/ \E u \in Users, i \in Identities : EnrolIdentity(u, i)

Enrolment ==
    \E r \in KeyRequests :
        \/ \E a \in Agents : WireguardConfig(r, a)
        \/ WireguardKey(r) \/ ReadCurrent(r) \/ WriteKey(r) \/ AnswerKey(r)

Snapshot ==
    \/ \E v \in Versions : FetchRows(v)
    \/ \E u \in Users : ReadPeer(u) \/ ReadCredential(u)
    \/ SkipPeer \/ DesiredState \/ DesiredStateV2 \/ DesiredStateV3

Manager ==
    \/ CycleFetchFailed \/ CycleAccountingFailed \/ CycleTableMissing
    \/ CycleApplyFailed \/ CycleInstallFailed \/ CycleApplied \/ RelayRestart

WgNext == Backend \/ Enrolment \/ Snapshot \/ Manager \/ WgTick

WgSpec == WgInit /\ [][WgNext]_wgVars

----------------------------------------------------------------------------
(* Properties.                                                               *)

\* What the relay forwards, and the SMTP it lets through, is backed by the
\* database or has been without backing for no longer than the staleness
\* bound and two fetches, whatever was suspended, expired, reset, rotated or
\* revoked, and whichever fetches failed - unless the relay's host refused to
\* close. A state just applied counts from when its fetch began.
PlaneFresh ==
    ~manager.wedged => \A p \in Prefixes :
        late[p].route <= LateBound /\ late[p].smtp <= LateBound

\* "fails the whole routed plane closed when backend state exceeds configured
\* staleness" (docs/architecture.md): the same without the exception.
StalePlaneCloses == \A p \in Prefixes : late[p].route <= LateBound

\* A peer row only ever moves to the next generation of its identity, or to
\* the first of another one, however requests overlap.
RotationAdvances ==
    [][\A u \in Users : wgPeer'[u] # wgPeer[u] =>
         /\ wgPeer'[u] # Nobody
         /\ wgPeer'[u].generation =
              IF wgPeer[u] # Nobody /\ wgPeer[u].identity = wgPeer'[u].identity
              THEN wgPeer[u].generation + 1 ELSE 1]_wgVars
=============================================================================
