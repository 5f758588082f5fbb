----------------------------- MODULE WalletSends -----------------------------
(***************************************************************************)
(* Paying one LND invoice from the customer's wallet: the NWC and CLINK    *)
(* parts of services/payments.py.  Replicas reconcile the same payment row *)
(* concurrently.  A lease on the row, a recorded attempt before every send *)
(* and the wallet's own lookup decide whether money is requested again.    *)
(*                                                                         *)
(* The wallet and LND are external.  A wallet may lose a request, execute  *)
(* it after the helper gave up, refuse it, or answer badly; it does not    *)
(* deny a request that it is executing.                                    *)
(***************************************************************************)
EXTENDS Integers

CONSTANTS
    Workers,       \* concurrent sessions
    None,
    Methods,       \* the payment methods to consider, of "nwc" and "clink"
    MaxAttempts,   \* NWC_MAX_PAYMENT_ATTEMPTS
    RetryBase,     \* NWC_RETRY_BASE_SECONDS
    LookupEvery,   \* NWC_LOOKUP_INTERVAL_SECONDS
    LeaseTime,     \* NWC_PAYMENT_LEASE_SECONDS and CLINK_PAYMENT_LEASE_SECONDS
    InvoiceTime,   \* when LND cancels the unpaid invoice
    MaxTime        \* bound on the clock

ASSUME WalletAssumption ==
    /\ None \notin Workers
    /\ Methods \subseteq {"nwc", "clink"}
    /\ MaxAttempts \in Nat \ {0}
    /\ RetryBase \in Nat \ {0} /\ LookupEvery \in Nat /\ LeaseTime \in Nat \ {0}
    /\ InvoiceTime \in Nat /\ MaxTime \in Nat

Channels == {"nwc", "clink"}
NoTime == -1
Time == Nat \cup {NoTime}

VARIABLES
    now,
    pay,      \* the payment row
    cred,     \* the credential generation the payment names is still the current one
    inv,      \* LND's invoice
    wallet,   \* what each wallet does with the invoice
    worker    \* control state of the sessions

vars == <<now, pay, cred, inv, wallet, worker>>

-----------------------------------------------------------------------------
(* State *)

\* tok, until: the lease of each channel.  count: recorded send attempts.  said,
\* err, pre, look, next: what the last NWC observation left.
PayRow == [method : Channels, status : {"pending", "paid", "failed"}, fallback : BOOLEAN,
           tok : [Channels -> Workers \cup {None}], until : [Channels -> Time],
           count : [Channels -> Nat], said : {"none", "settled", "other"},
           err : {"none", "soft", "blocking"}, pre : BOOLEAN, look : Time, next : Time]

NewPay(m) ==
          [method |-> m, status |-> "pending", fallback |-> FALSE,
           tok |-> [c \in Channels |-> None], until |-> [c \in Channels |-> NoTime],
           count |-> [c \in Channels |-> 0], said |-> "none",
           err |-> "none", pre |-> FALSE, look |-> NoTime, next |-> NoTime]

Steps == {"idle", "lnd", "finalize", "claim", "lookup", "record", "send", "await",
          "observe", "check", "release", "fail", "fallback"}

Saying == [said : {"settled", "other"}, err : {"none", "soft", "blocking"}]
Said(s, e) == [said |-> s, err |-> e]

\* pc: next step.  c: channel.  snap: the loaded row.  need: the release asks for
\* the lease.  obs: the observation to save.  ret: the step after saving it.
WorkerState == [pc : Steps, c : Channels, snap : PayRow, need : BOOLEAN,
                obs : Saying, ret : {"idle", "check"}]
Idle == [pc |-> "idle", c |-> "nwc", snap |-> NewPay("nwc"), need |-> FALSE,
         obs |-> Said("other", "none"), ret |-> "idle"]

TypeOK ==
    /\ now \in Nat
    /\ pay \in PayRow
    /\ cred \in [Channels -> BOOLEAN]
    /\ inv \in {"open", "accepted", "settled", "canceled"}
    /\ wallet \in [Channels -> {"none", "executing", "failed", "settled"}]
    /\ worker \in [Workers -> WorkerState]

\* The payment is bound to its invoice.  An NWC payment names no CLINK
\* credential, a CLINK payment may name an NWC one.
Init ==
    /\ now = 0
    /\ pay \in {NewPay(m) : m \in Methods}
    /\ cred \in {f \in [Channels -> BOOLEAN] :
                  f[pay.method] /\ (f["clink"] => pay.method = "clink")}
    /\ inv = "open"
    /\ wallet = [c \in Channels |-> "none"]
    /\ worker = [w \in Workers |-> Idle]

At(w, pc) == worker[w].pc = pc
\* What a session remembers of the row: the columns that later decisions read.
Loaded(row) == [row EXCEPT !.status = "pending", !.until = NewPay(row.method).until]
Become(w, st) == worker' = [worker EXCEPT ![w] = st]
Goto(w, pc) == Become(w, [worker[w] EXCEPT !.pc = pc])
\* The loaded row is not used any more.
Forget(w, pc) == Become(w, [Idle EXCEPT !.pc = pc, !.c = worker[w].c])
Observe(w, snap, obs, ret) ==
    Become(w, [worker[w] EXCEPT !.pc = "observe", !.snap = snap, !.obs = obs, !.ret = ret])
Release(w, snap, need) ==
    Become(w, [worker[w] EXCEPT !.pc = "release", !.snap = snap, !.need = need])

-----------------------------------------------------------------------------
(* _reconcile_nwc_payment and _reconcile_clink_payment *)

Start(w) ==
    /\ At(w, "idle")
    /\ pay.status = "pending"
    /\ Become(w, [Idle EXCEPT !.pc = "lnd", !.c = pay.method, !.snap = Loaded(pay)])
    /\ UNCHANGED <<now, pay, cred, inv, wallet>>

\* What an unpaid invoice leads to, by the loaded row.
Unpaid(w) ==
    LET st == worker[w] IN
    IF st.c = "clink"
    THEN IF st.snap.fallback THEN Become(w, [st EXCEPT !.c = "nwc"])
         ELSE IF st.snap.count["clink"] > 0 THEN Become(w, Idle) ELSE Forget(w, "claim")
    ELSE IF st.snap.count["nwc"] > 0 /\ st.snap.look # NoTime /\ st.snap.look + LookupEvery > now
         THEN Become(w, Idle) ELSE Forget(w, "claim")

\* LND is asked first.
AskLnd(w) ==
    LET st == worker[w] IN
    /\ At(w, "lnd")
    /\ CASE inv = "settled"  -> Forget(w, "finalize")
         [] inv = "canceled" -> Release(w, st.snap, FALSE)
         [] inv = "accepted" -> Observe(w, st.snap, Said("other", "none"), "idle")
         [] inv = "open"     -> Unpaid(w)
    /\ UNCHANGED <<now, pay, cred, inv, wallet>>

\* _finalize_payment, as far as this row is concerned.
Finalize(w) ==
    /\ At(w, "finalize")
    /\ pay' = IF pay.status = "pending" THEN [pay EXCEPT !.status = "paid"] ELSE pay
    /\ Become(w, Idle)
    /\ UNCHANGED <<now, cred, inv, wallet>>

Claimable(c) ==
    /\ pay.status = "pending"
    /\ pay.until[c] = NoTime \/ pay.until[c] <= now
    /\ c = "clink" => pay.count["clink"] = 0
Leased(w, c) == [pay EXCEPT !.tok[c] = w, !.until[c] = now + LeaseTime]

\* After the claim: the credential of the recorded generation, and what an
\* earlier attempt demands.
Claimed(w, c, row) ==
    LET st == [worker[w] EXCEPT !.snap = Loaded(row)] IN
    IF ~cred[c]
    THEN IF row.count[c] = 0
         THEN Become(w, [st EXCEPT !.pc = "release", !.need = TRUE])
         ELSE Become(w, [st EXCEPT !.pc = "observe", !.obs = Said("other", "soft"), !.ret = "idle"])
    ELSE Become(w, [st EXCEPT !.pc = IF row.count[c] > 0 THEN "lookup" ELSE "record"])

\* _claim_nwc_lease and _claim_clink_lease
Claim(w) ==
    LET c == worker[w].c IN
    /\ At(w, "claim")
    /\ IF Claimable(c)
       THEN pay' = Leased(w, c) /\ Claimed(w, c, Leased(w, c))
       ELSE UNCHANGED pay /\ Become(w, Idle)
    /\ UNCHANGED <<now, cred, inv, wallet>>

-----------------------------------------------------------------------------
(* Lookup before a retry *)

\* Lookup answers that are consistent with what the wallet does.
LookupAnswers(c) ==
    {"error", "unknown"} \cup
    CASE wallet[c] = "none"      -> {"absent"}
      [] wallet[c] = "failed"    -> {"absent"}
      [] wallet[c] = "executing" -> {"pending", "badproof"}
      [] wallet[c] = "settled"   -> {"settled", "badproof"}

\* settled by the wallet's word, a stored proof, or a result that contradicts itself
RetryBlocked(row) == row.said = "settled" \/ row.pre \/ row.err = "blocking"

\* failed or not_found
Absent(w, snap, blocked) ==
    IF blocked THEN Observe(w, snap, Said("other", "blocking"), "idle")
    ELSE IF snap.next # NoTime /\ snap.next > now THEN Observe(w, snap, Said("other", "none"), "idle")
    ELSE IF snap.count["nwc"] >= MaxAttempts THEN Release(w, snap, TRUE)
    ELSE Become(w, [worker[w] EXCEPT !.pc = "record", !.snap = snap])

LookedUp(w, a) ==
    LET old == worker[w].snap
        snap == [old EXCEPT !.look = now, !.pre = @ \/ a = "settled"] IN
    CASE a = "error"    -> Observe(w, snap, Said("other", "soft"), "idle")
      [] a = "badproof" -> Observe(w, snap, Said("other", "blocking"), "idle")
      [] a = "settled"  -> Observe(w, snap, Said("settled", "none"), "check")
      [] a = "pending"  -> Observe(w, snap, Said("other", "none"), "check")
      [] a = "unknown"  -> Observe(w, snap, Said("other", "none"), "idle")
      [] a = "absent"   -> Absent(w, snap, RetryBlocked(old))

LookupRetriesUnknown(w) ==             \* mutant: an inconclusive lookup counts as absent
    /\ At(w, "lookup")
    /\ \E a \in LookupAnswers(worker[w].c) : LookedUp(w, IF a = "unknown" THEN "absent" ELSE a)
    /\ UNCHANGED <<now, pay, cred, inv, wallet>>

Lookup(w) ==
    /\ At(w, "lookup")
    /\ \E a \in LookupAnswers(worker[w].c) : LookedUp(w, a)
    /\ UNCHANGED <<now, pay, cred, inv, wallet>>

-----------------------------------------------------------------------------
(* The attempt and the send *)

HoldsLease(w, c) ==
    /\ pay.status = "pending"
    /\ worker[w].snap.tok[c] # None
    /\ pay.tok[c] = worker[w].snap.tok[c]

Recordable(w, c) ==
    /\ HoldsLease(w, c)
    /\ pay.until[c] > now
    /\ IF c = "nwc" THEN pay.next = NoTime \/ pay.next <= now ELSE pay.count["clink"] = 0

\* The loaded lookup time is flushed with the attempt.
Recorded(w, c) ==
    IF c = "clink" THEN [pay EXCEPT !.count["clink"] = 1]
    ELSE [pay EXCEPT !.count["nwc"] = @ + 1, !.said = "other", !.err = "none",
                     !.look = worker[w].snap.look,
                     !.next = now + RetryBase * 2 ^ worker[w].snap.count["nwc"]]

\* _record_nwc_send_attempt and _record_clink_send_attempt
Record(w) ==
    LET c == worker[w].c IN
    /\ At(w, "record")
    /\ IF Recordable(w, c)
       THEN /\ pay' = Recorded(w, c)
            /\ Become(w, [worker[w] EXCEPT !.pc = "send", !.snap = Loaded(Recorded(w, c))])
       ELSE UNCHANGED pay /\ Become(w, Idle)
    /\ UNCHANGED <<now, cred, inv, wallet>>

\* The wallet gets the request and starts or refuses it, or the request is lost.
\* A canceled or paid invoice is refused.
Send(w) ==
    LET c == worker[w].c IN
    /\ At(w, "send")
    /\ \/ UNCHANGED wallet
       \/ wallet' = [wallet EXCEPT ![c] = "failed"]
       \/ inv = "open" /\ wallet' = [wallet EXCEPT ![c] = "executing"]
    /\ Goto(w, "await")
    /\ UNCHANGED <<now, pay, cred, inv>>

SendAnswers(c) ==
    {"error", "unknown"} \cup
    CASE wallet[c] = "none"      -> {}
      [] wallet[c] = "failed"    -> {"rejected", "failed"}
      [] wallet[c] = "executing" -> {"pending", "badproof"}
      [] wallet[c] = "settled"   -> {"settled", "badproof"}

Rejected(w) == IF worker[w].c = "clink" THEN Goto(w, "fallback") ELSE Release(w, worker[w].snap, TRUE)

Sent(w, a) ==
    LET snap == [worker[w].snap EXCEPT !.pre = @ \/ (a = "settled" /\ worker[w].c = "nwc")] IN
    CASE a = "error"    -> Observe(w, snap, Said("other", "soft"), "idle")
      [] a = "badproof" -> Observe(w, snap, Said("other", "blocking"), "idle")
      [] a = "settled"  -> Observe(w, snap, Said("settled", "none"), "check")
      [] a \in {"pending", "failed", "unknown"} -> Observe(w, snap, Said("other", "none"), "check")
      [] a = "rejected" -> Rejected(w)

AwaitTimeoutRejects(w) ==              \* mutant: a send that got no answer counts as refused
    /\ At(w, "await")
    /\ \E a \in SendAnswers(worker[w].c) : Sent(w, IF a = "error" THEN "rejected" ELSE a)
    /\ UNCHANGED <<now, pay, cred, inv, wallet>>

Await(w) ==
    /\ At(w, "await")
    /\ \E a \in SendAnswers(worker[w].c) : Sent(w, a)
    /\ UNCHANGED <<now, pay, cred, inv, wallet>>

-----------------------------------------------------------------------------
(* Results *)

Freed(row, c) == [row EXCEPT !.tok[c] = None, !.until[c] = NoTime]

Saved(w, c) ==
    IF c = "clink" THEN Freed(pay, c)
    ELSE [Freed(pay, c) EXCEPT !.said = worker[w].obs.said, !.err = worker[w].obs.err,
                               !.pre = worker[w].snap.pre, !.look = worker[w].snap.look]

\* _save_nwc_observation and _save_clink_observation: only while the row has the
\* token the session loaded, which may also be none.
Save(w) ==
    LET st == worker[w] IN
    /\ At(w, "observe")
    /\ pay' = IF pay.status = "pending" /\ pay.tok[st.c] = st.snap.tok[st.c]
              THEN Saved(w, st.c) ELSE pay
    /\ IF st.ret = "check" THEN Forget(w, "check") ELSE Become(w, Idle)
    /\ UNCHANGED <<now, cred, inv, wallet>>

CheckBelievesWallet(w) ==              \* mutant: the wallet's word settles the payment
    /\ At(w, "check")
    /\ IF inv = "settled" \/ wallet[worker[w].c] = "executing"
       THEN Forget(w, "finalize") ELSE Become(w, Idle)
    /\ UNCHANGED <<now, pay, cred, inv, wallet>>

\* LND decides whether a wallet's success is one.
Check(w) ==
    /\ At(w, "check")
    /\ IF inv = "settled" THEN Forget(w, "finalize") ELSE Become(w, Idle)
    /\ UNCHANGED <<now, pay, cred, inv, wallet>>

\* _release_failed_nwc_payment and _release_failed_clink_payment: LND is asked
\* once more ...
AskBeforeRelease(w) ==
    LET st == worker[w] IN
    /\ At(w, "release")
    /\ CASE inv = "settled"  -> Forget(w, "finalize")
         [] inv = "accepted" -> Observe(w, st.snap, Said("other", "none"), "idle")
         [] OTHER            -> Goto(w, "fail")
    /\ UNCHANGED <<now, pay, cred, inv, wallet>>

\* ... and the payment fails, if the lease is still there where it is needed.
Fail(w) ==
    LET st == worker[w] IN
    /\ At(w, "fail")
    /\ pay' = IF pay.status = "pending" /\ (st.need => HoldsLease(w, st.c))
              THEN [Freed(pay, st.c) EXCEPT !.status = "failed"] ELSE pay
    /\ Become(w, Idle)
    /\ UNCHANGED <<now, cred, inv, wallet>>

\* _start_nwc_fallback, after CLINK refused.
Fallback(w) ==
    LET st  == worker[w]
        row == [Freed(pay, "clink") EXCEPT !.fallback = TRUE] IN
    /\ At(w, "fallback")
    /\ IF ~cred["nwc"] THEN Release(w, st.snap, st.snap.tok["clink"] # None) /\ UNCHANGED pay
       ELSE IF pay.status = "pending" /\ ~pay.fallback /\ pay.tok["clink"] = st.snap.tok["clink"]
       THEN pay' = row /\ Become(w, [st EXCEPT !.pc = "lnd", !.c = "nwc", !.snap = Loaded(row)])
       ELSE UNCHANGED pay /\ Become(w, Idle)
    /\ UNCHANGED <<now, cred, inv, wallet>>

\* _lnd_invoice_state raises PaymentProviderError, or the process stops.  The
\* lease stays on the row.
Stop(w) ==
    /\ ~At(w, "idle")
    /\ Become(w, Idle)
    /\ UNCHANGED <<now, pay, cred, inv, wallet>>

-----------------------------------------------------------------------------
(* The customer, the wallets, LND and the clock *)

\* The customer disconnects or replaces a wallet.
ReplaceCredential(c) ==
    /\ cred[c]
    /\ cred' = [cred EXCEPT ![c] = FALSE]
    /\ UNCHANGED <<now, pay, inv, wallet, worker>>

WalletPays(c) ==
    /\ wallet[c] = "executing"
    /\ inv \in {"open", "accepted"}
    /\ inv' = "settled"
    /\ wallet' = [wallet EXCEPT ![c] = "settled"]
    /\ UNCHANGED <<now, pay, cred, worker>>

WalletReaches(c) ==
    /\ wallet[c] = "executing"
    /\ inv = "open"
    /\ inv' = "accepted"
    /\ UNCHANGED <<now, pay, cred, wallet, worker>>

WalletFails(c) ==
    /\ wallet[c] = "executing"
    /\ inv # "accepted"
    /\ wallet' = [wallet EXCEPT ![c] = "failed"]
    /\ UNCHANGED <<now, pay, cred, inv, worker>>

\* LND cancels an unpaid invoice at its expiry, and a held one at any time.
LndCancels ==
    /\ \/ inv = "open" /\ now >= InvoiceTime
       \/ inv = "accepted"
    /\ inv' = "canceled"
    /\ UNCHANGED <<now, pay, cred, wallet, worker>>

\* A session calls the wallet right after it recorded the attempt.
Tick ==
    /\ now < MaxTime
    /\ \A w \in Workers : ~At(w, "send")
    /\ now' = now + 1
    /\ UNCHANGED <<pay, cred, inv, wallet, worker>>

-----------------------------------------------------------------------------
Step(w) ==
    \/ AskLnd(w) \/ Finalize(w) \/ Claim(w) \/ Lookup(w) \/ Record(w) \/ Send(w)
    \/ Await(w) \/ Save(w) \/ Check(w) \/ AskBeforeRelease(w) \/ Fail(w) \/ Fallback(w)

Environment ==
    \/ \E c \in Channels : ReplaceCredential(c) \/ WalletPays(c) \/ WalletReaches(c) \/ WalletFails(c)
    \/ LndCancels
    \/ Tick

\* Nobody has anything left to do.
Done ==
    /\ pay.status # "pending"
    /\ now = MaxTime
    /\ UNCHANGED vars

Next == Environment \/ Done \/ \E w \in Workers : Start(w) \/ Step(w) \/ Stop(w)

Spec == Init /\ [][Next]_vars

-----------------------------------------------------------------------------
(* Properties *)

\* No wallet is asked to pay while it, or the other wallet, executes or has
\* executed an earlier request: not after a timeout, a crash, a lost lease, or
\* a fallback from CLINK to NWC.  CLINK is not asked again even after a refusal.
SendsOnlyWhenQuiet ==
    [][\A w \in Workers : At(w, "send") /\ worker'[w].pc = "await" =>
           /\ \A c \in Channels : wallet[c] \notin {"executing", "settled"}
           /\ worker[w].c = "clink" => wallet["clink"] = "none"]_vars

\* A payment that is given up, which frees its resource and stops renewal, is
\* never received afterwards.
FailedIsNotReceived ==
    pay.status = "failed" =>
        inv # "settled" /\ (inv # "canceled" => \A c \in Channels : wallet[c] # "executing")

\* A payment is paid only when LND received it, whatever the wallets say.
PaidWasReceived == pay.status = "paid" => inv = "settled"

=============================================================================
