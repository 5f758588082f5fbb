-------------------------- MODULE WalletSendsProofs --------------------------
(* Proofs about paying one invoice from the customer's wallet, for any number *)
(* of sessions, any limits and any lease, lookup and expiry times.           *)
EXTENDS WalletSends, TLAPS

\* The times a retry may be scheduled for.
RetryTimes == {NoTime} \cup {t + RetryBase * 2 ^ n : t \in Nat, n \in Nat}
Row == [method : Channels, status : {"pending", "paid", "failed"}, fallback : BOOLEAN,
        tok : [Channels -> Workers \cup {None}], until : [Channels -> Time],
        count : [Channels -> Nat], said : {"none", "settled", "other"},
        err : {"none", "soft", "blocking"}, pre : BOOLEAN, look : Time, next : RetryTimes]
Session == [pc : Steps, c : Channels, snap : Row, need : BOOLEAN,
            obs : Saying, ret : {"idle", "check"}]

Types ==
    /\ now \in Nat
    /\ pay \in Row
    /\ cred \in [Channels -> BOOLEAN]
    /\ inv \in {"open", "accepted", "settled", "canceled"}
    /\ wallet \in [Channels -> {"none", "executing", "failed", "settled"}]
    /\ worker \in [Workers -> Session]

Quiet == \A c \in Channels : wallet[c] \notin {"executing", "settled"}
NobodySends == \A w \in Workers : worker[w].pc # "send"
\* Between the only CLINK attempt and what its answer leads to.
Clinking(st) == st.c = "clink" /\ st.pc \in {"send", "await", "fallback"}

\* What the row, the invoice and the wallets say of each other.
Agreement ==
    /\ pay.method = "nwc" => ~pay.fallback /\ wallet["clink"] = "none"
    /\ pay.method = "clink" /\ ~pay.fallback => wallet["nwc"] = "none" /\ pay.count["nwc"] = 0
    /\ pay.fallback => pay.count["clink"] # 0 /\ wallet["clink"] = "failed" /\ pay.tok["clink"] = None
    /\ \A c \in Channels : pay.count[c] = 0 => wallet[c] = "none"
    /\ inv = "settled" => \E c \in Channels : wallet[c] = "settled"
    /\ inv = "accepted" => \E c \in Channels : wallet[c] = "executing"
    /\ pay.status = "paid" => inv = "settled"
    /\ pay.status = "failed" => inv = "canceled" \/ (inv = "open" /\ Quiet /\ NobodySends)

\* A session is on the channel that is in use.
OnChannel(st) ==
    /\ pay.method = "nwc" => st.c = "nwc"
    /\ pay.method = "clink" /\ ~pay.fallback => st.pc = "idle" \/ st.c = "clink"
    /\ st.pc = "lnd" /\ st.snap.fallback => pay.fallback
    /\ Clinking(st) => ~pay.fallback /\ pay.count["clink"] # 0
    /\ Clinking(st) /\ st.pc = "send" => wallet["clink"] = "none"
    /\ st.pc = "fallback" => st.c = "clink" /\ wallet["clink"] = "failed"
    /\ st.pc = "lookup" => st.c = "nwc"
    /\ st.pc \in {"send", "await"} => pay.count[st.c] # 0

\* A session that may send, or may give up for want of a lease, loaded its own
\* token; one with the token of another knows that the invoice is not open.
Token(w, st) ==
    /\ st.pc \in {"lookup", "record", "send", "await", "fallback"} => st.snap.tok[st.c] = w
    /\ st.pc \in {"observe", "release", "fail"} => st.snap.tok[st.c] = w \/ inv # "open"
    /\ st.pc \in {"release", "fail"} => IF st.need THEN st.snap.tok[st.c] = w ELSE inv = "canceled"

\* What holds of the wallets when a session is about to act on them, as long as
\* its lease is on the row.
Warranted(w, st) ==
    /\ st.pc = "send" => Quiet
    /\ st.pc = "send" /\ inv = "open" => pay.tok[st.c] = w /\ pay.until[st.c] > now
    /\ st.pc = "record" /\ st.c = "nwc" /\ pay.tok["nwc"] = w =>
        Quiet /\ (inv = "open" => NobodySends)
    /\ st.pc \in {"release", "fail"} /\ st.need /\ pay.tok[st.c] = w =>
        inv = "canceled" \/ (Quiet /\ NobodySends)
    /\ st.pc = "finalize" => inv = "settled"

Fits(w, st) == OnChannel(st) /\ Token(w, st) /\ Warranted(w, st)

WalletInv ==
    /\ Types
    /\ Agreement
    /\ \A w \in Workers : Fits(w, worker[w])
    /\ \A v, w \in Workers : Clinking(worker[v]) /\ Clinking(worker[w]) => v = w
-----------------------------------------------------------------------------
(* What the updates of the row leave. *)

\* A new row has its type.
LEMMA NewPayType ==
    ASSUME NEW m \in Channels
    PROVE  /\ NewPay(m) \in Row
           /\ NewPay(m).method = m /\ NewPay(m).status = "pending" /\ NewPay(m).fallback = FALSE
           /\ \A c \in Channels : NewPay(m).count[c] = 0
           /\ NewPay(m).until \in [Channels -> Time]
  BY DEF NewPay, Row, Channels, Time, NoTime, RetryTimes

\* An idle session has its type.
LEMMA IdleType == Idle \in Session /\ Idle.pc = "idle" /\ Idle.c = "nwc"
  BY Zenon, NewPayType DEF Idle, Session, Steps, Channels, Saying, Said

\* A session remembers the tokens, the counts and the fallback of the row.
LEMMA LoadedType ==
    ASSUME NEW row \in Row
    PROVE  /\ Loaded(row) \in Row
           /\ Loaded(row).tok = row.tok /\ Loaded(row).count = row.count
           /\ Loaded(row).fallback = row.fallback
  <1>1. row.method \in Channels
    BY Zenon DEF Row
  <1>2. NewPay(row.method).until \in [Channels -> Time]
    BY Zenon, <1>1, NewPayType
  <1> QED
    BY Zenon, <1>2 DEF Loaded, Row

\* A claim sets one channel's token and its end, and nothing else.
LEMMA LeasedType ==
    ASSUME Types, NEW w \in Workers, NEW c \in Channels
    PROVE  /\ Leased(w, c) \in Row
           /\ Leased(w, c).method = pay.method /\ Leased(w, c).status = pay.status
           /\ Leased(w, c).fallback = pay.fallback /\ Leased(w, c).count = pay.count
           /\ Leased(w, c).tok[c] = w
           /\ \A d \in Channels \ {c} : /\ Leased(w, c).tok[d] = pay.tok[d]
                                        /\ Leased(w, c).until[d] = pay.until[d]
  <1>1. now + LeaseTime \in Time
    BY WalletAssumption DEF Types, Time
  <1> QED
    BY Zenon, <1>1 DEF Types, Leased, Row

\* A release clears one channel's token and its end, and nothing else.
LEMMA FreedType ==
    ASSUME NEW row \in Row, NEW c \in Channels
    PROVE  /\ Freed(row, c) \in Row
           /\ Freed(row, c).method = row.method /\ Freed(row, c).status = row.status
           /\ Freed(row, c).fallback = row.fallback /\ Freed(row, c).count = row.count
           /\ Freed(row, c).tok[c] = None
           /\ \A d \in Channels \ {c} : /\ Freed(row, c).tok[d] = row.tok[d]
                                        /\ Freed(row, c).until[d] = row.until[d]
  BY Zenon DEF Freed, Row, Time

\* So does saving an observation, as far as the lease and the attempts go.
LEMMA SavedType ==
    ASSUME Types, NEW w \in Workers, NEW c \in Channels
    PROVE  /\ Saved(w, c) \in Row
           /\ Saved(w, c).method = pay.method /\ Saved(w, c).status = pay.status
           /\ Saved(w, c).fallback = pay.fallback /\ Saved(w, c).count = pay.count
           /\ Saved(w, c).tok[c] = None
           /\ \A d \in Channels \ {c} : /\ Saved(w, c).tok[d] = pay.tok[d]
                                        /\ Saved(w, c).until[d] = pay.until[d]
  <1>1. pay \in Row /\ worker[w] \in Session
    BY Zenon DEF Types
  <1>2. /\ worker[w].obs.said \in {"none", "settled", "other"}
        /\ worker[w].obs.err \in {"none", "soft", "blocking"}
        /\ worker[w].snap.pre \in BOOLEAN /\ worker[w].snap.look \in Time
    BY Zenon, <1>1 DEF Session, Saying, Row
  <1>3. Freed(pay, c) \in Row
    BY Zenon, <1>1, FreedType
  <1> DEFINE s == [Freed(pay, c) EXCEPT !.said = worker[w].obs.said, !.err = worker[w].obs.err,
                                        !.pre = worker[w].snap.pre, !.look = worker[w].snap.look]
  <1>4. /\ s \in Row /\ s.method = Freed(pay, c).method /\ s.status = Freed(pay, c).status
        /\ s.fallback = Freed(pay, c).fallback /\ s.count = Freed(pay, c).count
        /\ s.tok = Freed(pay, c).tok /\ s.until = Freed(pay, c).until
    BY Zenon, <1>2, <1>3 DEF Row
  <1>5. Saved(w, c) = IF c = "clink" THEN Freed(pay, c) ELSE s
    BY Zenon DEF Saved
  <1> HIDE DEF s
  <1> QED
    BY <1>1, <1>3, <1>4, <1>5, FreedType

\* Recording an attempt raises one channel's count and leaves the leases.
LEMMA RecordedType ==
    ASSUME Types, NEW w \in Workers, NEW c \in Channels
    PROVE  /\ Recorded(w, c) \in Row
           /\ Recorded(w, c).method = pay.method /\ Recorded(w, c).status = pay.status
           /\ Recorded(w, c).fallback = pay.fallback
           /\ Recorded(w, c).tok = pay.tok /\ Recorded(w, c).until = pay.until
           /\ Recorded(w, c).count[c] # 0
           /\ \A d \in Channels \ {c} : Recorded(w, c).count[d] = pay.count[d]
  <1>1. pay \in Row /\ worker[w].snap \in Row /\ now \in Nat
    BY Zenon DEF Types, Session
  <1>2. worker[w].snap.look \in Time /\ worker[w].snap.count["nwc"] \in Nat
    BY Zenon, <1>1 DEF Row, Channels
  <1>3. now + RetryBase * 2 ^ worker[w].snap.count["nwc"] \in RetryTimes
    BY <1>1, <1>2 DEF RetryTimes
  <1> DEFINE n == now + RetryBase * 2 ^ worker[w].snap.count["nwc"]
  <1>4. CASE c = "clink"
    BY <1>1, <1>4 DEF Recorded, Row, Channels
  <1>5. CASE c = "nwc"
    <2>1. Recorded(w, c) = [pay EXCEPT !.count["nwc"] = @ + 1, !.said = "other", !.err = "none",
                                       !.look = worker[w].snap.look, !.next = n]
      BY Zenon, <1>5 DEF Recorded
    <2>2. n \in RetryTimes
      BY Zenon, <1>3
    <2> DEFINE k == [pay.count EXCEPT !["nwc"] = @ + 1]
    <2>3. k \in [Channels -> Nat] /\ k["nwc"] # 0 /\ k["clink"] = pay.count["clink"]
      BY <1>1 DEF Row, Channels
    <2> HIDE DEF n
    <2>4. Recorded(w, c) = [pay EXCEPT !.count = k, !.said = "other", !.err = "none",
                                       !.look = worker[w].snap.look, !.next = n]
      BY Zenon, <1>1, <2>1 DEF Row
    <2> HIDE DEF k
    <2>5. Recorded(w, c) \in Row
      BY ZenonT(30), <1>1, <1>2, <2>2, <2>3, <2>4 DEF Row
    <2>6. /\ Recorded(w, c).method = pay.method /\ Recorded(w, c).status = pay.status
          /\ Recorded(w, c).fallback = pay.fallback /\ Recorded(w, c).count = k
          /\ Recorded(w, c).tok = pay.tok /\ Recorded(w, c).until = pay.until
      BY Zenon, <1>1, <2>4 DEF Row
    <2> QED
      BY Zenon, <1>5, <2>3, <2>5, <2>6 DEF Channels
  <1> QED
    BY Zenon, <1>4, <1>5 DEF Channels

-----------------------------------------------------------------------------
(* Steps that change only the session. *)

\* An idle session fits every state.
LEMMA IdleFits ==
    ASSUME NEW w
    PROVE  Fits(w, Idle) /\ Fits(w, Idle)' /\ ~Clinking(Idle)
  BY Zenon, IdleType DEF Fits, OnChannel, Token, Warranted, Clinking

\* A session that moves to a state that fits, and neither starts to send nor
\* takes the CLINK attempt from another, keeps the invariant.
LEMMA Moves ==
    ASSUME WalletInv, NEW w \in Workers, NEW st \in Session, Become(w, st),
           UNCHANGED <<now, pay, cred, inv, wallet>>, Fits(w, st),
           st.pc # "send", Clinking(st) => Clinking(worker[w])
    PROVE  WalletInv'
  <1>1. worker \in [Workers -> Session]
    BY Zenon DEF WalletInv, Types
  <1>2. worker' \in [Workers -> Session] /\ worker'[w] = st
        /\ \A v \in Workers \ {w} : worker'[v] = worker[v]
    BY Zenon, <1>1 DEF Become
  <1>3. NobodySends => NobodySends'
    BY Zenon, <1>2 DEF NobodySends
  <1>4. Quiet' = Quiet
    BY Zenon DEF Quiet
  <1>5. Types' /\ Agreement'
    BY Zenon, <1>2, <1>3, <1>4 DEF WalletInv, Types, Agreement
  <1>6. ASSUME NEW v \in Workers PROVE Fits(v, worker[v])'
    <2>1. Fits(v, worker'[v])
      BY Zenon, <1>2 DEF WalletInv
    <2>2. OnChannel(worker[v])'
      BY Zenon, <2>1 DEF Fits, OnChannel, Clinking
    <2>3. Token(v, worker[v])'
      BY Zenon, <2>1 DEF Fits, Token
    <2>4. Warranted(v, worker[v])'
      BY Zenon, <1>3, <1>4, <2>1 DEF Fits, Warranted
    <2> QED
      BY Zenon, <2>2, <2>3, <2>4 DEF Fits
  <1>7. ASSUME NEW u \in Workers, NEW v \in Workers, Clinking(worker[u])', Clinking(worker[v])'
        PROVE  u = v
    BY Zenon, <1>2, <1>7 DEF WalletInv, Clinking
  <1> QED
    BY Zenon, <1>5, <1>6, <1>7 DEF WalletInv

\* A session may always stop.
LEMMA Idles ==
    ASSUME WalletInv, NEW w \in Workers, Become(w, Idle), UNCHANGED <<now, pay, cred, inv, wallet>>
    PROVE  WalletInv'
  BY Zenon, Moves, IdleType, IdleFits

\* A session may forget the row: to claim a lease, to ask LND about a success,
\* and to finalize a payment that LND received.
LEMMA Forgets ==
    ASSUME WalletInv, NEW w \in Workers, NEW pc \in {"claim", "check", "finalize"},
           ~At(w, "idle"), pc = "finalize" => inv = "settled",
           Forget(w, pc), UNCHANGED <<now, pay, cred, inv, wallet>>
    PROVE  WalletInv'
  <1> DEFINE st == [Idle EXCEPT !.pc = pc, !.c = worker[w].c]
  <1>1. worker[w].c \in Channels /\ pc \in Steps
    BY Zenon DEF WalletInv, Types, Session, Steps
  <1>2. st \in Session /\ st.pc = pc /\ st.c = worker[w].c
    BY Zenon, <1>1, IdleType DEF Session
  <1>3. Become(w, st)
    BY Zenon DEF Forget
  <1>4. Fits(w, worker[w])
    BY Zenon DEF WalletInv
  <1> HIDE DEF st
  <1>5. Fits(w, st) /\ ~Clinking(st)
    BY Zenon, <1>2, <1>4 DEF Fits, OnChannel, Token, Warranted, Clinking, At
  <1> QED
    BY Zenon, <1>2, <1>3, <1>5, Moves

\* A session may save an observation with its own token, or once the invoice is
\* not open.
LEMMA Observes ==
    ASSUME WalletInv, NEW w \in Workers, ~At(w, "idle"),
           NEW snap \in Row, snap.tok = worker[w].snap.tok,
           NEW obs \in Saying, NEW ret \in {"idle", "check"},
           worker[w].snap.tok[worker[w].c] = w \/ inv # "open",
           Observe(w, snap, obs, ret), UNCHANGED <<now, pay, cred, inv, wallet>>
    PROVE  WalletInv'
  <1> DEFINE st == [worker[w] EXCEPT !.pc = "observe", !.snap = snap, !.obs = obs, !.ret = ret]
  <1>1. worker[w] \in Session
    BY Zenon DEF WalletInv, Types
  <1>2. st \in Session /\ st.pc = "observe" /\ st.c = worker[w].c /\ st.snap = snap
    BY Zenon, <1>1 DEF Session, Steps
  <1>3. Become(w, st)
    BY Zenon DEF Observe
  <1>4. Fits(w, worker[w])
    BY Zenon DEF WalletInv
  <1> HIDE DEF st
  <1>5. Fits(w, st) /\ ~Clinking(st)
    BY Zenon, <1>2, <1>4 DEF Fits, OnChannel, Token, Warranted, Clinking, At
  <1> QED
    BY Zenon, <1>2, <1>3, <1>5, Moves

\* A session may give up once the invoice is canceled, and with its own token
\* if the wallets are quiet as long as the lease is there.
LEMMA Releases ==
    ASSUME WalletInv, NEW w \in Workers, ~At(w, "idle"),
           NEW snap \in Row, snap.tok = worker[w].snap.tok, NEW need \in BOOLEAN,
           IF need THEN /\ worker[w].snap.tok[worker[w].c] = w
                        /\ pay.tok[worker[w].c] = w => inv = "canceled" \/ (Quiet /\ NobodySends)
                   ELSE inv = "canceled",
           Release(w, snap, need), UNCHANGED <<now, pay, cred, inv, wallet>>
    PROVE  WalletInv'
  <1> DEFINE st == [worker[w] EXCEPT !.pc = "release", !.snap = snap, !.need = need]
  <1>1. worker[w] \in Session
    BY Zenon DEF WalletInv, Types
  <1>2. st \in Session /\ st.pc = "release" /\ st.c = worker[w].c /\ st.snap = snap /\ st.need = need
    BY Zenon, <1>1 DEF Session, Steps
  <1>3. Become(w, st)
    BY Zenon DEF Release
  <1>4. Fits(w, worker[w])
    BY Zenon DEF WalletInv
  <1> HIDE DEF st
  <1>5. Fits(w, st) /\ ~Clinking(st)
    BY Zenon, <1>2, <1>4 DEF Fits, OnChannel, Token, Warranted, Clinking, At
  <1> QED
    BY Zenon, <1>2, <1>3, <1>5, Moves

\* A session that is on NWC is there without a CLINK attempt under way.
LEMMA AloneOnNwc ==
    ASSUME WalletInv, NEW w \in Workers, ~At(w, "idle"), worker[w].c = "nwc"
    PROVE  /\ wallet["clink"] \in {"none", "failed"}
           /\ \A v \in Workers : ~Clinking(worker[v])
  <1>1. pay.method \in Channels /\ pay.fallback \in BOOLEAN
    BY Zenon DEF WalletInv, Types, Row
  <1>2. \A v \in Workers : OnChannel(worker[v])
    BY Zenon DEF WalletInv, Fits
  <1>3. CASE pay.method = "nwc"
    BY Zenon, <1>2, <1>3 DEF WalletInv, Agreement, OnChannel, Clinking
  <1>4. CASE pay.method = "clink"
    BY Zenon, <1>1, <1>2, <1>4 DEF WalletInv, Agreement, OnChannel, At
  <1> QED
    BY Zenon, <1>1, <1>3, <1>4 DEF Channels

\* The holder of the NWC lease that finds no request in its wallet is alone.
LEMMA HolderAlone ==
    ASSUME WalletInv, NEW w \in Workers, ~At(w, "idle"), worker[w].c = "nwc", ~At(w, "send"),
           wallet["nwc"] \in {"none", "failed"}
    PROVE  /\ Quiet
           /\ inv \in {"open", "canceled"}
           /\ pay.tok["nwc"] = w /\ inv = "open" => NobodySends
  <1>1. Quiet
    BY Zenon, AloneOnNwc DEF Quiet, Channels
  <1>2. inv \in {"open", "canceled"}
    BY Zenon, <1>1 DEF WalletInv, Types, Agreement, Quiet
  <1>3. ASSUME pay.tok["nwc"] = w, inv = "open", NEW v \in Workers, worker[v].pc = "send"
        PROVE  FALSE
    <2>1. ~Clinking(worker[v]) /\ worker[v].c \in Channels
      BY Zenon, AloneOnNwc DEF WalletInv, Types, Session
    <2>2. worker[v].c = "nwc"
      BY Zenon, <1>3, <2>1 DEF Clinking, Channels
    <2>3. pay.tok["nwc"] = v
      BY Zenon, <1>3, <2>2 DEF WalletInv, Fits, Warranted
    <2> QED
      BY Zenon, <1>3, <2>3 DEF At
  <1> QED
    BY Zenon, <1>1, <1>2, <1>3 DEF NobodySends

\* A reconciliation starts on the method of the row.
LEMMA StartKeeps ==
    ASSUME WalletInv, NEW w \in Workers, Start(w)
    PROVE  WalletInv'
  <1> DEFINE st == [Idle EXCEPT !.pc = "lnd", !.c = pay.method, !.snap = Loaded(pay)]
  <1>1. pay \in Row /\ pay.method \in Channels
    BY Zenon DEF WalletInv, Types, Row
  <1>2. Loaded(pay) \in Row /\ Loaded(pay).fallback = pay.fallback
    BY Zenon, <1>1, LoadedType
  <1>3. st \in Session /\ st.pc = "lnd" /\ st.c = pay.method /\ st.snap = Loaded(pay)
    BY Zenon, <1>1, <1>2, IdleType DEF Session, Steps
  <1>4. Become(w, st) /\ UNCHANGED <<now, pay, cred, inv, wallet>>
    BY Zenon DEF Start
  <1> HIDE DEF st
  <1>5. Fits(w, st) /\ ~Clinking(st)
    BY Zenon, <1>1, <1>2, <1>3 DEF Fits, OnChannel, Token, Warranted, Clinking
  <1> QED
    BY Zenon, <1>3, <1>4, <1>5, Moves

\* The first question to LND.
LEMMA AskLndKeeps ==
    ASSUME WalletInv, NEW w \in Workers, AskLnd(w)
    PROVE  WalletInv'
  <1> DEFINE st == worker[w]
  <1>1. st \in Session /\ st.snap \in Row /\ st.pc = "lnd" /\ ~At(w, "idle")
        /\ UNCHANGED <<now, pay, cred, inv, wallet>>
    BY Zenon DEF WalletInv, Types, Session, AskLnd, At
  <1>2. CASE inv = "settled"
    <2>1. Forget(w, "finalize")
      BY Zenon, <1>2 DEF AskLnd
    <2> QED
      BY Zenon, <1>1, <1>2, <2>1, Forgets
  <1>3. CASE inv = "canceled"
    <2>1. Release(w, st.snap, FALSE)
      BY Zenon, <1>3 DEF AskLnd
    <2> QED
      BY Zenon, <1>1, <1>3, <2>1, Releases
  <1>4. CASE inv = "accepted"
    <2>1. Observe(w, st.snap, Said("other", "none"), "idle") /\ Said("other", "none") \in Saying
      BY Zenon, <1>4 DEF AskLnd, Said, Saying
    <2> QED
      BY Zenon, <1>1, <1>4, <2>1, Observes
  <1>5. CASE inv = "open"
    <2>1. Unpaid(w)
      BY Zenon, <1>5 DEF AskLnd
    <2>2. CASE Become(w, Idle)
      BY Zenon, <1>1, <2>2, Idles
    <2>3. CASE Forget(w, "claim")
      BY Zenon, <1>1, <2>3, Forgets
    <2>4. CASE st.c = "clink" /\ st.snap.fallback /\ Become(w, [st EXCEPT !.c = "nwc"])
      <3> DEFINE t == [st EXCEPT !.c = "nwc"]
      <3>1. t \in Session /\ t.pc = "lnd" /\ t.c = "nwc"
        BY Zenon, <1>1 DEF Session, Channels
      <3>2. Fits(w, st)
        BY Zenon DEF WalletInv
      <3>3. pay.fallback
        BY Zenon, <1>1, <2>4, <3>2 DEF Fits, OnChannel
      <3>4. Become(w, t)
        BY Zenon, <2>4
      <3> HIDE DEF t
      <3>5. Fits(w, t) /\ ~Clinking(t)
        BY Zenon, <3>1, <3>3 DEF Fits, OnChannel, Token, Warranted, Clinking
      <3> QED
        BY Zenon, <1>1, <3>1, <3>4, <3>5, Moves
    <2> QED
      BY Zenon, <2>1, <2>2, <2>3, <2>4 DEF Unpaid
  <1> QED
    BY Zenon, <1>2, <1>3, <1>4, <1>5 DEF WalletInv, Types

\* LND's word on a success.
LEMMA CheckKeeps ==
    ASSUME WalletInv, NEW w \in Workers, Check(w)
    PROVE  WalletInv'
  BY Zenon, Idles, Forgets DEF Check, At

\* The second question to LND, before a payment is given up.
LEMMA AskBeforeReleaseKeeps ==
    ASSUME WalletInv, NEW w \in Workers, AskBeforeRelease(w)
    PROVE  WalletInv'
  <1> DEFINE st == worker[w]
  <1>1. st \in Session /\ st.snap \in Row /\ st.pc = "release" /\ ~At(w, "idle")
        /\ UNCHANGED <<now, pay, cred, inv, wallet>>
    BY Zenon DEF WalletInv, Types, Session, AskBeforeRelease, At
  <1>2. CASE inv = "settled"
    <2>1. Forget(w, "finalize")
      BY Zenon, <1>2 DEF AskBeforeRelease
    <2> QED
      BY Zenon, <1>1, <1>2, <2>1, Forgets
  <1>3. CASE inv = "accepted"
    <2>1. Observe(w, st.snap, Said("other", "none"), "idle") /\ Said("other", "none") \in Saying
      BY Zenon, <1>3 DEF AskBeforeRelease, Said, Saying
    <2> QED
      BY Zenon, <1>1, <1>3, <2>1, Observes
  <1>4. CASE inv \notin {"settled", "accepted"}
    <2> DEFINE t == [st EXCEPT !.pc = "fail"]
    <2>1. Become(w, t)
      BY Zenon, <1>4 DEF AskBeforeRelease, Goto
    <2>2. t \in Session /\ t.pc = "fail" /\ t.c = st.c /\ t.snap = st.snap /\ t.need = st.need
      BY Zenon, <1>1 DEF Session, Steps
    <2>3. Fits(w, st)
      BY Zenon DEF WalletInv
    <2> HIDE DEF t
    <2>4. Fits(w, t) /\ ~Clinking(t)
      BY Zenon, <1>1, <2>2, <2>3 DEF Fits, OnChannel, Token, Warranted, Clinking
    <2> QED
      BY Zenon, <1>1, <2>1, <2>2, <2>4, Moves
  <1> QED
    BY Zenon, <1>2, <1>3, <1>4

\* A lookup leads to a new attempt, or to giving up, only when the wallet has
\* no request.
LEMMA LookupKeeps ==
    ASSUME WalletInv, NEW w \in Workers, Lookup(w)
    PROVE  WalletInv'
  <1> DEFINE st == worker[w]
  <1>1. st \in Session /\ st.snap \in Row /\ st.pc = "lookup" /\ ~At(w, "idle") /\ ~At(w, "send")
        /\ UNCHANGED <<now, pay, cred, inv, wallet>>
    BY Zenon DEF WalletInv, Types, Session, Lookup, At
  <1>2. Fits(w, st)
    BY Zenon DEF WalletInv
  <1>3. st.c = "nwc" /\ st.snap.tok[st.c] = w
    BY Zenon, <1>1, <1>2 DEF Fits, OnChannel, Token
  <1>4. PICK a \in LookupAnswers(st.c) : LookedUp(w, a)
    BY Zenon DEF Lookup
  <1> DEFINE snap == [st.snap EXCEPT !.look = now, !.pre = @ \/ a = "settled"]
  <1>5. now \in Time
    BY Zenon DEF WalletInv, Types, Time
  <1>6. snap \in Row /\ snap.tok = st.snap.tok
    BY Zenon, <1>1, <1>5 DEF Row
  <1>7. \A x \in {"settled", "other"}, e \in {"none", "soft", "blocking"} : Said(x, e) \in Saying
    BY Zenon DEF Said, Saying
  <1>8. \/ \E obs \in Saying, ret \in {"idle", "check"} : Observe(w, snap, obs, ret)
        \/ a = "absent" /\ Release(w, snap, TRUE)
        \/ a = "absent" /\ Become(w, [st EXCEPT !.pc = "record", !.snap = snap])
    <2>1. a \in {"error", "unknown", "absent", "pending", "badproof", "settled"}
      BY Zenon, <1>3 DEF LookupAnswers, WalletInv, Types, Channels
    <2>2. CASE a = "absent"
      <3>1. Absent(w, snap, RetryBlocked(st.snap))
        BY Zenon, <1>4, <2>2 DEF LookedUp
      <3> HIDE DEF snap
      <3> QED
        BY Zenon, <1>7, <2>2, <3>1 DEF Absent
    <2>3. CASE a # "absent"
      <3>1. \E x \in {"settled", "other"}, e \in {"none", "soft", "blocking"}, ret \in {"idle", "check"} :
               Observe(w, snap, Said(x, e), ret)
        BY Zenon, <1>4, <2>1, <2>3 DEF LookedUp
      <3> QED
        BY Zenon, <1>7, <3>1
    <2> QED
      BY Zenon, <2>2, <2>3
  <1> HIDE DEF snap
  <1>9. ASSUME NEW obs \in Saying, NEW ret \in {"idle", "check"}, Observe(w, snap, obs, ret)
        PROVE  WalletInv'
    BY Zenon, <1>1, <1>3, <1>6, <1>9, Observes
  <1>10. ASSUME a = "absent" PROVE wallet["nwc"] \in {"none", "failed"}
    BY Zenon, <1>3, <1>4, <1>10 DEF LookupAnswers, WalletInv, Types, Channels
  <1>11. CASE a = "absent" /\ Release(w, snap, TRUE)
    <2>1. pay.tok[st.c] = w => inv = "canceled" \/ (Quiet /\ NobodySends)
      BY Zenon, <1>1, <1>3, <1>10, <1>11, HolderAlone
    <2> QED
      BY Zenon, <1>1, <1>3, <1>6, <1>11, <2>1, Releases
  <1>12. CASE a = "absent" /\ Become(w, [st EXCEPT !.pc = "record", !.snap = snap])
    <2> DEFINE t == [st EXCEPT !.pc = "record", !.snap = snap]
    <2>1. t \in Session /\ t.pc = "record" /\ t.c = st.c /\ t.snap = snap
      BY Zenon, <1>1, <1>6 DEF Session, Steps
    <2>2. Become(w, t)
      BY Zenon, <1>12
    <2>3. Quiet /\ (pay.tok["nwc"] = w /\ inv = "open" => NobodySends)
      BY Zenon, <1>1, <1>3, <1>10, <1>12, HolderAlone
    <2> HIDE DEF t
    <2>4. Fits(w, t) /\ ~Clinking(t)
      BY Zenon, <1>1, <1>2, <1>3, <1>6, <2>1, <2>3 DEF Fits, OnChannel, Token, Warranted, Clinking
    <2> QED
      BY Zenon, <1>1, <2>1, <2>2, <2>4, Moves
  <1> QED
    BY Zenon, <1>8, <1>9, <1>11, <1>12

\* Only a refusal by the wallet leads to the fallback, or to giving up.
LEMMA AwaitKeeps ==
    ASSUME WalletInv, NEW w \in Workers, Await(w)
    PROVE  WalletInv'
  <1> DEFINE st == worker[w]
  <1>1. st \in Session /\ st.snap \in Row /\ st.pc = "await" /\ ~At(w, "idle") /\ ~At(w, "send")
        /\ UNCHANGED <<now, pay, cred, inv, wallet>>
    BY Zenon DEF WalletInv, Types, Session, Await, At
  <1>2. Fits(w, st) /\ st.c \in Channels
    BY Zenon, <1>1 DEF WalletInv, Session
  <1>3. st.snap.tok[st.c] = w
    BY Zenon, <1>1, <1>2 DEF Fits, Token
  <1>4. PICK a \in SendAnswers(st.c) : Sent(w, a)
    BY Zenon DEF Await
  <1> DEFINE snap == [st.snap EXCEPT !.pre = @ \/ (a = "settled" /\ st.c = "nwc")]
  <1>5. snap \in Row /\ snap.tok = st.snap.tok
    BY Zenon, <1>1 DEF Row
  <1>6. \A x \in {"settled", "other"}, e \in {"none", "soft", "blocking"} : Said(x, e) \in Saying
    BY Zenon DEF Said, Saying
  <1>7. \/ \E obs \in Saying, ret \in {"idle", "check"} : Observe(w, snap, obs, ret)
        \/ a = "rejected" /\ Rejected(w)
    <2>1. a \in {"error", "unknown", "rejected", "failed", "pending", "badproof", "settled"}
      BY Zenon, <1>2 DEF SendAnswers, WalletInv, Types
    <2>2. CASE a = "rejected"
      BY Zenon, <1>4, <2>2 DEF Sent
    <2>3. CASE a # "rejected"
      <3>1. \E x \in {"settled", "other"}, e \in {"none", "soft", "blocking"}, ret \in {"idle", "check"} :
               Observe(w, snap, Said(x, e), ret)
        BY Zenon, <1>4, <2>1, <2>3 DEF Sent
      <3> QED
        BY Zenon, <1>6, <3>1
    <2> QED
      BY Zenon, <2>2, <2>3
  <1> HIDE DEF snap
  <1>8. ASSUME NEW obs \in Saying, NEW ret \in {"idle", "check"}, Observe(w, snap, obs, ret)
        PROVE  WalletInv'
    BY Zenon, <1>1, <1>3, <1>5, <1>8, Observes
  <1>9. CASE a = "rejected" /\ Rejected(w)
    <2>1. wallet[st.c] = "failed"
      BY Zenon, <1>2, <1>4, <1>9 DEF SendAnswers, WalletInv, Types
    <2>2. CASE st.c = "clink"
      <3> DEFINE t == [st EXCEPT !.pc = "fallback"]
      <3>1. t \in Session /\ t.pc = "fallback" /\ t.c = "clink" /\ t.snap = st.snap
        BY Zenon, <1>1, <2>2 DEF Session, Steps
      <3>2. Become(w, t)
        BY Zenon, <1>9, <2>2 DEF Rejected, Goto
      <3> HIDE DEF t
      <3>3. Fits(w, t) /\ Clinking(st)
        BY Zenon, <1>1, <1>2, <1>3, <2>1, <2>2, <3>1 DEF Fits, OnChannel, Token, Warranted, Clinking
      <3> QED
        BY Zenon, <1>1, <3>1, <3>2, <3>3, Moves
    <2>3. CASE st.c = "nwc"
      <3>1. Release(w, st.snap, TRUE)
        BY Zenon, <1>9, <2>3 DEF Rejected
      <3>2. pay.tok[st.c] = w => inv = "canceled" \/ (Quiet /\ NobodySends)
        BY Zenon, <1>1, <2>1, <2>3, HolderAlone
      <3> QED
        BY Zenon, <1>1, <1>3, <3>1, <3>2, Releases
    <2> QED
      BY Zenon, <1>2, <2>2, <2>3 DEF Channels
  <1> QED
    BY Zenon, <1>7, <1>8, <1>9

-----------------------------------------------------------------------------
(* Steps that write the row. *)

\* A write that changes leases and the status keeps the invariant when it gives
\* nobody else a lease, takes none from a session that is about to send, and
\* its status is backed by LND and the wallets.
LEMMA Writes ==
    ASSUME WalletInv, NEW w \in Workers, NEW st \in Session, Become(w, st),
           UNCHANGED <<now, cred, inv, wallet>>,
           pay' \in Row, pay'.method = pay.method, pay'.fallback = pay.fallback, pay'.count = pay.count,
           pay.fallback => pay'.tok["clink"] = None,
           \A v \in Workers \ {w}, c \in Channels : pay'.tok[c] = v => pay.tok[c] = v,
           \A v \in Workers \ {w} : worker[v].pc = "send" /\ inv = "open" =>
               /\ pay'.tok[worker[v].c] = pay.tok[worker[v].c]
               /\ pay'.until[worker[v].c] = pay.until[worker[v].c],
           pay'.status = "paid" => inv = "settled",
           pay'.status = "failed" => inv = "canceled" \/ (inv = "open" /\ Quiet /\ NobodySends),
           Fits(w, st)', st.pc # "send", Clinking(st) => Clinking(worker[w])
    PROVE  WalletInv'
  <1>1. worker \in [Workers -> Session]
    BY Zenon DEF WalletInv, Types
  <1>2. worker' \in [Workers -> Session] /\ worker'[w] = st
        /\ \A v \in Workers \ {w} : worker'[v] = worker[v]
    BY Zenon, <1>1 DEF Become
  <1>3. NobodySends => NobodySends'
    BY Zenon, <1>2 DEF NobodySends
  <1>4. Quiet' = Quiet
    BY Zenon DEF Quiet
  <1>5. Types'
    BY Zenon, <1>2 DEF WalletInv, Types
  <1>6. Agreement'
    BY Zenon, <1>3, <1>4 DEF WalletInv, Agreement
  <1>7. ASSUME NEW v \in Workers PROVE Fits(v, worker[v])'
    <2>1. CASE v = w
      <3>1. worker'[v] = st /\ OnChannel(st)' /\ Token(v, st)' /\ Warranted(v, st)'
        BY Zenon, <1>2, <2>1 DEF Fits
      <3>2. OnChannel(worker[v])'
        BY Zenon, <3>1 DEF OnChannel
      <3>3. Token(v, worker[v])' /\ Warranted(v, worker[v])'
        BY Zenon, <3>1 DEF Token, Warranted
      <3> QED
        BY Zenon, <3>2, <3>3 DEF Fits
    <2>2. CASE v # w
      <3>1. worker'[v] = worker[v] /\ Fits(v, worker[v]) /\ worker[v].c \in Channels
        BY Zenon, <1>1, <1>2, <2>2 DEF WalletInv, Session
      <3>2. OnChannel(worker[v])'
        BY Zenon, <3>1 DEF Fits, OnChannel, Clinking
      <3>3. Token(v, worker[v])'
        BY Zenon, <3>1 DEF Fits, Token
      <3>4. pay'.tok[worker[v].c] = v => pay.tok[worker[v].c] = v
        BY Zenon, <2>2, <3>1
      <3>5. worker[v].pc = "send" /\ inv = "open" =>
               /\ pay'.tok[worker[v].c] = pay.tok[worker[v].c]
               /\ pay'.until[worker[v].c] = pay.until[worker[v].c]
        BY Zenon, <2>2
      <3>6. Warranted(v, worker[v])'
        BY Zenon, <1>3, <1>4, <3>1, <3>4, <3>5 DEF Fits, Warranted
      <3> QED
        BY Zenon, <3>2, <3>3, <3>6 DEF Fits
    <2> QED
      BY Zenon, <2>1, <2>2
  <1>8. ASSUME NEW u \in Workers, NEW v \in Workers, Clinking(worker[u])', Clinking(worker[v])'
        PROVE  u = v
    BY SMTT(30), <1>2, <1>8 DEF WalletInv, Clinking
  <1> QED
    BY Zenon, <1>5, <1>6, <1>7, <1>8 DEF WalletInv

\* A payment that LND received is finalized.
LEMMA FinalizeKeeps ==
    ASSUME WalletInv, NEW w \in Workers, Finalize(w)
    PROVE  WalletInv'
  <1>1. pay \in Row
    BY Zenon DEF WalletInv, Types
  <1>2. inv = "settled"
    BY Zenon DEF WalletInv, Fits, Warranted, Finalize, At
  <1>3. /\ pay' \in Row /\ pay'.method = pay.method /\ pay'.fallback = pay.fallback
        /\ pay'.count = pay.count /\ pay'.tok = pay.tok /\ pay'.until = pay.until
        /\ pay'.status \in {"paid", pay.status}
    BY Zenon, <1>1 DEF Finalize, Row
  <1>4. pay.fallback => pay'.tok["clink"] = None
    BY Zenon, <1>3 DEF WalletInv, Agreement
  <1>5. pay'.status # "failed"
    BY Zenon, <1>2, <1>3 DEF WalletInv, Agreement
  <1>6. Become(w, Idle) /\ UNCHANGED <<now, cred, inv, wallet>>
    BY Zenon DEF Finalize
  <1> QED
    BY Zenon, <1>2, <1>3, <1>4, <1>5, <1>6, Writes, IdleFits, IdleType

\* A channel without an attempt is that of a payment nobody sends for.
LEMMA FreshAlone ==
    ASSUME WalletInv, NEW w \in Workers, ~At(w, "idle"), pay.count[worker[w].c] = 0
    PROVE  Quiet /\ NobodySends
  <1>1. worker[w].c \in Channels /\ pay.method \in Channels /\ pay.fallback \in BOOLEAN
        /\ \A v \in Workers : worker[v].c \in Channels /\ OnChannel(worker[v])
    BY Zenon DEF WalletInv, Types, Session, Row, Fits
  <1>2. CASE worker[w].c = "nwc"
    <2>1. wallet["nwc"] = "none"
      BY Zenon, <1>2 DEF WalletInv, Agreement, Channels
    <2>2. Quiet
      BY Zenon, <1>2, <2>1, AloneOnNwc DEF Quiet, Channels
    <2>3. ASSUME NEW v \in Workers, worker[v].pc = "send" PROVE FALSE
      <3>1. worker[v].c = "nwc"
        BY Zenon, <1>1, <1>2, <2>3, AloneOnNwc DEF Clinking, Channels
      <3> QED
        BY Zenon, <1>1, <1>2, <2>3, <3>1 DEF OnChannel
    <2> QED
      BY Zenon, <2>2, <2>3 DEF NobodySends
  <1>3. CASE worker[w].c = "clink"
    <2>1. pay.method = "clink" /\ ~pay.fallback
      BY Zenon, <1>1, <1>3 DEF WalletInv, Agreement, OnChannel, Channels
    <2>2. wallet["clink"] = "none" /\ wallet["nwc"] = "none"
      BY Zenon, <1>3, <2>1 DEF WalletInv, Agreement, Channels
    <2>3. ASSUME NEW v \in Workers, worker[v].pc = "send" PROVE FALSE
      BY Zenon, <1>1, <1>3, <2>1, <2>3 DEF OnChannel
    <2> QED
      BY Zenon, <2>2, <2>3 DEF Quiet, NobodySends, Channels
  <1> QED
    BY Zenon, <1>1, <1>2, <1>3 DEF Channels

\* A claim takes only a lease that has ended, and leads to an attempt, a lookup
\* or giving up as the attempts on the row demand.
LEMMA ClaimKeeps ==
    ASSUME WalletInv, NEW w \in Workers, Claim(w)
    PROVE  WalletInv'
  <1> DEFINE c == worker[w].c
             row == Leased(w, c)
  <1>1. Types /\ worker[w] \in Session /\ c \in Channels /\ worker[w].pc = "claim" /\ ~At(w, "idle")
        /\ UNCHANGED <<now, cred, inv, wallet>>
    BY Zenon DEF WalletInv, Types, Session, Claim, At
  <1>2. CASE ~Claimable(c)
    BY Zenon, <1>1, <1>2, Idles DEF Claim
  <1>3. CASE Claimable(c)
    <2>1. pay' = row /\ Claimed(w, c, row)
      BY Zenon, <1>3 DEF Claim
    <2>2. /\ row \in Row /\ row.method = pay.method /\ row.status = pay.status
          /\ row.fallback = pay.fallback /\ row.count = pay.count /\ row.tok[c] = w
          /\ \A d \in Channels \ {c} : row.tok[d] = pay.tok[d] /\ row.until[d] = pay.until[d]
      BY ZenonT(30), <1>1, LeasedType
    <2>3. Loaded(row) \in Row /\ Loaded(row).tok[c] = w
      BY Zenon, <2>2, LoadedType
    <2>4. pay.count[c] \in Nat /\ (c = "clink" => pay.count[c] = 0) /\ pay.status = "pending"
          /\ (pay.until[c] = NoTime \/ pay.until[c] <= now)
          /\ pay.until[c] \in Time /\ now \in Nat
      BY Zenon, <1>1, <1>3 DEF Claimable, Types, Row
    <2> HIDE DEF row, c
    <2>5. pay.fallback => pay'.tok["clink"] = None
      <3>1. ASSUME pay.fallback PROVE c # "clink" /\ pay.tok["clink"] = None
        BY Zenon, <2>4, <3>1 DEF WalletInv, Agreement
      <3> QED
        BY Zenon, <2>1, <2>2, <3>1 DEF Channels
    <2>6. \A v \in Workers \ {w}, d \in Channels : pay'.tok[d] = v => pay.tok[d] = v
      BY Zenon, <2>1, <2>2
    <2>7. ASSUME NEW v \in Workers \ {w}, worker[v].pc = "send", inv = "open"
          PROVE  /\ pay'.tok[worker[v].c] = pay.tok[worker[v].c]
                 /\ pay'.until[worker[v].c] = pay.until[worker[v].c]
      <3>1. worker[v].c \in Channels /\ pay.until[worker[v].c] > now
        BY Zenon, <1>1, <2>7 DEF Types, Session, WalletInv, Fits, Warranted
      <3>2. worker[v].c # c
        BY <2>4, <3>1 DEF NoTime, Time
      <3> QED
        BY Zenon, <2>1, <2>2, <3>1, <3>2
    <2>8. pay'.status = "pending"
      BY Zenon, <2>1, <2>2, <2>4
    <2>9. ASSUME NEW st \in Session, Become(w, st), st.c = c, st.snap.tok[c] = w,
                 \/ st.pc = "release" /\ st.need /\ pay.count[c] = 0
                 \/ st.pc = "observe"
                 \/ st.pc = "lookup" /\ pay.count[c] # 0
                 \/ st.pc = "record" /\ pay.count[c] = 0
          PROVE  WalletInv'
      <3>1. Fits(w, worker[w])
        BY Zenon DEF WalletInv
      <3>2. OnChannel(st)'
        BY Zenon, <1>1, <2>1, <2>2, <2>4, <2>9, <3>1 DEF Fits, OnChannel, Clinking, Channels, c
      <3>3. Token(w, st)'
        BY Zenon, <2>9 DEF Token
      <3>4. pay.count[c] = 0 => Quiet /\ NobodySends
        BY Zenon, <1>1, FreshAlone DEF c
      <3>5. worker' = [worker EXCEPT ![w] = st] /\ st.pc # "send" /\ worker \in [Workers -> Session]
        BY Zenon, <1>1, <2>9 DEF Become, Types
      <3>6. pay.count[c] = 0 => Quiet' /\ NobodySends'
        BY Zenon, <1>1, <3>4, <3>5 DEF Quiet, NobodySends
      <3>7. Warranted(w, st)'
        BY Zenon, <2>9, <3>6 DEF Warranted
      <3>8. Fits(w, st)' /\ ~Clinking(st)
        BY Zenon, <2>9, <3>2, <3>3, <3>7 DEF Fits, Clinking
      <3> QED
        BY Zenon, <1>1, <2>1, <2>2, <2>5, <2>6, <2>7, <2>8, <2>9, <3>5, <3>8, Writes
    <2> DEFINE st == [worker[w] EXCEPT !.snap = Loaded(row)]
    <2>10. st \in Session /\ st.c = c /\ st.snap = Loaded(row)
      BY Zenon, <1>1, <2>3 DEF Session, c
    <2>11. Claimed(w, c, row) <=>
             IF ~cred[c]
             THEN IF row.count[c] = 0
                  THEN Become(w, [st EXCEPT !.pc = "release", !.need = TRUE])
                  ELSE Become(w, [st EXCEPT !.pc = "observe", !.obs = Said("other", "soft"), !.ret = "idle"])
             ELSE Become(w, [st EXCEPT !.pc = IF row.count[c] > 0 THEN "lookup" ELSE "record"])
      BY Zenon DEF Claimed
    <2> HIDE DEF st
    <2>12. CASE pay.count[c] = 0 /\ Become(w, [st EXCEPT !.pc = "release", !.need = TRUE])
      <3> DEFINE t == [st EXCEPT !.pc = "release", !.need = TRUE]
      <3>1. t \in Session /\ t.pc = "release" /\ t.need /\ t.c = c /\ t.snap = Loaded(row)
        BY Zenon, <2>10 DEF Session, Steps
      <3> HIDE DEF t
      <3>2. Become(w, t)
        BY Zenon, <2>12 DEF t
      <3> QED
        BY Zenon, <2>3, <2>9, <2>12, <3>1, <3>2
    <2>13. CASE Become(w, [st EXCEPT !.pc = "observe", !.obs = Said("other", "soft"), !.ret = "idle"])
      <3> DEFINE t == [st EXCEPT !.pc = "observe", !.obs = Said("other", "soft"), !.ret = "idle"]
      <3>1. Said("other", "soft") \in Saying
        BY Zenon DEF Said, Saying
      <3>2. t \in Session /\ t.pc = "observe" /\ t.c = c /\ t.snap = Loaded(row)
        BY Zenon, <2>10, <3>1 DEF Session, Steps
      <3> HIDE DEF t
      <3>3. Become(w, t)
        BY Zenon, <2>13 DEF t
      <3> QED
        BY Zenon, <2>3, <2>9, <3>2, <3>3
    <2>14. ASSUME NEW pc \in {"lookup", "record"}, Become(w, [st EXCEPT !.pc = pc]),
                  pc = "record" <=> pay.count[c] = 0
           PROVE  WalletInv'
      <3> DEFINE t == [st EXCEPT !.pc = pc]
      <3>1. t \in Session /\ t.pc = pc /\ t.c = c /\ t.snap = Loaded(row)
        BY Zenon, <2>10 DEF Session, Steps
      <3> HIDE DEF t
      <3>2. Become(w, t)
        BY Zenon, <2>14 DEF t
      <3> QED
        BY Zenon, <2>3, <2>9, <2>14, <3>1, <3>2
    <2>15. CASE cred[c]
      <3>1. CASE pay.count[c] > 0
        <4>1. Become(w, [st EXCEPT !.pc = "lookup"])
          BY Zenon, <2>1, <2>2, <2>11, <2>15, <3>1
        <4> QED
          BY <2>4, <2>14, <3>1, <4>1
      <3>2. CASE ~(pay.count[c] > 0)
        <4>1. Become(w, [st EXCEPT !.pc = "record"])
          BY Zenon, <2>1, <2>2, <2>11, <2>15, <3>2
        <4> QED
          BY <2>4, <2>14, <3>2, <4>1
      <3> QED
        BY Zenon, <3>1, <3>2
    <2> QED
      BY Zenon, <2>1, <2>2, <2>11, <2>12, <2>13, <2>15
  <1> QED
    BY Zenon, <1>2, <1>3

\* An observation is saved without taking the lease of a session that is about
\* to send.
LEMMA SaveKeeps ==
    ASSUME WalletInv, NEW w \in Workers, Save(w)
    PROVE  WalletInv'
  <1> DEFINE c == worker[w].c
  <1>1. Types /\ c \in Channels /\ worker[w].pc = "observe" /\ ~At(w, "idle")
        /\ UNCHANGED <<now, cred, inv, wallet>>
    BY Zenon DEF WalletInv, Types, Session, Save, At
  <1>2. CASE ~(pay.status = "pending" /\ pay.tok[c] = worker[w].snap.tok[c])
    <2>1. pay' = pay /\ (Forget(w, "check") \/ Become(w, Idle))
      BY Zenon, <1>2 DEF Save
    <2> QED
      BY Zenon, <1>1, <2>1, Idles, Forgets
  <1>3. CASE pay.status = "pending" /\ pay.tok[c] = worker[w].snap.tok[c]
    <2>1. pay' = Saved(w, c) /\ (Forget(w, "check") \/ Become(w, Idle))
      BY Zenon, <1>3 DEF Save
    <2>2. /\ pay' \in Row /\ pay'.method = pay.method /\ pay'.status = "pending"
          /\ pay'.fallback = pay.fallback /\ pay'.count = pay.count /\ pay'.tok[c] = None
          /\ \A d \in Channels \ {c} : pay'.tok[d] = pay.tok[d] /\ pay'.until[d] = pay.until[d]
      BY Zenon, <1>1, <1>3, <2>1, SavedType
    <2>3. pay.fallback => pay'.tok["clink"] = None
      BY Zenon, <2>2 DEF WalletInv, Agreement, Channels
    <2>4. \A v \in Workers \ {w}, d \in Channels : pay'.tok[d] = v => pay.tok[d] = v
      BY ZenonT(30), <2>2, WalletAssumption
    <2>5. ASSUME NEW v \in Workers \ {w}, worker[v].pc = "send", inv = "open"
          PROVE  /\ pay'.tok[worker[v].c] = pay.tok[worker[v].c]
                 /\ pay'.until[worker[v].c] = pay.until[worker[v].c]
      <3>1. worker[v].c \in Channels /\ pay.tok[worker[v].c] = v
        BY Zenon, <1>1, <2>5 DEF Types, Session, WalletInv, Fits, Warranted
      <3>2. pay.tok[c] = w
        BY Zenon, <1>1, <1>3, <2>5 DEF WalletInv, Fits, Token
      <3> QED
        BY Zenon, <2>2, <3>1, <3>2
    <2>6. ASSUME NEW st \in Session, Become(w, st), Fits(w, st)', st.pc # "send", ~Clinking(st)
          PROVE  WalletInv'
      BY Zenon, <1>1, <2>2, <2>3, <2>4, <2>5, <2>6, Writes
    <2>7. CASE Become(w, Idle)
      BY Zenon, <2>6, <2>7, IdleFits, IdleType
    <2>8. CASE Forget(w, "check")
      <3>1. /\ [Idle EXCEPT !.pc = "check", !.c = c] \in Session
            /\ [Idle EXCEPT !.pc = "check", !.c = c].pc = "check"
            /\ [Idle EXCEPT !.pc = "check", !.c = c].c = c
        BY Zenon, <1>1, IdleType DEF Session, Steps
      <3>2. PICK st \in Session : Become(w, st) /\ st.pc = "check" /\ st.c = c
        BY Zenon, <2>8, <3>1 DEF Forget
      <3>3. Fits(w, worker[w])
        BY Zenon DEF WalletInv
      <3>4. Fits(w, st)' /\ ~Clinking(st)
        BY Zenon, <1>1, <2>2, <3>2, <3>3 DEF Fits, OnChannel, Token, Warranted, Clinking
      <3> QED
        BY Zenon, <2>6, <3>2, <3>4
    <2> QED
      BY Zenon, <2>1, <2>7, <2>8
  <1> QED
    BY Zenon, <1>2, <1>3

\* A payment is given up only when nothing can be received for it any more.
LEMMA FailKeeps ==
    ASSUME WalletInv, NEW w \in Workers, Fail(w)
    PROVE  WalletInv'
  <1> DEFINE st == worker[w]
             c == worker[w].c
  <1>1. Types /\ st \in Session /\ c \in Channels /\ st.pc = "fail" /\ st.need \in BOOLEAN
        /\ Become(w, Idle) /\ UNCHANGED <<now, cred, inv, wallet>>
    BY Zenon DEF WalletInv, Types, Session, Fail, At
  <1>2. CASE ~(pay.status = "pending" /\ (st.need => HoldsLease(w, c)))
    <2>1. pay' = pay
      BY Zenon, <1>2 DEF Fail
    <2> QED
      BY Zenon, <1>1, <2>1, Idles
  <1>3. CASE pay.status = "pending" /\ (st.need => HoldsLease(w, c))
    <2>1. pay' = [Freed(pay, c) EXCEPT !.status = "failed"]
      BY Zenon, <1>3 DEF Fail
    <2>2. pay \in Row
      BY Zenon DEF WalletInv, Types
    <2> DEFINE f == Freed(pay, c)
    <2>3. /\ f \in Row /\ f.method = pay.method /\ f.fallback = pay.fallback
          /\ f.count = pay.count /\ f.tok[c] = None
          /\ \A d \in Channels \ {c} : f.tok[d] = pay.tok[d] /\ f.until[d] = pay.until[d]
      BY Zenon, <1>1, <2>2, FreedType
    <2>4. pay' = [f EXCEPT !.status = "failed"]
      BY Zenon, <2>1
    <2> HIDE DEF f
    <2>5. /\ pay' \in Row /\ pay'.method = f.method /\ pay'.fallback = f.fallback
          /\ pay'.count = f.count /\ pay'.tok = f.tok /\ pay'.until = f.until /\ pay'.status = "failed"
      BY Zenon, <2>3, <2>4 DEF Row
    <2>6. pay.fallback => pay'.tok["clink"] = None
      BY ZenonT(30), <2>3, <2>5 DEF WalletInv, Agreement, Channels
    <2>7. \A v \in Workers \ {w}, d \in Channels : pay'.tok[d] = v => pay.tok[d] = v
      BY ZenonT(30), <2>3, <2>5, WalletAssumption
    <2>8. Fits(w, st)
      BY Zenon DEF WalletInv
    <2>9. inv = "canceled" \/ (Quiet /\ NobodySends)
      BY Zenon, <1>1, <1>3, <2>8 DEF Fits, Token, Warranted, HoldsLease
    <2>10. inv = "canceled" \/ (inv = "open" /\ Quiet /\ NobodySends)
      BY Zenon, <1>1, <2>9 DEF WalletInv, Types, Agreement, Quiet
    <2>11. \A v \in Workers \ {w} : ~(worker[v].pc = "send" /\ inv = "open")
      BY Zenon, <2>10 DEF NobodySends
    <2> QED
      BY Zenon, <1>1, <2>3, <2>5, <2>6, <2>7, <2>10, <2>11, Writes, IdleFits, IdleType
  <1> QED
    BY Zenon, <1>2, <1>3

\* A session that records an attempt is alone with its lease.
LEMMA RecordAlone ==
    ASSUME WalletInv, NEW w \in Workers, At(w, "record"), Recordable(w, worker[w].c),
           NEW v \in Workers \ {w}, ~At(v, "idle")
    PROVE  pay.tok[worker[v].c] # v
  <1>1. worker[w].c \in Channels /\ worker[v].c \in Channels /\ pay.method \in Channels
        /\ OnChannel(worker[w]) /\ OnChannel(worker[v])
    BY Zenon DEF WalletInv, Types, Session, Row, Fits
  <1>2. pay.tok[worker[w].c] = w
    BY Zenon DEF WalletInv, Fits, Token, Recordable, HoldsLease, At
  <1>3. CASE worker[v].c = worker[w].c
    BY Zenon, <1>2, <1>3
  <1>4. CASE worker[w].c = "clink" /\ worker[v].c = "nwc"
    <2>1. pay.count["clink"] = 0
      BY Zenon, <1>4 DEF Recordable
    <2> QED
      BY Zenon, <1>1, <1>4, <2>1 DEF WalletInv, Agreement, OnChannel, Channels, At
  <1>5. CASE worker[w].c = "nwc" /\ worker[v].c = "clink"
    <2>1. pay.tok["clink"] = None
      BY Zenon, <1>1, <1>5 DEF WalletInv, Agreement, OnChannel, Channels, At
    <2> QED
      BY Zenon, <1>5, <2>1, WalletAssumption
  <1> QED
    BY Zenon, <1>1, <1>3, <1>4, <1>5 DEF Channels

\* An attempt is recorded by the holder of a lease that has not ended, and while
\* the wallets are quiet.
LEMMA RecordKeeps ==
    ASSUME WalletInv, NEW w \in Workers, Record(w)
    PROVE  WalletInv'
  <1> DEFINE c == worker[w].c
             row == Recorded(w, c)
  <1>1. Types /\ worker[w] \in Session /\ c \in Channels /\ At(w, "record")
        /\ UNCHANGED <<now, cred, inv, wallet>> /\ worker \in [Workers -> Session]
        /\ pay.fallback \in BOOLEAN
    BY Zenon DEF WalletInv, Types, Session, Record, Row
  <1>2. CASE ~Recordable(w, c)
    BY Zenon, <1>1, <1>2, Idles DEF Record
  <1>3. CASE Recordable(w, c)
    <2>1. /\ row \in Row /\ row.method = pay.method /\ row.status = pay.status
          /\ row.fallback = pay.fallback /\ row.tok = pay.tok /\ row.until = pay.until
          /\ row.count[c] # 0 /\ \A d \in Channels \ {c} : row.count[d] = pay.count[d]
      BY Zenon, <1>1, RecordedType
    <2>2. Loaded(row) \in Row /\ Loaded(row).tok = pay.tok
      BY Zenon, <2>1, LoadedType
    <2>3. pay' = row /\ Become(w, [worker[w] EXCEPT !.pc = "send", !.snap = Loaded(row)])
      BY Zenon, <1>3 DEF Record
    <2> HIDE DEF row
    <2>4. PICK st \in Session : Become(w, st) /\ st.pc = "send" /\ st.c = c /\ st.snap.tok = pay.tok
      <3> DEFINE t == [worker[w] EXCEPT !.pc = "send", !.snap = Loaded(row)]
      <3>1. t \in Session /\ t.pc = "send" /\ t.c = c /\ t.snap = Loaded(row)
        BY Zenon, <1>1, <2>2 DEF Session, Steps
      <3> QED
        BY Zenon, <2>2, <2>3, <3>1
    <2>5. worker' \in [Workers -> Session] /\ worker'[w] = st
          /\ \A v \in Workers \ {w} : worker'[v] = worker[v]
      BY Zenon, <1>1, <2>4 DEF Become
    <2>6. /\ pay.status = "pending" /\ pay.tok[c] = w /\ pay.until[c] > now
          /\ c = "clink" => pay.count["clink"] = 0
      BY Zenon, <1>1, <1>3 DEF WalletInv, Fits, Token, Recordable, HoldsLease, At
    <2>7. Fits(w, worker[w]) /\ worker[w].pc = "record" /\ ~At(w, "idle")
      BY Zenon, <1>1 DEF WalletInv, At
    <2>8. Quiet
      <3>1. CASE c = "nwc"
        BY Zenon, <2>6, <2>7, <3>1 DEF Fits, Warranted
      <3>2. CASE c = "clink"
        BY Zenon, <2>6, <2>7, <3>2, FreshAlone
      <3> QED
        BY Zenon, <1>1, <3>1, <3>2 DEF Channels
    <2>9. c = "clink" => ~pay.fallback /\ wallet["clink"] = "none" /\ \A v \in Workers : ~Clinking(worker[v])
      <3>1. ASSUME c = "clink" PROVE ~pay.fallback /\ wallet["clink"] = "none"
        BY Zenon, <2>6, <3>1 DEF WalletInv, Agreement, Channels
      <3>2. ASSUME c = "clink", NEW v \in Workers PROVE ~Clinking(worker[v])
        BY Zenon, <2>6, <3>2 DEF WalletInv, Fits, OnChannel
      <3> QED
        BY Zenon, <3>1, <3>2
    <2>10. Quiet' /\ Types'
      BY Zenon, <1>1, <2>1, <2>3, <2>5, <2>8 DEF Quiet, Types
    <2>11. Agreement'
      <3>1. pay.method = "clink" /\ ~pay.fallback => c = "clink"
        BY Zenon, <2>7 DEF Fits, OnChannel
      <3>2. pay'.status = "pending" /\ pay'.method = pay.method /\ pay'.fallback = pay.fallback
            /\ pay'.tok = pay.tok
        BY Zenon, <2>1, <2>3, <2>6
      <3>3. \A d \in Channels : pay'.count[d] = 0 => pay.count[d] = 0
        BY Zenon, <2>1, <2>3
      <3>4. c = "clink" => pay'.count["nwc"] = pay.count["nwc"]
        BY Zenon, <2>1, <2>3 DEF Channels
      <3> QED
        BY Zenon, <1>1, <3>1, <3>2, <3>3, <3>4 DEF WalletInv, Agreement, Channels
    <2>12. Fits(w, worker[w])'
      <3>1. OnChannel(st)'
        BY Zenon, <1>1, <2>1, <2>3, <2>4, <2>7, <2>9 DEF Fits, OnChannel, Clinking
      <3>2. Token(w, st)' /\ Warranted(w, st)'
        BY Zenon, <1>1, <2>1, <2>3, <2>4, <2>6, <2>10 DEF Token, Warranted
      <3>3. OnChannel(worker[w])'
        BY Zenon, <2>5, <3>1 DEF OnChannel
      <3>4. Token(w, worker[w])' /\ Warranted(w, worker[w])'
        BY Zenon, <2>5, <3>2 DEF Token, Warranted
      <3> QED
        BY Zenon, <3>3, <3>4 DEF Fits
    <2>13. ASSUME NEW v \in Workers \ {w} PROVE Fits(v, worker[v])'
      <3>1. worker'[v] = worker[v] /\ Fits(v, worker[v]) /\ worker[v].c \in Channels
        BY Zenon, <1>1, <2>5 DEF WalletInv, Session
      <3>2. worker[v].pc # "idle" => pay.tok[worker[v].c] # v
        BY Zenon, <1>1, <1>3, RecordAlone DEF At
      <3>3. pay'.method = pay.method /\ pay'.fallback = pay.fallback /\ pay'.tok = pay.tok
            /\ pay'.until = pay.until /\ \A d \in Channels : pay'.count[d] = 0 => pay.count[d] = 0
        BY Zenon, <2>1, <2>3
      <3>4. OnChannel(worker[v])' /\ Token(v, worker[v])'
        BY Zenon, <1>1, <3>1, <3>3 DEF Fits, OnChannel, Token, Clinking, Channels
      <3>5. Warranted(v, worker[v])'
        BY Zenon, <1>1, <2>10, <3>1, <3>2, <3>3 DEF Fits, Warranted
      <3> QED
        BY Zenon, <3>4, <3>5 DEF Fits
    <2>14. ASSUME NEW u \in Workers, NEW v \in Workers, Clinking(worker[u])', Clinking(worker[v])'
           PROVE  u = v
      <3>1. c = "clink" => u = w /\ v = w
        BY Zenon, <2>5, <2>9, <2>14 DEF Clinking
      <3>2. c # "clink" => u # w /\ v # w
        BY Zenon, <2>4, <2>5, <2>14 DEF Clinking
      <3> QED
        BY Zenon, <2>5, <2>14, <3>1, <3>2 DEF WalletInv, Clinking
    <2> QED
      BY Zenon, <2>10, <2>11, <2>12, <2>13, <2>14 DEF WalletInv
  <1> QED
    BY Zenon, <1>2, <1>3

\* While the invoice is open one session at most is about to send.
LEMMA OneSender ==
    ASSUME WalletInv, inv = "open", NEW v \in Workers, NEW w \in Workers, At(v, "send"), At(w, "send")
    PROVE  v = w
  <1>1. worker[v].c \in Channels /\ worker[w].c \in Channels
    BY Zenon DEF WalletInv, Types, Session
  <1>2. pay.tok[worker[v].c] = v /\ pay.tok[worker[w].c] = w
    BY Zenon DEF WalletInv, Fits, Warranted, At
  <1>3. worker[v].c = worker[w].c
    BY Zenon, <1>1, AloneOnNwc DEF At, Clinking, Channels
  <1> QED
    BY Zenon, <1>2, <1>3

\* A request is sent when no wallet has one; the others learn of it only when
\* their lease is gone.
LEMMA SendKeeps ==
    ASSUME WalletInv, NEW w \in Workers, Send(w)
    PROVE  WalletInv'
  <1> DEFINE c == worker[w].c
  <1>1. Types /\ worker[w] \in Session /\ c \in Channels /\ At(w, "send")
        /\ UNCHANGED <<now, pay, cred, inv>> /\ worker \in [Workers -> Session]
        /\ wallet \in [Channels -> {"none", "executing", "failed", "settled"}]
    BY Zenon DEF WalletInv, Types, Session, Send
  <1>2. PICK st \in Session : /\ Become(w, st) /\ st.pc = "await" /\ st.c = c
                              /\ st.snap = worker[w].snap
    <2> DEFINE t == [worker[w] EXCEPT !.pc = "await"]
    <2>1. t \in Session /\ t.pc = "await" /\ t.c = c /\ t.snap = worker[w].snap
      BY Zenon, <1>1 DEF Session, Steps
    <2> QED
      BY Zenon, <2>1 DEF Send, Goto
  <1>3. worker' \in [Workers -> Session] /\ worker'[w] = st
        /\ \A v \in Workers \ {w} : worker'[v] = worker[v]
    BY Zenon, <1>1, <1>2 DEF Become
  <1>4. Quiet /\ Fits(w, worker[w]) /\ worker[w].pc = "send"
    BY Zenon, <1>1 DEF WalletInv, Fits, Warranted, At
  <1>5. /\ wallet' \in [Channels -> {"none", "executing", "failed", "settled"}]
        /\ \A d \in Channels \ {c} : wallet'[d] = wallet[d]
        /\ inv # "open" => wallet'[c] \in {wallet[c], "failed"}
    BY Zenon, <1>1 DEF Send
  <1>6. inv # "open" => Quiet'
    BY Zenon, <1>4, <1>5 DEF Quiet
  <1>7. Types'
    BY Zenon, <1>1, <1>3, <1>5 DEF Types
  <1>8. ~NobodySends
    BY Zenon, <1>4 DEF NobodySends
  <1>9. inv \in {"open", "canceled"}
    BY Zenon, <1>1, <1>4 DEF WalletInv, Types, Agreement, Quiet
  <1>10. /\ pay.method = "nwc" => c = "nwc"
         /\ pay.method = "clink" /\ ~pay.fallback => c = "clink"
         /\ c = "clink" => ~pay.fallback
         /\ pay.count[c] # 0
    BY Zenon, <1>1, <1>4 DEF Fits, OnChannel, Clinking
  <1>11. Agreement'
    <2>1. pay.method = "nwc" => wallet'["clink"] = wallet["clink"]
      BY Zenon, <1>5, <1>10 DEF Channels
    <2>2. pay.method = "clink" /\ ~pay.fallback => wallet'["nwc"] = wallet["nwc"]
      BY Zenon, <1>5, <1>10 DEF Channels
    <2>3. pay.fallback => wallet'["clink"] = wallet["clink"]
      BY Zenon, <1>1, <1>5, <1>10 DEF Channels
    <2>4. \A d \in Channels : pay.count[d] = 0 => wallet'[d] = wallet[d]
      BY Zenon, <1>5, <1>10
    <2>5. pay.status = "failed" => inv = "canceled"
      BY Zenon, <1>8 DEF WalletInv, Agreement
    <2> QED
      BY Zenon, <1>1, <1>9, <2>1, <2>2, <2>3, <2>4, <2>5 DEF WalletInv, Agreement
  <1>12. Fits(w, worker[w])'
    BY Zenon, <1>1, <1>2, <1>3, <1>4 DEF Fits, OnChannel, Token, Warranted, Clinking
  <1>13. ASSUME NEW v \in Workers \ {w} PROVE Fits(v, worker[v])'
    <2>1. worker'[v] = worker[v] /\ Fits(v, worker[v]) /\ worker[v].c \in Channels
      BY Zenon, <1>1, <1>3 DEF WalletInv, Session
    <2>2. Clinking(worker[v]) => wallet'["clink"] = wallet["clink"]
      BY Zenon, <1>1, <1>4, <1>5 DEF WalletInv, Clinking, Channels
    <2>3. OnChannel(worker[v])' /\ Token(v, worker[v])'
      BY Zenon, <1>1, <2>1, <2>2 DEF Fits, OnChannel, Token, Clinking
    <2>4. worker[v].pc = "send" => inv # "open"
      BY Zenon, <1>1, OneSender DEF At
    <2>5. Warranted(v, worker[v])'
      BY Zenon, <1>1, <1>6, <1>8, <1>9, <2>1, <2>4 DEF Fits, Warranted
    <2> QED
      BY Zenon, <2>3, <2>5 DEF Fits
  <1>14. ASSUME NEW u \in Workers, NEW v \in Workers, Clinking(worker[u])', Clinking(worker[v])'
         PROVE  u = v
    BY Zenon, <1>2, <1>3, <1>4, <1>14 DEF WalletInv, Clinking
  <1> QED
    BY Zenon, <1>7, <1>11, <1>12, <1>13, <1>14 DEF WalletInv

\* After a CLINK refusal no wallet has a request and nobody sends one.
LEMMA FallbackAlone ==
    ASSUME WalletInv, NEW w \in Workers, At(w, "fallback")
    PROVE  /\ Quiet /\ NobodySends /\ worker[w].c = "clink" /\ worker[w].snap.tok["clink"] = w
           /\ pay.method = "clink" /\ ~pay.fallback /\ pay.count["clink"] # 0
           /\ wallet["clink"] = "failed"
  <1>1. Fits(w, worker[w]) /\ worker[w].pc = "fallback" /\ pay.method \in Channels
        /\ \A v \in Workers : OnChannel(worker[v])
    BY Zenon DEF WalletInv, Types, Row, Fits, At
  <1>2. worker[w].c = "clink" /\ Clinking(worker[w])
    BY Zenon, <1>1 DEF OnChannel, Clinking
  <1>3. /\ worker[w].snap.tok["clink"] = w /\ pay.method = "clink" /\ ~pay.fallback
        /\ pay.count["clink"] # 0 /\ wallet["clink"] = "failed"
    BY Zenon, <1>1, <1>2 DEF Fits, OnChannel, Token, Channels
  <1>4. Quiet
    BY Zenon, <1>3 DEF WalletInv, Agreement, Quiet, Channels
  <1>5. ASSUME NEW v \in Workers, worker[v].pc = "send" PROVE FALSE
    <2>1. Clinking(worker[v])
      BY Zenon, <1>1, <1>3, <1>5 DEF OnChannel, Clinking
    <2> QED
      BY Zenon, <1>1, <1>2, <1>5, <2>1 DEF WalletInv
  <1> QED
    BY Zenon, <1>2, <1>3, <1>4, <1>5 DEF NobodySends

\* The fallback hands a payment that CLINK refused to NWC.
LEMMA FallbackKeeps ==
    ASSUME WalletInv, NEW w \in Workers, Fallback(w)
    PROVE  WalletInv'
  <1> DEFINE st == worker[w]
             row == [Freed(pay, "clink") EXCEPT !.fallback = TRUE]
  <1>1. Types /\ st \in Session /\ st.snap \in Row /\ At(w, "fallback") /\ ~At(w, "idle")
        /\ UNCHANGED <<now, cred, inv, wallet>> /\ worker \in [Workers -> Session]
        /\ pay \in Row
    BY Zenon DEF WalletInv, Types, Session, Fallback, At
  <1>2. st.snap.tok["clink"] # None
    BY <1>1, FallbackAlone, WalletAssumption
  <1>3. CASE UNCHANGED pay /\ Become(w, Idle)
    BY Zenon, <1>1, <1>3, Idles
  <1>4. CASE UNCHANGED pay /\ Release(w, st.snap, st.snap.tok["clink"] # None)
    <2>1. Release(w, st.snap, TRUE)
      BY Zenon, <1>2, <1>4
    <2> QED
      BY Zenon, <1>1, <1>4, <2>1, FallbackAlone, Releases
  <1>5. CASE /\ pay.status = "pending" /\ pay' = row
             /\ Become(w, [st EXCEPT !.pc = "lnd", !.c = "nwc", !.snap = Loaded(row)])
    <2> DEFINE f == Freed(pay, "clink")
    <2>1. /\ f \in Row /\ f.method = pay.method /\ f.status = pay.status /\ f.count = pay.count
          /\ f.tok["clink"] = None /\ f.tok["nwc"] = pay.tok["nwc"]
      BY <1>1, FreedType DEF Channels
    <2> HIDE DEF f
    <2>2. /\ row \in Row /\ row.method = f.method /\ row.status = f.status /\ row.count = f.count
          /\ row.tok = f.tok /\ row.fallback = TRUE
      <3>1. row = [f EXCEPT !.fallback = TRUE]
        BY Zenon DEF f
      <3> QED
        BY Zenon, <2>1, <3>1 DEF Row
    <2>3. Loaded(row) \in Row
      BY Zenon, <2>2, LoadedType
    <2> HIDE DEF row
    <2>4. PICK t \in Session : Become(w, t) /\ t.pc = "lnd" /\ t.c = "nwc"
      <3> DEFINE u == [st EXCEPT !.pc = "lnd", !.c = "nwc", !.snap = Loaded(row)]
      <3>1. u \in Session /\ u.pc = "lnd" /\ u.c = "nwc"
        BY Zenon, <1>1, <2>3 DEF Session, Steps, Channels
      <3> QED
        BY Zenon, <1>5, <3>1
    <2>5. worker' \in [Workers -> Session] /\ worker'[w] = t
          /\ \A v \in Workers \ {w} : worker'[v] = worker[v]
      BY Zenon, <1>1, <2>4 DEF Become
    <2>6. /\ pay' \in Row /\ pay'.method = "clink" /\ pay'.status = "pending" /\ pay'.fallback = TRUE
          /\ pay'.count = pay.count /\ pay'.tok["clink"] = None /\ pay'.tok["nwc"] = pay.tok["nwc"]
      BY Zenon, <1>1, <1>5, <2>1, <2>2, FallbackAlone
    <2>7. Types' /\ Quiet' /\ NobodySends'
      BY SMTT(30), <1>1, <2>4, <2>5, <2>6, FallbackAlone DEF Types, Quiet, NobodySends
    <2>8. Agreement'
      BY <1>1, <2>6, FallbackAlone DEF WalletInv, Agreement
    <2>9. Clinking(worker[w]) /\ \A v \in Workers \ {w} : ~Clinking(worker[v])
      BY Zenon, <1>1, FallbackAlone DEF WalletInv, Clinking, At
    <2>10. Fits(w, worker[w])'
      BY Zenon, <2>4, <2>5, <2>6 DEF Fits, OnChannel, Token, Warranted, Clinking
    <2>11. ASSUME NEW v \in Workers \ {w} PROVE Fits(v, worker[v])'
      <3>1. worker'[v] = worker[v] /\ Fits(v, worker[v]) /\ worker[v].c \in Channels
            /\ worker[v].pc # "send" /\ ~Clinking(worker[v])
        BY ZenonT(30), <1>1, <2>5, <2>9, FallbackAlone DEF WalletInv, Session, NobodySends
      <3>2. OnChannel(worker[v])' /\ Token(v, worker[v])'
        BY Zenon, <1>1, <2>6, <3>1 DEF Fits, OnChannel, Token, Clinking
      <3>3. Warranted(v, worker[v])'
        <4>1. pay'.tok[worker[v].c] = v => pay.tok[worker[v].c] = v
          BY Zenon, <2>6, <3>1, WalletAssumption DEF Channels
        <4> QED
          BY Zenon, <1>1, <2>7, <3>1, <4>1 DEF Fits, Warranted
      <3> QED
        BY Zenon, <3>2, <3>3 DEF Fits
    <2>12. \A v \in Workers : ~Clinking(worker[v])'
      BY Zenon, <2>4, <2>5, <2>9 DEF Clinking
    <2> QED
      BY Zenon, <2>7, <2>8, <2>10, <2>11, <2>12 DEF WalletInv
  <1>6. \/ UNCHANGED pay /\ Become(w, Idle)
        \/ UNCHANGED pay /\ Release(w, st.snap, st.snap.tok["clink"] # None)
        \/ /\ pay.status = "pending" /\ pay' = row
           /\ Become(w, [st EXCEPT !.pc = "lnd", !.c = "nwc", !.snap = Loaded(row)])
    BY Zenon DEF Fallback
  <1> QED
    BY Zenon, <1>3, <1>4, <1>5, <1>6

-----------------------------------------------------------------------------
(* The environment. *)

\* A wallet that executes a request was sent one on the channel in use.
LEMMA WalletsKeep ==
    ASSUME WalletInv, NEW c \in Channels,
           WalletPays(c) \/ WalletReaches(c) \/ WalletFails(c)
    PROVE  WalletInv'
  <1>1. Types /\ wallet[c] = "executing" /\ UNCHANGED <<now, pay, cred, worker>>
        /\ wallet \in [Channels -> {"none", "executing", "failed", "settled"}]
        /\ (inv = "open" \/ inv = inv' \/ inv = "accepted")
    BY Zenon DEF WalletInv, Types, WalletPays, WalletReaches, WalletFails
  <1>2. /\ wallet' \in [Channels -> {"none", "executing", "failed", "settled"}]
        /\ \A d \in Channels \ {c} : wallet'[d] = wallet[d]
        /\ inv' \in {inv, "settled", "accepted"} /\ inv' \in {"open", "accepted", "settled", "canceled"}
        /\ inv = "canceled" => inv' = "canceled"
        /\ inv = "settled" => inv' = "settled"
        /\ inv' = "open" => inv = "open"
    BY Zenon, <1>1 DEF WalletPays, WalletReaches, WalletFails, Types
  <1>3. ~Quiet
    BY Zenon, <1>1 DEF Quiet
  <1>4. NobodySends' = NobodySends
    BY Zenon, <1>1 DEF NobodySends
  <1>5. Types'
    BY Zenon, <1>1, <1>2 DEF Types
  <1>6. /\ c = "clink" => pay.method # "nwc" /\ ~pay.fallback
        /\ c = "nwc" => pay.method # "clink" \/ pay.fallback
        /\ pay.count[c] # 0 /\ pay.fallback \in BOOLEAN
    BY Zenon, <1>1 DEF WalletInv, Agreement, Types, Row
  <1>7. Agreement'
    <2>1. /\ pay.method = "nwc" \/ pay.fallback => wallet'["clink"] = wallet["clink"]
          /\ pay.method = "clink" /\ ~pay.fallback => wallet'["nwc"] = wallet["nwc"]
          /\ \A d \in Channels : pay.count[d] = 0 => wallet'[d] = wallet[d]
      BY Zenon, <1>2, <1>6 DEF Channels
    <2>2. inv' = "settled" => \E d \in Channels : wallet'[d] = "settled"
      <3>1. CASE WalletPays(c)
        BY Zenon, <1>1, <3>1 DEF WalletPays
      <3>2. CASE ~WalletPays(c)
        BY Zenon, <1>1, <1>2, <3>2 DEF WalletReaches, WalletFails, WalletInv, Agreement
      <3> QED
        BY Zenon, <3>1, <3>2
    <2>3. inv' = "accepted" => \E d \in Channels : wallet'[d] = "executing"
      BY Zenon, <1>1 DEF WalletPays, WalletReaches, WalletFails
    <2>4. pay.status = "failed" => inv' = "canceled"
      BY Zenon, <1>2, <1>3 DEF WalletInv, Agreement
    <2>5. pay.status = "paid" => inv' = "settled"
      BY Zenon, <1>2 DEF WalletInv, Agreement
    <2> QED
      BY Zenon, <1>1, <2>1, <2>2, <2>3, <2>4, <2>5 DEF WalletInv, Agreement
  <1>8. ASSUME NEW v \in Workers PROVE Fits(v, worker[v])'
    <2>1. Fits(v, worker[v]) /\ worker'[v] = worker[v]
      BY Zenon, <1>1 DEF WalletInv
    <2>2. /\ Clinking(worker[v]) /\ worker[v].pc = "send" => wallet["clink"] = "none"
          /\ worker[v].pc = "fallback" => wallet["clink"] = "failed"
      BY Zenon, <2>1 DEF Fits, OnChannel
    <2>3. wallet["clink"] \in {"none", "failed"} => wallet'["clink"] = wallet["clink"]
      BY Zenon, <1>1, <1>2 DEF Channels
    <2>4. OnChannel(worker[v])'
      BY Zenon, <1>1, <2>1, <2>2, <2>3 DEF Fits, OnChannel, Clinking
    <2>5. Token(v, worker[v])'
      BY Zenon, <1>1, <1>2, <2>1 DEF Fits, Token
    <2>6. Warranted(v, worker[v])'
      BY Zenon, <1>1, <1>2, <1>3, <2>1 DEF Fits, Warranted
    <2> QED
      BY Zenon, <2>4, <2>5, <2>6 DEF Fits
  <1>9. \A u, v \in Workers : Clinking(worker[u])' /\ Clinking(worker[v])' => u = v
    BY Zenon, <1>1 DEF WalletInv, Clinking
  <1> QED
    BY Zenon, <1>5, <1>7, <1>8, <1>9 DEF WalletInv

\* LND cancels an invoice that it has not received.
LEMMA CancelKeeps ==
    ASSUME WalletInv, LndCancels
    PROVE  WalletInv'
  <1>1. /\ UNCHANGED <<now, pay, cred, wallet, worker>> /\ inv' = "canceled"
        /\ inv \in {"open", "accepted"}
    BY Zenon DEF LndCancels
  <1>2. Types' /\ Quiet' = Quiet /\ NobodySends' = NobodySends
    BY Zenon, <1>1 DEF WalletInv, Types, Quiet, NobodySends
  <1>3. Agreement'
    BY Zenon, <1>1, <1>2 DEF WalletInv, Agreement
  <1>4. ASSUME NEW v \in Workers PROVE Fits(v, worker[v])'
    <2>1. Fits(v, worker[v])
      BY Zenon DEF WalletInv
    <2> QED
      BY Zenon, <1>1, <1>2, <2>1 DEF Fits, OnChannel, Token, Warranted, Clinking
  <1>5. \A u, v \in Workers : Clinking(worker[u])' /\ Clinking(worker[v])' => u = v
    BY Zenon, <1>1 DEF WalletInv, Clinking
  <1> QED
    BY Zenon, <1>2, <1>3, <1>4, <1>5 DEF WalletInv

\* The clock does not pass the end of the lease of a session about to send.
LEMMA QuietStepsKeep ==
    ASSUME WalletInv, Tick \/ (\E c \in Channels : ReplaceCredential(c)) \/ UNCHANGED vars
    PROVE  WalletInv'
  <1>1. UNCHANGED <<pay, inv, wallet, worker>>
    BY Zenon DEF Tick, ReplaceCredential, vars
  <1>2. Types'
    <2>1. now' \in Nat /\ cred' \in [Channels -> BOOLEAN]
      <3>1. now \in Nat /\ cred \in [Channels -> BOOLEAN]
        BY Zenon DEF WalletInv, Types
      <3>2. CASE Tick
        BY <3>1, <3>2 DEF Tick
      <3>3. ASSUME NEW c \in Channels, ReplaceCredential(c) PROVE now' = now /\ cred' \in [Channels -> BOOLEAN]
        BY Zenon, <3>1, <3>3 DEF ReplaceCredential
      <3> QED
        BY Zenon, <3>1, <3>2, <3>3 DEF vars
    <2> QED
      BY Zenon, <1>1, <2>1 DEF WalletInv, Types
  <1>3. Quiet' = Quiet /\ NobodySends' = NobodySends
    BY Zenon, <1>1 DEF Quiet, NobodySends
  <1>4. Agreement'
    BY Zenon, <1>1, <1>3 DEF WalletInv, Agreement
  <1>5. ASSUME NEW v \in Workers PROVE Fits(v, worker[v])'
    <2>1. Fits(v, worker[v])
      BY Zenon DEF WalletInv
    <2>2. worker[v].pc = "send" => now' = now
      BY Zenon DEF Tick, ReplaceCredential, vars, At
    <2>3. OnChannel(worker[v])' /\ Token(v, worker[v])'
      BY Zenon, <1>1, <2>1 DEF Fits, OnChannel, Token, Clinking
    <2>4. Warranted(v, worker[v])'
      BY Zenon, <1>1, <1>3, <2>1, <2>2 DEF Fits, Warranted
    <2> QED
      BY Zenon, <2>3, <2>4 DEF Fits
  <1>6. \A u, v \in Workers : Clinking(worker[u])' /\ Clinking(worker[v])' => u = v
    BY Zenon, <1>1 DEF WalletInv, Clinking
  <1> QED
    BY Zenon, <1>2, <1>4, <1>5, <1>6 DEF WalletInv

-----------------------------------------------------------------------------

\* A payment starts with the invariant.
LEMMA WalletStarts == Init => WalletInv
  <1> SUFFICES ASSUME Init PROVE WalletInv
    BY Zenon
  <1>1. PICK m \in Channels : pay = NewPay(m)
    BY Zenon, WalletAssumption DEF Init, Channels
  <1>2. /\ pay \in Row /\ pay.status = "pending" /\ pay.fallback = FALSE
        /\ \A c \in Channels : pay.count[c] = 0
    BY Zenon, <1>1, NewPayType
  <1>3. Types
    BY Zenon, <1>2, IdleType DEF Init, Types
  <1>4. Agreement
    BY Zenon, <1>2 DEF Init, Agreement, Channels
  <1>5. \A w \in Workers : Fits(w, worker[w]) /\ ~Clinking(worker[w])
    BY Zenon, IdleFits DEF Init
  <1> QED
    BY Zenon, <1>3, <1>4, <1>5 DEF WalletInv

\* Every step keeps the invariant.
LEMMA WalletKeeps == WalletInv /\ [Next]_vars => WalletInv'
  <1> SUFFICES ASSUME WalletInv, [Next]_vars PROVE WalletInv'
    BY Zenon
  <1>1. ASSUME NEW w \in Workers, Start(w) \/ Step(w) \/ Stop(w) PROVE WalletInv'
    <2>1. CASE Stop(w)
      BY Zenon, <2>1, Idles DEF Stop
    <2>2. CASE Step(w)
      BY Zenon, <2>2, AskLndKeeps, FinalizeKeeps, ClaimKeeps, LookupKeeps, RecordKeeps, SendKeeps,
         AwaitKeeps, SaveKeeps, CheckKeeps, AskBeforeReleaseKeeps, FailKeeps, FallbackKeeps DEF Step
    <2> QED
      BY Zenon, <1>1, <2>1, <2>2, StartKeeps
  <1>2. ASSUME Environment PROVE WalletInv'
    BY Zenon, <1>2, WalletsKeep, CancelKeeps, QuietStepsKeep DEF Environment
  <1>3. ASSUME Done \/ UNCHANGED vars PROVE WalletInv'
    BY Zenon, <1>3, QuietStepsKeep DEF Done
  <1> QED
    BY Zenon, <1>1, <1>2, <1>3 DEF Next

\* The invariant holds of every behaviour of the sessions, the wallets and LND.
THEOREM WalletInvariant == Spec => []WalletInv
  BY WalletStarts, WalletKeeps, PTL DEF Spec

\* A payment that is given up is never received afterwards, however its sessions
\* interleave, stop and lose their leases (_release_failed_nwc_payment).
THEOREM GivenUpIsNotReceived == Spec => []FailedIsNotReceived
  <1>1. WalletInv => FailedIsNotReceived
    BY Zenon DEF WalletInv, Agreement, FailedIsNotReceived, Quiet
  <1> QED
    BY <1>1, WalletInvariant, PTL

\* A payment is paid only when LND received it (_finalize_payment).
THEOREM PaidIsReceived == Spec => []PaidWasReceived
  <1>1. WalletInv => PaidWasReceived
    BY Zenon DEF WalletInv, Agreement, PaidWasReceived
  <1> QED
    BY <1>1, WalletInvariant, PTL

\* A wallet is asked to pay only when none executes or has executed a request,
\* and CLINK only once (_record_nwc_send_attempt, _record_clink_send_attempt).
THEOREM NoSecondRequest == Spec => SendsOnlyWhenQuiet
  <1> DEFINE Quietly == \A w \in Workers : At(w, "send") /\ worker'[w].pc = "await" =>
               /\ \A c \in Channels : wallet[c] \notin {"executing", "settled"}
               /\ worker[w].c = "clink" => wallet["clink"] = "none"
  <1>1. WalletInv => Quietly
    BY Zenon DEF WalletInv, Fits, Warranted, OnChannel, Clinking, Quiet, At
  <1>2. WalletInv /\ [Next]_vars => [Quietly]_vars
    BY Zenon, <1>1
  <1> HIDE DEF Quietly
  <1>3. Spec => [][Quietly]_vars
    BY <1>2, WalletInvariant, PTL DEF Spec
  <1> QED
    BY Zenon, <1>3 DEF Quietly, SendsOnlyWhenQuiet

=============================================================================
