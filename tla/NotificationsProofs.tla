------------------------- MODULE NotificationsProofs -------------------------
(***************************************************************************)
(* Proofs about the email outboxes, for any number of accounts, replicas,  *)
(* periods, attempts, crashes and events: what is mailed, how often, to    *)
(* whom and when.  A mail server that refuses QUIT after it took a message *)
(* defeats two of the results (see Outcome); those two are stated for      *)
(* servers that do not.                                                    *)
(***************************************************************************)
EXTENDS Notifications, FiniteSetTheorems, TLAPS

-----------------------------------------------------------------------------
(* The inductive invariant *)

\* States of a row whose message has not been sent; parts of a worker's way.
Fresh == {"none", "queued", "failed"}
Attempt == {"sending", "smtp"}
Answered == {"sent", "ambiguous", "transient", "permanent"}
InHand == {"check", "claimed", "release", "complete"} \cup Attempt \cup Answered

\* Worker w is between the commit of SENDING and the answer of the mail server for row
\* r; it has the answer and has yet to record it.
Attempts(w, r) == worker[w].row = r /\ worker[w].pc \in Attempt
Records(w, r) == worker[w].row = r /\ worker[w].pc \in Answered

\* What a worker has in hand: a row of the table, and one that exists.
Works(st) ==
    /\ st.pc = "idle" => st.row = None
    /\ st.pc \in InHand => st.row \in Rows /\ del[st.row].state # "none"
    /\ st.pc = "insert" => st.row \in {"week", "day", "unconfirmed"} \X Periods
    /\ st.pc = "finish" => /\ ann.state \in {"queued", "completed", "cancelled"}
                           /\ st.row # None => del[st.row].state # "none"

\* The heart of the matter.  Nobody attempts a row that is unsent, one worker at a time
\* attempts a row, and nobody else who holds the lease has an answer to record.
RowOK(r) ==
    /\ del[r].state = "none" => mail[r] = 0
    /\ del[r].state \in Fresh => \A w \in Workers : ~Attempts(w, r)
    /\ \A w \in Workers : Attempts(w, r) =>
         \A v \in Workers : ~(v # w /\ Attempts(v, r)) /\ ~(del[r].tok = v /\ Records(v, r))

\* What follows for the mail: an unsent row and one that is being attempted were not
\* mailed, and a worker that still holds the lease and learned that its message was
\* refused knows that nobody mailed the row.
MailOK(r) ==
    /\ mail[r] <= 1
    /\ del[r].state \in Fresh => mail[r] = 0
    /\ \A w \in Workers : Attempts(w, r) => mail[r] = 0
    /\ \A w \in Workers :
         del[r].tok = w /\ Records(w, r) /\ worker[w].pc \in {"transient", "permanent"} => mail[r] = 0

\* No later period than that of r has been confirmed.
Unconfirmed(r) == \A q \in Periods : r[2] < q => mail[<<"renewed", q>>] = 0

\* From the lock to the record the worker holds the account: the address stays, and no
\* confirmation of a later period overtakes it.
Secured(w) ==
    /\ worker[w].pc \in {"smtp"} \cup Answered => userLock[Recipient(worker[w].row)] = w
    /\ worker[w].pc = "smtp" =>
         /\ Reachable(worker[w].row)
         /\ ~Service(worker[w].row) => Unconfirmed(worker[w].row)

\* Only a period that was reached has a renewal confirmation.
Renewals ==
    /\ sub.status # "none" => sub.period \in Periods
    /\ \A q \in Periods : sub.period < q => del[<<"renewed", q>>].state = "none"

\* Rows of an announcement exist only once it was queued, and a completed one is
\* accounted for.
Announcements ==
    /\ ann.state \in {"none", "draft"} => \A r \in Rows : Service(r) => del[r].state = "none"
    /\ CompletedAccountsForAll

\* The inductive invariant.
MailInv ==
    /\ TypeOK
    /\ \A w \in Workers : Works(worker[w]) /\ Secured(w)
    /\ \A r \in Rows : RowOK(r) /\ (~QuitRefused => MailOK(r))
    /\ Renewals /\ Announcements

----------------------------------------------------------------------------
(* Records. *)

\* A row is addressed to an account.
LEMMA RecipientType == \A r \in Rows : Recipient(r) \in Users
  BY Zenon, NotificationAssumption DEF Rows, NotificationRows, ReminderRows, CampaignRows, Recipient, Service, AccountKinds, Warnings

\* Periods and account ids are numbers.
LEMMA PeriodsUsers == Periods \subseteq Nat /\ Users \subseteq Nat
  BY NotificationAssumption DEF Periods

\* The initial worker and the missing row.
LEMMA IdleType == /\ Idle \in Worker /\ Idle.pc = "idle" /\ Idle.row = None
                  /\ NoRow \in DelRow /\ NoRow.state = "none" /\ NoRow.tok = None /\ NoRow.gen = 0
  BY NotificationAssumption DEF Idle, Worker, NoRow, DelRow, Busy

\* The fields of a worker.
LEMMA WorkerType ==
    ASSUME NEW st \in Worker
    PROVE  /\ st.pc \in {"idle", "down"} \cup Busy /\ st.row \in Rows \cup {None}
           /\ st.seen \in DelRow /\ st.ok \in BOOLEAN /\ st.gen \in 0..MaxGen
  BY Zenon DEF Worker

\* The fields of a delivery row.
LEMMA DelType ==
    ASSUME NEW d \in DelRow
    PROVE  /\ d.state \in {"none", "queued", "sending"} \cup Terminal /\ d.gen \in 0..MaxGen
           /\ d.tok \in Workers \cup {None} /\ d.live \in BOOLEAN /\ d.wait \in BOOLEAN
           /\ d.tries \in 0..MaxAttempts
  BY Zenon DEF DelRow

\* _terminal keeps the generation and drops the lease.
LEMMA EndedType ==
    ASSUME NEW d \in DelRow, NEW s \in Terminal
    PROVE  /\ Ended(d, s) \in DelRow /\ Ended(d, s).state = s /\ Ended(d, s).gen = d.gen
           /\ Ended(d, s).tok = None
<1>1. d.gen \in 0..MaxGen /\ s \in {"none", "queued", "sending"} \cup Terminal
  BY Zenon, DelType
<1>2. PICK e : e = [NoRow EXCEPT !.state = s, !.gen = d.gen]
  BY Zenon
<1>3. e \in DelRow /\ e.state = s /\ e.gen = d.gen /\ e.tok = None
  BY Zenon, <1>1, <1>2, IdleType DEF DelRow
<1> QED BY Zenon, <1>2, <1>3 DEF Ended

\* A closed row keeps its generation, and its lease or none.
LEMMA ClosedType ==
    ASSUME NEW d \in DelRow, NEW s \in Terminal, NEW r
    PROVE  /\ Closed(r, d, s) \in DelRow /\ Closed(r, d, s).state = s /\ Closed(r, d, s).gen = d.gen
           /\ Closed(r, d, s).tok \in {d.tok, None}
<1>1. CASE Legacy(r)
  <2>1. 0 \in 0..MaxAttempts /\ s \in {"none", "queued", "sending"} \cup Terminal
    BY NotificationAssumption
  <2>2. PICK e : e = [d EXCEPT !.state = s, !.wait = FALSE, !.tries = 0]
    BY Zenon
  <2>3. e \in DelRow /\ e.state = s /\ e.gen = d.gen /\ e.tok = d.tok
    BY Zenon, <2>1, <2>2 DEF DelRow
  <2> QED BY Zenon, <1>1, <2>2, <2>3 DEF Closed
<1>2. CASE ~Legacy(r)
  BY Zenon, <1>2, EndedType DEF Closed
<1> QED BY Zenon, <1>1, <1>2

\* A new row is queued, without a lease.
LEMMA NewType ==
    ASSUME NEW g \in 0..MaxGen
    PROVE  NewRow(g) \in DelRow /\ NewRow(g).state = "queued" /\ NewRow(g).gen = g /\ NewRow(g).tok = None
<1>1. PICK e : e = [NoRow EXCEPT !.state = "queued", !.gen = g]
  BY Zenon
<1>2. e \in DelRow /\ e.state = "queued" /\ e.gen = g /\ e.tok = None
  BY Zenon, <1>1, IdleType DEF DelRow
<1> QED BY Zenon, <1>1, <1>2 DEF NewRow

\* queue_notification changes nothing of a row whose work is under way or has ended.
LEMMA QueuedType ==
    ASSUME NEW d \in DelRow, NEW g \in 0..MaxGen, NEW r
    PROVE  /\ Queued(r, d, g) \in DelRow
           /\ Queued(r, d, g).state = IF d.state = "none" THEN "queued" ELSE d.state
           /\ d.state \notin Fresh => Queued(r, d, g).gen = d.gen
           /\ Queued(r, d, g).tok \in {d.tok, None}
<1> DEFINE e == [d EXCEPT !.gen = g]
<1>1. e \in DelRow /\ e.state = d.state /\ e.tok = d.tok
  BY Zenon DEF DelRow
<1> QED BY Zenon, <1>1, NewType DEF Queued, Reused, Fresh

\* The end of a lease or of a retry delay changes neither state nor token.
LEMMA ElapseType ==
    ASSUME NEW d \in DelRow, NEW e, e = [d EXCEPT !.live = FALSE] \/ e = [d EXCEPT !.wait = FALSE]
    PROVE  e \in DelRow /\ e.state = d.state /\ e.gen = d.gen /\ e.tok = d.tok
  BY Zenon DEF DelRow

----------------------------------------------------------------------------
(* Steps that neither send nor record. *)

\* How the steps that neither send nor record may change a row: a row stays, does not
\* become unsent or SENDING, keeps its generation once its work began, and its lease
\* is not given to a worker that has an answer to record.
Mild(r, d) ==
    /\ del[r].state # "none" => d.state # "none"
    /\ del[r].state = "none" /\ d.state # "none" =>
         /\ Service(r) => ann.state = "queued"
         /\ r[1] = "renewed" => r[2] <= sub'.period
    /\ d.state \in Fresh => del[r].state \in Fresh
    /\ d.state = "sending" => del[r].state = "sending"
    /\ del[r].state \notin Fresh => d.gen = del[r].gen
    /\ \A v \in Workers : d.tok = v => del[r].tok = v \/ worker'[v].pc \notin Answered

\* The workers that send or record stay as they are.
CalmWorkers == \A w \in Workers :
    worker'[w] = worker[w] \/ worker'[w].pc \notin Attempt \cup Answered

\* So do the locks of their accounts, and the addresses.
CalmLocks == \A w \in Workers :
    worker'[w] = worker[w] /\ worker[w].pc \in {"smtp"} \cup Answered =>
        LET u == Recipient(worker[w].row) IN
        userLock'[u] = userLock[u] /\ user'[u].has = user[u].has /\ user'[u].gen = user[u].gen

\* The paid period only advances.
CalmSubscription == sub'.period >= sub.period /\ (sub'.status # "none" => sub.status # "none")

\* A queued announcement stays queued or ends, and one that completes is accounted
\* for.
CalmAnnouncement ==
    /\ ann.state \in {"queued", "completed", "cancelled"} => ann'.state \in {"queued", "completed", "cancelled"}
    /\ ann'.state = "completed" =>
         (ann.state = "completed" /\ snapshot' = snapshot) \/ CompletedAccountsForAll'

\* Such steps keep the condition on rows ...
LEMMA RowsStay ==
    ASSUME MailInv, mail' = mail, CalmWorkers, NEW r \in Rows, Mild(r, del'[r])
    PROVE  RowOK(r)' /\ (~QuitRefused => MailOK(r)')
<1>1. /\ del'[r].state \in Fresh => del[r].state \in Fresh
      /\ \A v \in Workers : del'[r].tok = v => del[r].tok = v \/ worker'[v].pc \notin Answered
  BY Zenon DEF Mild
<1>2. RowOK(r) /\ (~QuitRefused => MailOK(r))
  BY Zenon DEF MailInv
<1>3. \A w \in Workers : (Attempts(w, r)' => Attempts(w, r)) /\ (Records(w, r)' => Records(w, r) /\ worker'[w] = worker[w])
  BY Zenon DEF CalmWorkers, Attempts, Records
<1>4. RowOK(r)'
  BY Zenon, <1>1, <1>2, <1>3 DEF RowOK, Mild, Attempts, Records
<1>5. ASSUME MailOK(r)
      PROVE  MailOK(r)'
  BY Zenon, <1>1, <1>3, <1>5 DEF MailOK, Attempts, Records
<1> QED BY Zenon, <1>2, <1>4, <1>5

\* ... the locks of the workers that send ...
LEMMA SecuredStay ==
    ASSUME MailInv, mail' = mail, CalmWorkers, CalmLocks, \A r \in Rows : Mild(r, del'[r]), NEW w \in Workers
    PROVE  Secured(w)'
<1>1. CASE worker'[w] = worker[w] /\ worker[w].pc \in {"smtp"} \cup Answered
  <2> DEFINE r == worker[w].row
             u == Recipient(r)
  <2>1. r \in Rows /\ Secured(w) /\ RowOK(r)
    BY Zenon, <1>1 DEF MailInv, Works, InHand, Attempt
  <2>2. userLock'[u] = userLock[u] /\ user'[u].has = user[u].has /\ user'[u].gen = user[u].gen
    BY Zenon, <1>1 DEF CalmLocks
  <2>3. worker[w].pc = "smtp" => del'[r].gen = del[r].gen
    BY Zenon, <2>1 DEF Mild, RowOK, Attempts, Attempt
  <2> QED BY Zenon, <1>1, <2>1, <2>2, <2>3 DEF Secured, Reachable, Unconfirmed
<1>2. CASE worker'[w].pc \notin {"smtp"} \cup Answered
  BY Zenon, <1>2 DEF Secured
<1> QED BY Zenon, <1>1, <1>2 DEF CalmWorkers, Attempt

\* ... what the other workers have in hand ...
LEMMA WorksStay ==
    ASSUME MailInv, \A r \in Rows : Mild(r, del'[r]), CalmAnnouncement, NEW w \in Workers, worker'[w] = worker[w]
    PROVE  Works(worker[w])'
  BY ZenonT(30) DEF MailInv, Works, Mild, CalmAnnouncement, TypeOK, Worker

\* ... the confirmations ...
LEMMA RenewalsStay ==
    ASSUME MailInv, sub' \in SubRow, CalmSubscription, \A r \in Rows : Mild(r, del'[r])
    PROVE  Renewals'
<1>0. sub'.status # "none" => sub'.period \in Periods
  BY NotificationAssumption DEF CalmSubscription, MailInv, TypeOK, Renewals, SubRow, Periods
<1> SUFFICES ASSUME NEW q \in Periods, sub'.period < q
             PROVE  del'[<<"renewed", q>>].state = "none"
  BY Zenon, <1>0 DEF Renewals
<1>1. <<"renewed", q>> \in Rows
  BY Zenon DEF Rows, NotificationRows, AccountKinds
<1>2. sub.period \in Nat /\ sub'.period \in Nat /\ q \in Nat
  BY NotificationAssumption DEF MailInv, TypeOK, SubRow, Periods
<1>3. del[<<"renewed", q>>].state = "none"
  BY <1>2 DEF MailInv, Renewals, CalmSubscription
<1>4. Mild(<<"renewed", q>>, del'[<<"renewed", q>>])
  BY Zenon, <1>1
<1> QED BY <1>2, <1>3, <1>4 DEF Mild

\* ... and the announcement.
LEMMA AnnouncementsStay ==
    ASSUME MailInv, CalmAnnouncement, ann'.state \in {"none", "draft"} => ann.state \in {"none", "draft"},
           \A r \in Rows : Mild(r, del'[r])
    PROVE  Announcements'
<1>1. ann'.state \in {"none", "draft"} => \A r \in Rows : Service(r) => del'[r].state = "none"
  BY Zenon DEF MailInv, Announcements, Mild
<1>2. CASE ann.state = "completed" /\ snapshot' = snapshot
  <2>1. \A u \in Users : \A r \in AnnouncementRows(u) : r \in Rows
    BY DEF AnnouncementRows, Rows, NotificationRows, CampaignRows
  <2>2. CompletedAccountsForAll
    BY Zenon DEF MailInv, Announcements
  <2>3. CompletedAccountsForAll'
    BY Zenon, <1>2, <2>1, <2>2 DEF CompletedAccountsForAll, Mild
  <2> QED BY Zenon, <1>1, <2>3 DEF Announcements
<1>3. CASE ann'.state # "completed"
  BY Zenon, <1>1, <1>3 DEF Announcements, CompletedAccountsForAll
<1>4. CASE CompletedAccountsForAll'
  BY Zenon, <1>1, <1>4 DEF Announcements
<1> QED BY Zenon, <1>2, <1>3, <1>4 DEF CalmAnnouncement

\* Together: a step that neither sends nor records keeps the invariant.
LEMMA CalmKeeps ==
    ASSUME MailInv, TypeOK', mail' = mail, CalmWorkers, CalmLocks, CalmAnnouncement,
           ann'.state \in {"none", "draft"} => ann.state \in {"none", "draft"},
           CalmSubscription, \A r \in Rows : Mild(r, del'[r]),
           \A w \in Workers : worker'[w] = worker[w] \/ Works(worker[w])'
    PROVE  MailInv'
<1>1. \A r \in Rows : RowOK(r)' /\ (~QuitRefused => MailOK(r)')
  BY Zenon, RowsStay
<1>2. \A w \in Workers : Secured(w)'
  BY Zenon, SecuredStay
<1>3. \A w \in Workers : Works(worker[w])'
  BY Zenon, WorksStay
<1>4. Renewals'
  BY Zenon, RenewalsStay DEF TypeOK
<1>5. Announcements'
  BY Zenon, AnnouncementsStay
<1> QED BY Zenon, <1>1, <1>2, <1>3, <1>4, <1>5 DEF MailInv

\* No row changes.
LEMMA SameRows ==
    ASSUME MailInv, del' = del
    PROVE  del' \in [Rows -> DelRow] /\ \A r \in Rows : Mild(r, del'[r])
  BY Zenon DEF MailInv, TypeOK, Mild

\* One row changes, mildly.
LEMMA OneRow ==
    ASSUME MailInv, NEW r \in Rows, NEW d \in DelRow, del' = [del EXCEPT ![r] = d], Mild(r, d)
    PROVE  del' \in [Rows -> DelRow] /\ \A q \in Rows : Mild(q, del'[q])
<1>1. \A q \in Rows : del'[q] = IF q = r THEN d ELSE del[q]
  BY Zenon DEF MailInv, TypeOK
<1>2. \A q \in Rows : Mild(q, del[q])
  BY Zenon DEF Mild
<1> QED BY Zenon, <1>1, <1>2 DEF MailInv, TypeOK

\* A step of one worker that neither sends nor records.
LEMMA WorkerKeeps ==
    ASSUME MailInv, NEW w \in Workers, NEW st \in Worker, worker' = [worker EXCEPT ![w] = st],
           st.pc \notin Attempt \cup Answered, Works(st)',
           del' \in [Rows -> DelRow], \A r \in Rows : Mild(r, del'[r]),
           ann' \in AnnRow, CalmAnnouncement,
           ann'.state \in {"none", "draft"} => ann.state \in {"none", "draft"},
           UNCHANGED <<user, sub, snapshot, userLock, faults, events, mail>>
    PROVE  MailInv'
<1>1. worker' \in [Workers -> Worker] /\ \A v \in Workers : worker'[v] = IF v = w THEN st ELSE worker[v]
  BY Zenon DEF MailInv, TypeOK
<1>2. TypeOK'
  BY Zenon, <1>1 DEF MailInv, TypeOK
<1>3. CalmWorkers
  BY Zenon, <1>1 DEF CalmWorkers
<1>4. CalmLocks
  BY Zenon DEF CalmLocks
<1>5. CalmSubscription
  BY NotificationAssumption DEF CalmSubscription, MailInv, TypeOK, SubRow, Periods
<1>6. \A v \in Workers : worker'[v] = worker[v] \/ Works(worker[v])'
  BY Zenon, <1>1
<1> HIDE DEF Works
<1> QED BY Zenon, <1>2, <1>3, <1>4, <1>5, <1>6, CalmKeeps

\* The announcement does not change.
LEMMA SameAnnouncement ==
    ASSUME MailInv, UNCHANGED <<ann, snapshot>>
    PROVE  /\ ann' \in AnnRow /\ CalmAnnouncement
           /\ ann'.state \in {"none", "draft"} => ann.state \in {"none", "draft"}
  BY Zenon DEF MailInv, TypeOK, CalmAnnouncement

\* _cancel_invalid_queued_deliveries reads.
LEMMA CancelLoadKeeps ==
    ASSUME MailInv, NEW w \in Workers, CancelLoad(w)
    PROVE  MailInv'
<1>1. PICK r \in Rows :
        /\ del[r].state = "queued"
        /\ worker' = [worker EXCEPT ![w] = [Idle EXCEPT !.pc = "check", !.row = r, !.seen = del[r],
                                    !.ok = Consents(Recipient(r), del[r].gen)]]
  BY Zenon DEF CancelLoad, Become
<1>2. PICK st : st = [Idle EXCEPT !.pc = "check", !.row = r, !.seen = del[r],
                                    !.ok = Consents(Recipient(r), del[r].gen)]
  BY Zenon
<1>3. st \in Worker /\ st.pc = "check" /\ st.row = r
  <2>1. del[r] \in DelRow
    BY Zenon DEF MailInv, TypeOK
  <2>2. Consents(Recipient(r), del[r].gen) \in BOOLEAN
    BY Zenon DEF Consents
  <2> QED BY Zenon, <1>2, <2>1, <2>2, IdleType DEF Idle, Worker, Busy
<1>4. Works(st)'
  BY Zenon, <1>1, <1>3 DEF Works, CancelLoad, InHand
<1> QED BY Zenon, <1>1, <1>2, <1>3, <1>4, SameRows, SameAnnouncement, WorkerKeeps DEF CancelLoad, Attempt, Answered

\* It writes what it decided on a row that may have moved on since: the state it
\* leaves is a final one, and the token of a newer lease stays.
LEMMA CancelWriteKeeps ==
    ASSUME MailInv, NEW w \in Workers, CancelWrite(w)
    PROVE  MailInv'
<1> DEFINE r == worker[w].row
           seen == worker[w].seen
           d == del[r]
<1>1. r \in Rows /\ d.state # "none" /\ d \in DelRow /\ worker[w] \in Worker
  BY Zenon DEF CancelWrite, At, MailInv, Works, InHand, TypeOK
<1>2. worker' = [worker EXCEPT ![w] = Idle] /\ Idle \in Worker /\ Works(Idle)'
      /\ Idle.pc \notin Attempt \cup Answered
  BY Zenon, IdleType DEF CancelWrite, Rest, Become, Works, InHand, Attempt, Answered
<1>3. del' \in [Rows -> DelRow] /\ \A q \in Rows : Mild(q, del'[q])
  <2>1. CASE del' = del
    BY Zenon, <2>1, SameRows
  <2>2. CASE del' = [del EXCEPT ![r].state = "cancelled",
                               ![r].wait = IF seen.wait THEN FALSE ELSE @,
                               ![r].tok = IF seen.tok # None THEN None ELSE @,
                               ![r].live = IF seen.tok # None THEN FALSE ELSE @]
    <3>1. PICK wt \in BOOLEAN : wt = IF seen.wait THEN FALSE ELSE d.wait
      BY Zenon, <1>1, DelType
    <3>2. PICK tk \in {d.tok, None} : tk = IF seen.tok # None THEN None ELSE d.tok
      BY Zenon
    <3>3. PICK lv \in BOOLEAN : lv = IF seen.tok # None THEN FALSE ELSE d.live
      BY Zenon, <1>1, DelType
    <3>4. PICK e : e = [d EXCEPT !.state = "cancelled", !.wait = wt, !.tok = tk, !.live = lv]
      BY Zenon
    <3>5. del' = [del EXCEPT ![r] = e]
      BY Zenon, <1>1, <2>2, <3>1, <3>2, <3>3, <3>4 DEF MailInv, TypeOK, DelRow
    <3>6. e \in DelRow /\ e.state = "cancelled" /\ e.gen = d.gen /\ e.tok = tk
      BY ZenonT(30), <1>1, <3>1, <3>2, <3>3, <3>4 DEF DelRow, Terminal
    <3>7. Mild(r, e)
      BY Zenon, <1>1, <3>6, NotificationAssumption DEF Mild, Fresh
    <3> QED BY Zenon, <1>1, <3>5, <3>6, <3>7, OneRow
  <2> QED BY Zenon, <2>1, <2>2 DEF CancelWrite
<1> QED BY Zenon, <1>2, <1>3, SameAnnouncement, WorkerKeeps DEF CancelWrite

\* The warnings that fall due are rows of the current period.
LEMMA DueInRows ==
    ASSUME MailInv, NEW r \in DueRows
    PROVE  r \in {"week", "day", "unconfirmed"} \X Periods
<1>1. sub.period \in Periods \/ sub.period = 0
  BY Zenon DEF MailInv, TypeOK, SubRow
<1>2. r \in {<<"unconfirmed", sub.period>>, <<"week", sub.period>>, <<"day", sub.period>>}
  BY Zenon DEF DueRows
<1>3. sub.status = "active"
  BY Zenon DEF DueRows
<1> QED BY <1>1, <1>2, <1>3 DEF MailInv, Renewals

\* _queue_due_expirations reads.
LEMMA QueueDueLoadKeeps ==
    ASSUME MailInv, NEW w \in Workers, QueueDueLoad(w)
    PROVE  MailInv'
<1>1. PICK r \in DueRows :
        worker' = [worker EXCEPT ![w] = [Idle EXCEPT !.pc = "insert", !.row = r, !.gen = user[Owner].gen]]
  BY Zenon DEF QueueDueLoad, Become
<1>2. PICK st : st = [Idle EXCEPT !.pc = "insert", !.row = r, !.gen = user[Owner].gen]
  BY Zenon
<1>3. r \in {"week", "day", "unconfirmed"} \X Periods /\ r \in Rows
  BY Zenon, DueInRows DEF Rows, NotificationRows, AccountKinds, Warnings
<1>4. user[Owner].gen \in 0..MaxGen
  BY Zenon, NotificationAssumption DEF MailInv, TypeOK, UserRow
<1>5. st \in Worker /\ st.pc = "insert" /\ st.row = r
  BY Zenon, <1>2, <1>3, <1>4, IdleType DEF Idle, Worker, Busy
<1>6. Works(st)'
  BY Zenon, <1>3, <1>5 DEF Works, InHand, Attempt, Answered
<1> QED BY Zenon, <1>1, <1>2, <1>5, <1>6, SameRows, SameAnnouncement, WorkerKeeps DEF QueueDueLoad, Attempt, Answered

\* A worker ends its part.
LEMMA WorkerRests ==
    ASSUME MailInv, NEW w \in Workers, Rest(w), del' \in [Rows -> DelRow], \A q \in Rows : Mild(q, del'[q]),
           UNCHANGED <<user, sub, ann, snapshot, userLock, faults, events, mail>>
    PROVE  MailInv'
<1>1. worker' = [worker EXCEPT ![w] = Idle] /\ Idle \in Worker /\ Works(Idle)'
      /\ Idle.pc \notin Attempt \cup Answered
  BY Zenon, IdleType DEF Rest, Become, Works, InHand, Attempt, Answered
<1> QED BY Zenon, <1>1, SameAnnouncement, WorkerKeeps

\* _queue_due_expirations inserts, or finds the key taken.
LEMMA QueueDueInsertKeeps ==
    ASSUME MailInv, NEW w \in Workers, QueueDueInsert(w)
    PROVE  MailInv'
<1> DEFINE r == worker[w].row
           e == Queued(r, del[r], worker[w].gen)
<1>1. r \in {"week", "day", "unconfirmed"} \X Periods
  BY Zenon DEF QueueDueInsert, At, MailInv, Works
<1>2. r \in Rows /\ ~Service(r) /\ r[1] # "renewed"
  BY Zenon, <1>1 DEF Rows, NotificationRows, AccountKinds, Warnings, Service
<1>3. del[r] \in DelRow /\ worker[w].gen \in 0..MaxGen
  BY Zenon, <1>2, WorkerType DEF MailInv, TypeOK
<1>4. del' = [del EXCEPT ![r] = e]
  BY Zenon DEF QueueDueInsert
<1>5. e \in DelRow /\ Mild(r, e)
  BY <1>2, <1>3, QueuedType, NotificationAssumption DEF Mild, Fresh
<1>6. del' \in [Rows -> DelRow] /\ \A q \in Rows : Mild(q, del'[q])
  BY Zenon, <1>2, <1>4, <1>5, OneRow
<1> QED BY Zenon, <1>6, WorkerRests DEF QueueDueInsert

\* _expand_queued_announcements queues one recipient.
LEMMA ExpandKeeps ==
    ASSUME MailInv, NEW w \in Workers, Expand(w)
    PROVE  MailInv'
<1>1. worker' = worker /\ worker[w] \in Worker /\ worker[w].pc = "idle" /\ worker' = [worker EXCEPT ![w] = worker[w]]
  BY Zenon DEF Expand, At, MailInv, TypeOK
<1>2. Works(worker[w]) /\ ann.state = "queued" /\ ann \in AnnRow
  BY Zenon DEF MailInv, TypeOK, Expand
<1>3. CASE Remaining = {} /\ ann' = [ann EXCEPT !.expanded = TRUE] /\ UNCHANGED del
  <2>1. ann' \in AnnRow /\ ann'.state = "queued"
    BY Zenon, <1>2, <1>3 DEF AnnRow
  <2>2. del' \in [Rows -> DelRow] /\ \A q \in Rows : Mild(q, del'[q])
    BY Zenon, <1>3, SameRows
  <2>3. CalmAnnouncement
    BY Zenon, <2>1 DEF CalmAnnouncement
  <2>4. PICK st \in Worker : st = worker[w]
    BY Zenon, <1>1
  <2>5. Works(st)'
    BY Zenon, <1>1, <2>4 DEF Works, InHand, Attempt, Answered, MailInv
  <2> QED BY Zenon, <1>1, <2>1, <2>2, <2>3, <2>4, <2>5, WorkerKeeps DEF Expand, Attempt, Answered
<1>4. ASSUME NEW u \in Remaining, ann' = [ann EXCEPT !.cursor = u],
             del' = [del EXCEPT ![<<"announcement", u>>] = Queued(<<"announcement", u>>, @, snapshot[u])]
      PROVE  MailInv'
  <2> DEFINE r == <<"announcement", u>>
             e == Queued(r, del[r], snapshot[u])
  <2>1. u \in Users /\ r \in Rows /\ snapshot[u] \in 0..MaxGen
    BY Zenon DEF Remaining, Rows, NotificationRows, MailInv, TypeOK
  <2>2. ann' \in AnnRow /\ ann'.state = "queued"
    BY Zenon, <1>2, <1>4, <2>1 DEF AnnRow
  <2>3. del[r] \in DelRow /\ r[1] # "renewed"
    BY Zenon, <2>1 DEF MailInv, TypeOK
  <2>4. e \in DelRow /\ Mild(r, e)
    BY ZenonT(30), <1>2, <2>1, <2>3, QueuedType, NotificationAssumption DEF Mild, Fresh
  <2>5. del' \in [Rows -> DelRow] /\ \A q \in Rows : Mild(q, del'[q])
    BY Zenon, <1>4, <2>1, <2>4, OneRow
  <2>6. CalmAnnouncement
    BY Zenon, <2>2 DEF CalmAnnouncement
  <2>7. PICK st \in Worker : st = worker[w]
    BY Zenon, <1>1
  <2>8. Works(st)'
    BY Zenon, <1>1, <2>7 DEF Works, InHand, Attempt, Answered, MailInv
  <2> QED BY Zenon, <1>1, <2>2, <2>5, <2>6, <2>7, <2>8, WorkerKeeps DEF Expand, Attempt, Answered
<1> QED BY Zenon, <1>3, <1>4 DEF Expand

\* A worker goes on to a part that neither sends nor records.
LEMMA WorkerGoes ==
    ASSUME MailInv, NEW w \in Workers, NEW pc \in Busy, Goto(w, pc), pc \notin Attempt \cup Answered \cup {"insert"},
           pc \in InHand => worker[w].row \in Rows /\ del'[worker[w].row].state # "none",
           pc = "finish" => /\ ann'.state \in {"queued", "completed", "cancelled"}
                            /\ worker[w].row # None => del'[worker[w].row].state # "none",
           del' \in [Rows -> DelRow], \A r \in Rows : Mild(r, del'[r]),
           ann' \in AnnRow, CalmAnnouncement,
           ann'.state \in {"none", "draft"} => ann.state \in {"none", "draft"},
           UNCHANGED <<user, sub, snapshot, userLock, faults, events, mail>>
    PROVE  MailInv'
<1>1. PICK st : st = [worker[w] EXCEPT !.pc = pc]
  BY Zenon
<1>2. worker[w] \in Worker
  BY Zenon DEF MailInv, TypeOK
<1>3. st \in Worker /\ st.pc = pc /\ st.row = worker[w].row
  BY Zenon, <1>1, <1>2 DEF Worker
<1>4. Works(st)'
  BY Zenon, <1>3 DEF Works, InHand, Busy
<1>5. worker' = [worker EXCEPT ![w] = st]
  BY Zenon, <1>1 DEF Goto, Become
<1> QED BY Zenon, <1>3, <1>4, <1>5, WorkerKeeps

\* mark_announcement_completed_if_done reads.
LEMMA CompleteLoadKeeps ==
    ASSUME MailInv, NEW w \in Workers, CompleteLoad(w)
    PROVE  MailInv'
<1>1. Works(worker[w]) /\ worker[w].row \in Rows \cup {None}
  BY Zenon, WorkerType DEF MailInv, TypeOK
<1>2. /\ del' \in [Rows -> DelRow] /\ \A r \in Rows : Mild(r, del'[r])
      /\ ann' \in AnnRow /\ CalmAnnouncement
      /\ ann'.state \in {"none", "draft"} => ann.state \in {"none", "draft"}
  BY Zenon, SameRows, SameAnnouncement DEF CompleteLoad
<1>3. CASE /\ worker[w].pc \in {"idle", "complete"}
           /\ ann.state = "queued" /\ ann.expanded
           /\ Goto(w, "finish")
  <2>1. worker[w].row # None => del[worker[w].row].state # "none"
    BY Zenon, <1>1, <1>3 DEF Works, InHand
  <2>2. "finish" \in Busy /\ "finish" \notin Attempt \cup Answered \cup {"insert"} \cup InHand
    BY Zenon DEF Busy, Attempt, Answered, InHand
  <2> QED BY Zenon, <1>2, <1>3, <2>1, <2>2, WorkerGoes DEF CompleteLoad
<1>4. CASE At(w, "complete") /\ Leave(w)
  <2>1. CASE Rest(w)
    BY Zenon, <1>2, <2>1, WorkerRests DEF CompleteLoad
  <2>2. CASE Goto(w, "release")
    <3>1. worker[w].row \in Rows /\ del[worker[w].row].state # "none"
      BY Zenon, <1>1, <1>4 DEF Works, InHand, At
    <3>2. "release" \in Busy /\ "release" \notin Attempt \cup Answered \cup {"insert", "finish"}
      BY Zenon DEF Busy, Attempt, Answered
    <3> QED BY Zenon, <1>2, <2>2, <3>1, <3>2, WorkerGoes DEF CompleteLoad
  <2> QED BY Zenon, <1>4, <2>1, <2>2 DEF Leave
<1> QED BY Zenon, <1>3, <1>4 DEF CompleteLoad

\* It writes COMPLETED when every recipient has a row and none is open.
LEMMA CompleteWriteKeeps ==
    ASSUME MailInv, NEW w \in Workers, CompleteWrite(w)
    PROVE  MailInv'
<1>1. Works(worker[w]) /\ worker[w].row \in Rows \cup {None} /\ worker[w].pc = "finish" /\ ann \in AnnRow
  BY Zenon, WorkerType DEF MailInv, TypeOK, CompleteWrite, At
<1>2. del' \in [Rows -> DelRow] /\ \A r \in Rows : Mild(r, del'[r])
  BY Zenon, SameRows DEF CompleteWrite
<1>3. /\ ann' \in AnnRow /\ CalmAnnouncement
      /\ ann'.state \in {"none", "draft"} => ann.state \in {"none", "draft"}
  <2>1. CASE ann' = ann
    BY Zenon, <2>1, SameAnnouncement DEF CompleteWrite
  <2>2. CASE Accounted /\ ~Unfinished /\ ann' = [ann EXCEPT !.state = "completed"]
    <3>1. ann' \in AnnRow /\ ann'.state = "completed"
      BY Zenon, <1>1, <2>2 DEF AnnRow
    <3>2. \A u \in Users : \A r \in AnnouncementRows(u) : r \in Rows /\ Service(r)
      BY DEF AnnouncementRows, Rows, NotificationRows, CampaignRows, Service
    <3>3. CompletedAccountsForAll'
      BY Zenon, <2>2, <3>2 DEF CompletedAccountsForAll, Accounted, Unfinished, CompleteWrite, AnnouncementRows
    <3> QED BY Zenon, <3>1, <3>3 DEF CalmAnnouncement
  <2> QED BY Zenon, <2>1, <2>2 DEF CompleteWrite
<1>4. CASE Rest(w)
  <2>1. worker' = [worker EXCEPT ![w] = Idle] /\ Idle \in Worker /\ Works(Idle)'
        /\ Idle.pc \notin Attempt \cup Answered
    BY Zenon, <1>4, IdleType DEF Rest, Become, Works, InHand, Attempt, Answered
  <2> QED BY Zenon, <1>2, <1>3, <2>1, WorkerKeeps DEF CompleteWrite
<1>5. CASE worker[w].row # None /\ Goto(w, "release")
  <2>1. worker[w].row \in Rows /\ del[worker[w].row].state # "none"
    BY Zenon, <1>1, <1>5 DEF Works
  <2>2. "release" \in Busy /\ "release" \notin Attempt \cup Answered \cup {"insert", "finish"}
    BY Zenon DEF Busy, Attempt, Answered
  <2> QED BY Zenon, <1>2, <1>3, <1>5, <2>1, <2>2, WorkerGoes DEF CompleteWrite
<1> QED BY Zenon, <1>4, <1>5 DEF CompleteWrite, Leave

\* _claim_due_delivery gives the lease to a worker that has nothing to record.
LEMMA ClaimKeeps ==
    ASSUME MailInv, NEW w \in Workers, NEW rows \in SUBSET Rows, Claim(w, rows)
    PROVE  MailInv'
<1>1. PICK r \in rows :
        /\ Due(r) /\ del' = [del EXCEPT ![r].tok = w, ![r].live = TRUE]
        /\ worker' = [worker EXCEPT ![w] = [Idle EXCEPT !.pc = "claimed", !.row = r]]
  BY Zenon DEF Claim, Become
<1>2. r \in Rows /\ del[r] \in DelRow /\ del[r].state \in {"queued", "sending"}
  BY Zenon, <1>1 DEF MailInv, TypeOK, Due
<1>3. PICK e : e = [del[r] EXCEPT !.tok = w, !.live = TRUE]
  BY Zenon
<1>4. e \in DelRow /\ e.state = del[r].state /\ e.gen = del[r].gen /\ e.tok = w
  BY Zenon, <1>2, <1>3 DEF DelRow
<1>5. del' = [del EXCEPT ![r] = e]
  BY Zenon, <1>1, <1>2, <1>3 DEF MailInv, TypeOK, DelRow
<1>6. PICK st : st = [Idle EXCEPT !.pc = "claimed", !.row = r]
  BY Zenon
<1>7. st \in Worker /\ st.pc = "claimed" /\ st.row = r
  BY Zenon, <1>2, <1>6, IdleType DEF Idle, Worker, Busy
<1>8. worker'[w] = st
  BY Zenon, <1>1, <1>6 DEF MailInv, TypeOK
<1>9. Mild(r, e)
  BY Zenon, <1>4, <1>7, <1>8 DEF Mild, Answered
<1>10. del' \in [Rows -> DelRow] /\ \A q \in Rows : Mild(q, del'[q])
  BY Zenon, <1>2, <1>4, <1>5, <1>9, OneRow
<1>11. del'[r] = e
  BY Zenon, <1>2, <1>5 DEF MailInv, TypeOK
<1>12. Works(st)'
  BY Zenon, <1>2, <1>4, <1>7, <1>11 DEF Works
<1> QED BY Zenon, <1>1, <1>6, <1>7, <1>10, <1>12, SameAnnouncement, WorkerKeeps DEF Claim, Attempt, Answered

\* _release_lease.
LEMMA ReleaseKeeps ==
    ASSUME MailInv, NEW w \in Workers, Release(w)
    PROVE  MailInv'
<1> DEFINE r == worker[w].row
<1>1. r \in Rows /\ del[r] \in DelRow
  BY Zenon DEF Release, At, MailInv, TypeOK, Works, InHand
<1>2. PICK e : e = IF del[r].tok = w THEN [del[r] EXCEPT !.tok = None, !.live = FALSE] ELSE del[r]
  BY Zenon
<1>3. e \in DelRow /\ e.state = del[r].state /\ e.gen = del[r].gen /\ e.tok \in {None, del[r].tok}
  BY Zenon, <1>1, <1>2 DEF DelRow
<1>4. del' = [del EXCEPT ![r] = e]
  BY Zenon, <1>1, <1>2 DEF Release
<1>5. Mild(r, e)
  BY Zenon, <1>3, NotificationAssumption DEF Mild
<1>6. del' \in [Rows -> DelRow] /\ \A q \in Rows : Mild(q, del'[q])
  BY Zenon, <1>1, <1>3, <1>4, <1>5, OneRow
<1> QED BY Zenon, <1>6, WorkerRests DEF Release

----------------------------------------------------------------------------
(* One delivery. *)

\* A worker ends a row mildly.
LEMMA Handled ==
    ASSUME MailInv, NEW w \in Workers, NEW r \in Rows, r = worker[w].row,
           NEW e \in DelRow, del' = [del EXCEPT ![r] = e], Mild(r, e), e.state # "none",
           Goto(w, "release") \/ Goto(w, "complete"),
           UNCHANGED <<user, sub, ann, snapshot, userLock, faults, events, mail>>
    PROVE  MailInv'
<1>1. del' \in [Rows -> DelRow] /\ \A q \in Rows : Mild(q, del'[q])
  BY Zenon, OneRow
<1>2. del'[r].state # "none"
  BY Zenon DEF MailInv, TypeOK
<1>3. \A pc \in {"release", "complete"} : pc \in Busy /\ pc \notin Attempt \cup Answered \cup {"insert", "finish"}
  BY Zenon DEF Busy, Attempt, Answered
<1>4. CASE Goto(w, "release")
  BY Zenon, <1>1, <1>2, <1>3, <1>4, SameAnnouncement, WorkerGoes
<1>5. CASE Goto(w, "complete")
  BY Zenon, <1>1, <1>2, <1>3, <1>5, SameAnnouncement, WorkerGoes
<1> QED BY Zenon, <1>4, <1>5

\* A worker changes its own row, and possibly the account lock it holds or takes: the
\* other rows and the other workers are not concerned.
LEMMA Acts ==
    ASSUME MailInv, NEW w \in Workers, NEW r \in Rows, r = worker[w].row,
           NEW st \in Worker, st.row = r, worker' = [worker EXCEPT ![w] = st],
           NEW e \in DelRow, del' = [del EXCEPT ![r] = e],
           del[r].state # "none", e.state # "none", e.gen = del[r].gen,
           e.state = "sending" /\ Service(r) => del[r].state = "sending" \/ ann.state = "queued",
           NEW m \in Nat, mail' = [mail EXCEPT ![r] = m], m = mail[r] \/ worker[w].pc = "smtp",
           userLock' \in [Users -> Workers \cup {None}],
           \A u \in Users : userLock'[u] = userLock[u] \/ userLock[u] \in {w, None},
           UNCHANGED <<user, sub, ann, snapshot, faults, events>>,
           e.tok \in {del[r].tok, None},
           RowOK(r)', ~QuitRefused => MailOK(r)', Secured(w)', Works(st)'
    PROVE  MailInv'
<1>1. /\ worker' \in [Workers -> Worker] /\ \A v \in Workers : worker'[v] = IF v = w THEN st ELSE worker[v]
      /\ del' \in [Rows -> DelRow] /\ \A q \in Rows : del'[q] = IF q = r THEN e ELSE del[q]
      /\ mail' \in [Rows -> Nat] /\ \A q \in Rows : mail'[q] = IF q = r THEN m ELSE mail[q]
  BY Zenon DEF MailInv, TypeOK
<1>2. TypeOK'
  BY Zenon, <1>1 DEF MailInv, TypeOK
<1>3. \A q \in Rows : RowOK(q)' /\ (~QuitRefused => MailOK(q)')
  <2> SUFFICES ASSUME NEW q \in Rows, q # r
               PROVE  RowOK(q)' /\ (~QuitRefused => MailOK(q)')
    BY Zenon 
  <2>1. RowOK(q) /\ (~QuitRefused => MailOK(q))
    BY Zenon DEF MailInv
  <2>2. \A v \in Workers : /\ Attempts(v, q)' <=> Attempts(v, q)
                           /\ Records(v, q)' <=> Records(v, q)
                           /\ Records(v, q) => worker'[v] = worker[v]
    BY Zenon, <1>1 DEF Attempts, Records
  <2>3. del'[q] = del[q] /\ mail'[q] = mail[q]
    BY Zenon, <1>1
  <2>4. RowOK(q)'
    BY Zenon, <2>1, <2>2, <2>3 DEF RowOK
  <2>5. ASSUME MailOK(q)
        PROVE  MailOK(q)'
    BY Zenon, <2>2, <2>3, <2>5 DEF MailOK
  <2> QED BY Zenon, <2>1, <2>4, <2>5
<1>4. ASSUME NEW v \in Workers, v # w
      PROVE  Secured(v)'
  <2>1. worker'[v] = worker[v] /\ Secured(v) /\ Works(worker[v])
    BY Zenon, <1>1, <1>4 DEF MailInv
  <2> DEFINE rv == worker[v].row
             uv == Recipient(rv)
  <2>2. CASE worker[v].pc \in {"smtp"} \cup Answered
    <3>1. rv \in Rows /\ uv \in Users /\ userLock[uv] = v /\ userLock'[uv] = v
      BY Zenon, <1>4, <2>1, <2>2, RecipientType, NotificationAssumption DEF Works, InHand, Attempt, Secured
    <3>2. del'[rv].gen = del[rv].gen
      BY Zenon, <1>1, <3>1
    <3>3. worker[v].pc = "smtp" => Reachable(rv)'
      BY ZenonT(30), <2>1, <3>1, <3>2 DEF Secured, Reachable
    <3>4. ASSUME worker[v].pc = "smtp", ~Service(rv)
          PROVE  Unconfirmed(rv)'
      <4> SUFFICES ASSUME NEW q \in Periods, rv[2] < q
                   PROVE  mail'[<<"renewed", q>>] = 0
        BY SMTT(30) DEF Unconfirmed
      <4>1. <<"renewed", q>> \in Rows /\ ~Service(<<"renewed", q>>)
        BY Zenon DEF Rows, NotificationRows, AccountKinds, Service
      <4>2. mail[<<"renewed", q>>] = 0
        BY Zenon, <2>1, <3>4 DEF Secured, Unconfirmed
      <4>3. ASSUME r = <<"renewed", q>>, worker[w].pc = "smtp"
            PROVE  FALSE
        <5>1. userLock[Recipient(r)] = w
          BY Zenon, <4>3 DEF MailInv, Secured
        <5>2. Recipient(r) = uv
          BY Zenon, <4>1, <4>3, <3>4 DEF Recipient
        <5> QED BY Zenon, <1>4, <3>1, <5>1, <5>2
      <4> QED BY Zenon, <1>1, <4>1, <4>2, <4>3
    <3> QED BY Zenon, <2>1, <3>1, <3>3, <3>4 DEF Secured
  <2>3. CASE worker[v].pc \notin {"smtp"} \cup Answered
    BY Zenon, <2>1, <2>3 DEF Secured
  <2> QED BY Zenon, <2>2, <2>3
<1>5. \A v \in Workers : Works(worker[v])'
  BY ZenonT(30), <1>1 DEF MailInv, Works, TypeOK, Worker
<1>6. Renewals'
  BY Zenon, <1>1 DEF MailInv, Renewals, Rows, NotificationRows, AccountKinds
<1>7. Announcements'
  <2>1. ann.state \in {"none", "draft"} => \A q \in Rows : Service(q) => del'[q].state = "none"
    BY Zenon, <1>1 DEF MailInv, Announcements
  <2>2. \A u \in Users : \A q \in AnnouncementRows(u) : q \in Rows /\ Service(q)
    BY SMTT(30) DEF AnnouncementRows, Rows, NotificationRows, CampaignRows, Service
  <2>3. CompletedAccountsForAll
    BY Zenon DEF MailInv, Announcements
  <2>4. CompletedAccountsForAll'
    BY ZenonT(30), <1>1, <2>2, <2>3 DEF CompletedAccountsForAll
  <2> QED BY Zenon, <2>1, <2>4 DEF Announcements
<1> QED BY Zenon, <1>2, <1>3, <1>4, <1>5, <1>6, <1>7 DEF MailInv

\* One claimed row. It becomes SENDING only from QUEUED, when nobody attempts it and
\* it was never mailed.
LEMMA ProcessKeeps ==
    ASSUME MailInv, NEW w \in Workers, Process(w)
    PROVE  MailInv'
<1>0. PICK r, d : r = worker[w].row /\ d = del[r]
  BY Zenon
<1>1. r \in Rows /\ d \in DelRow /\ d.state # "none" /\ worker[w] \in Worker
  BY Zenon, <1>0 DEF Process, At, MailInv, TypeOK, Works, InHand
<1>2. UNCHANGED <<user, sub, ann, snapshot, userLock, faults, events, mail>>
  BY Zenon DEF Process
<1>3. del = [del EXCEPT ![r] = d] /\ Mild(r, d)
  BY Zenon, <1>0, <1>1 DEF MailInv, TypeOK, Mild
<1>4. Processed(w) => Goto(w, "release") \/ Goto(w, "complete")
  BY Zenon DEF Processed
<1>5. CASE Goto(w, "release") /\ UNCHANGED del
  BY Zenon, <1>0, <1>1, <1>2, <1>3, <1>5, Handled
<1>6. CASE d.state = "sending" /\ del' = [del EXCEPT ![r] = Closed(r, @, "ambiguous")] /\ Processed(w)
  <2>1. PICK e : e = Closed(r, d, "ambiguous")
    BY Zenon 
  <2>2. e \in DelRow /\ e.state = "ambiguous" /\ e.gen = d.gen /\ e.tok \in {d.tok, None}
    BY SMTT(30), <1>0, <1>1, <2>1, ClosedType DEF Terminal
  <2>3. Mild(r, e)
    BY Zenon, <1>0, <1>1, <1>6, <2>2, NotificationAssumption DEF Mild, Fresh
  <2>4. del' = [del EXCEPT ![r] = e]
    BY Zenon, <1>0, <1>6, <2>1
  <2> QED BY Zenon, <1>0, <1>1, <1>2, <1>4, <1>6, <2>2, <2>3, <2>4, Handled
<1>7. ASSUME NEW s \in {"cancelled", "failed"}, s = "failed" => d.state = "queued",
             del' = [del EXCEPT ![r] = Ended(@, s)], Processed(w)
      PROVE  MailInv'
  <2>1. PICK e : e = Ended(d, s)
    BY Zenon 
  <2>2. e \in DelRow /\ e.state = s /\ e.gen = d.gen /\ e.tok = None
    BY SMTT(30), <1>0, <1>1, <2>1, EndedType DEF Terminal
  <2>3. Mild(r, e)
    BY Zenon, <1>0, <1>1, <1>7, <2>2, NotificationAssumption DEF Mild, Fresh
  <2>4. del' = [del EXCEPT ![r] = e]
    BY Zenon, <1>0, <1>7, <2>1
  <2> QED BY Zenon, <1>0, <1>1, <1>2, <1>4, <1>7, <2>2, <2>3, <2>4, Handled
<1>8. CASE /\ d.tok = w /\ d.state = "queued" /\ Eligible(r) /\ d.tries < MaxAttempts
           /\ del' = [del EXCEPT ![r].state = "sending", ![r].tries = @ + 1, ![r].wait = FALSE]
           /\ Goto(w, "sending")
  <2>1. PICK e : e = [d EXCEPT !.state = "sending", !.tries = @ + 1, !.wait = FALSE]
    BY Zenon 
  <2>2. d.tries + 1 \in 0..MaxAttempts
    BY <1>0, <1>1, <1>8, DelType, NotificationAssumption
  <2>3. e \in DelRow /\ e.state = "sending" /\ e.gen = d.gen /\ e.tok = d.tok
    BY Zenon, <1>0, <1>1, <2>1, <2>2 DEF DelRow
  <2>4. del' = [del EXCEPT ![r] = e]
    BY Zenon, <1>0, <1>1, <1>8, <2>1 DEF MailInv, TypeOK, DelRow
  <2>5. PICK st : st = [worker[w] EXCEPT !.pc = "sending"]
    BY Zenon
  <2>6. st \in Worker /\ st.pc = "sending" /\ st.row = r
    BY Zenon, <1>0, <1>1, <2>5 DEF Worker, Busy
  <2>7. worker' = [worker EXCEPT ![w] = st] /\ worker'[w] = st /\ \A v \in Workers : v # w => worker'[v] = worker[v]
    BY Zenon, <1>8, <2>5 DEF Goto, Become, MailInv, TypeOK
  <2>8. /\ del'[r] = e /\ mail'[r] = mail[r] /\ \A v \in Workers : ~Attempts(v, r)
        /\ ~QuitRefused => mail[r] = 0
    BY Zenon, <1>0, <1>1, <1>2, <1>8, <2>4 DEF MailInv, TypeOK, RowOK, MailOK, Fresh
  <2>9. RowOK(r)' /\ (~QuitRefused => MailOK(r)')
    <3>1. \A v \in Workers : Attempts(v, r)' <=> v = w
      BY Zenon, <2>6, <2>7, <2>8 DEF Attempts, Attempt
    <3>2. ~Records(w, r)' /\ del'[r].tok = w /\ del'[r].state \notin Fresh
      BY Zenon, <1>8, <2>3, <2>6, <2>7, <2>8 DEF Records, Answered, Fresh
    <3>3. RowOK(r)'
      BY Zenon, <3>1, <3>2 DEF RowOK, Fresh
    <3>4. ASSUME mail[r] = 0
          PROVE  MailOK(r)'
      BY <2>8, <3>4 DEF MailOK
    <3> QED BY Zenon, <2>8, <3>3, <3>4
  <2>10. Works(st)'
    BY Zenon, <1>0, <1>1, <2>3, <2>6, <2>8 DEF Works, InHand, Attempt
  <2>11. Secured(w)'
    BY Zenon, <2>6, <2>7 DEF Secured, Answered
  <2>12. Service(r) => ann.state = "queued"
    <3>1. Service(r) => r \notin ReminderRows
      BY Zenon DEF Service, ReminderRows
    <3>2. r \in NotificationRows \/ r \in ReminderRows \/ r \in CampaignRows
      BY Zenon, <1>0, <1>1 DEF Rows
    <3> QED BY Zenon, <1>8, <3>1, <3>2 DEF Eligible, Holds, CampaignHolds
  <2>13. mail[r] \in Nat /\ mail' = [mail EXCEPT ![r] = mail[r]] /\ userLock' \in [Users -> Workers \cup {None}]
    BY Zenon, <1>0, <1>1, <1>2 DEF MailInv, TypeOK
  <2>14. \A u \in Users : userLock'[u] = userLock[u]
    BY Zenon, <1>2
  <2> QED BY Zenon, <1>0, <1>1, <1>2, <2>3, <2>4, <2>6, <2>7, <2>9, <2>10, <2>11, <2>12, <2>13, <2>14, Acts
<1> QED BY Zenon, <1>0, <1>1, <1>5, <1>6, <1>7, <1>8 DEF Process

\* The sender locks the account, or gives up a message nobody sent.
LEMMA LockKeeps ==
    ASSUME MailInv, NEW w \in Workers, Lock(w)
    PROVE  MailInv'
<1>0. PICK r, d, u : r = worker[w].row /\ d = del[r] /\ u = Recipient(r)
  BY Zenon
<1>1. r \in Rows /\ d \in DelRow /\ d.state # "none" /\ worker[w] \in Worker /\ u \in Users
  BY Zenon, <1>0, RecipientType DEF Lock, At, MailInv, TypeOK, Works, InHand, Attempt
<1>2. UNCHANGED <<user, sub, ann, snapshot, faults, events, mail>> /\ userLock[u] = None
  BY Zenon, <1>0 DEF Lock
<1>3. /\ d.state \notin Fresh /\ (~QuitRefused => mail[r] = 0)
      /\ \A v \in Workers : ~(v # w /\ Attempts(v, r)) /\ ~(d.tok = v /\ Records(v, r))
  BY Zenon, <1>0, <1>1 DEF Lock, At, MailInv, RowOK, MailOK, Attempts, Attempt
<1>4. mail[r] \in Nat /\ mail' = [mail EXCEPT ![r] = mail[r]] /\ userLock \in [Users -> Workers \cup {None}]
  BY Zenon, <1>0, <1>1, <1>2 DEF MailInv, TypeOK
<1>5. ASSUME NEW s \in {"cancelled", "failed"}, Fence(w, Ended(del[r], s)), Processed(w), UNCHANGED userLock
      PROVE  MailInv'
  <2>1. PICK e : e = IF d.tok = w THEN Ended(d, s) ELSE d
    BY Zenon
  <2>2. /\ e \in DelRow /\ e.gen = d.gen /\ e.tok \in {d.tok, None} /\ e.state # "none"
        /\ e.state = "sending" => d.state = "sending"
    BY <1>1, <2>1, EndedType DEF Terminal
  <2>3. del' = [del EXCEPT ![r] = e]
    BY Zenon, <1>0, <1>5, <2>1 DEF Fence
  <2>4. PICK pc \in {"release", "complete"} : Goto(w, pc)
    BY Zenon, <1>5 DEF Processed
  <2>5. PICK st : st = [worker[w] EXCEPT !.pc = pc]
    BY Zenon
  <2>6. st \in Worker /\ st.pc = pc /\ st.row = r
    BY Zenon, <1>0, <1>1, <2>5 DEF Worker, Busy
  <2>7. worker' = [worker EXCEPT ![w] = st] /\ worker'[w] = st /\ \A v \in Workers : v # w => worker'[v] = worker[v]
    BY Zenon, <2>4, <2>5 DEF Goto, Become, MailInv, TypeOK
  <2>8. del'[r] = e /\ mail'[r] = mail[r]
    BY Zenon, <1>1, <1>2, <2>3 DEF MailInv, TypeOK
  <2>9. RowOK(r)' /\ (~QuitRefused => MailOK(r)')
    <3>1. \A v \in Workers : ~Attempts(v, r)'
      BY Zenon, <1>3, <2>6, <2>7 DEF Attempts, Attempt
    <3>2. RowOK(r)'
      BY Zenon, <2>2, <2>8, <3>1 DEF RowOK
    <3>3. ASSUME mail[r] = 0
          PROVE  MailOK(r)'
      BY <2>8, <3>3 DEF MailOK
    <3> QED BY Zenon, <1>3, <3>2, <3>3
  <2>10. Works(st)'
    BY Zenon, <1>1, <2>2, <2>6, <2>8 DEF Works, InHand
  <2>11. Secured(w)'
    BY Zenon, <2>6, <2>7 DEF Secured, Answered
  <2>12. \A x \in Users : userLock'[x] = userLock[x]
    BY Zenon, <1>5
  <2> QED BY ZenonT(30), <1>0, <1>1, <1>2, <1>4, <1>5, <2>2, <2>3, <2>6, <2>7, <2>9, <2>10, <2>11, <2>12, Acts
<1>6. CASE /\ Reachable(r) /\ StillHolds(r)
           /\ userLock' = [userLock EXCEPT ![u] = w]
           /\ Goto(w, "smtp") /\ UNCHANGED del
  <2>1. PICK st : st = [worker[w] EXCEPT !.pc = "smtp"]
    BY Zenon
  <2>2. st \in Worker /\ st.pc = "smtp" /\ st.row = r
    BY Zenon, <1>0, <1>1, <2>1 DEF Worker, Busy
  <2>3. worker' = [worker EXCEPT ![w] = st] /\ worker'[w] = st /\ \A v \in Workers : v # w => worker'[v] = worker[v]
    BY Zenon, <1>6, <2>1 DEF Goto, Become, MailInv, TypeOK
  <2>4. del' = [del EXCEPT ![r] = d] /\ del'[r] = d /\ mail'[r] = mail[r]
    BY Zenon, <1>0, <1>1, <1>2, <1>6 DEF MailInv, TypeOK
  <2>5. RowOK(r)' /\ (~QuitRefused => MailOK(r)')
    <3>1. \A v \in Workers : Attempts(v, r)' => v = w
      BY Zenon, <1>3, <2>3 DEF Attempts
    <3>2. \A v \in Workers : Records(v, r)' => Records(v, r)
      BY Zenon, <2>2, <2>3 DEF Records, Answered
    <3>3. RowOK(r)'
      BY Zenon, <1>3, <2>4, <3>1, <3>2 DEF RowOK, Fresh
    <3>4. ASSUME mail[r] = 0
          PROVE  MailOK(r)'
      BY <2>4, <3>4 DEF MailOK
    <3> QED BY Zenon, <1>3, <3>3, <3>4
  <2>6. Works(st)'
    BY Zenon, <1>1, <2>2, <2>4 DEF Works, InHand, Attempt
  <2>7. userLock' \in [Users -> Workers \cup {None}] /\ userLock'[u] = w
        /\ \A x \in Users : userLock'[x] = userLock[x] \/ userLock[x] \in {w, None}
    BY Zenon, <1>1, <1>2, <1>4, <1>6
  <2>8. Reachable(r)'
    BY Zenon, <1>0, <1>2, <1>6 DEF Reachable
  <2>9. ~Service(r) => Unconfirmed(r)'
    <3> SUFFICES ASSUME ~Service(r), NEW q \in Periods, r[2] < q
                 PROVE  mail[<<"renewed", q>>] = 0
      BY Zenon, <1>2 DEF Unconfirmed
    <3>1. sub.period = r[2]
      <4>0. r \notin CampaignRows
        BY Zenon DEF Service, CampaignRows
      <4>1. CASE r \in ReminderRows
        BY Zenon, <1>6, <4>1 DEF StillHolds
      <4>2. CASE r \in NotificationRows
        <5>1. r \notin ReminderRows
          BY Zenon, <4>2 DEF NotificationRows, ReminderRows, AccountKinds, Warnings
        <5>2. Eligible(r)
          BY Zenon, <1>6, <5>1 DEF StillHolds
        <5>3. EventHolds(r)
          BY Zenon, <4>2, <5>1, <5>2, <4>0 DEF Eligible, Holds
        <5> QED BY Zenon, <5>3 DEF EventHolds
      <4> QED BY Zenon, <1>1, <4>0, <4>1, <4>2 DEF Rows
    <3>2. <<"renewed", q>> \in Rows
      BY Zenon DEF Rows, NotificationRows, AccountKinds
    <3>3. del[<<"renewed", q>>].state = "none"
      BY Zenon, <3>1 DEF MailInv, Renewals
    <3> QED BY Zenon, <3>2, <3>3 DEF MailInv, RowOK, Fresh
  <2>10. Secured(w)'
    BY Zenon, <1>0, <2>2, <2>3, <2>7, <2>8, <2>9 DEF Secured
  <2>11. /\ del[r].state # "none" /\ d.gen = del[r].gen /\ d.tok \in {del[r].tok, None}
         /\ d.state = "sending" /\ Service(r) => del[r].state = "sending" \/ ann.state = "queued"
    BY Zenon, <1>0, <1>1
  <2>12. UNCHANGED <<user, sub, ann, snapshot, faults, events>>
    BY Zenon, <1>2
  <2> QED BY ZenonT(30), <1>0, <1>1, <1>4, <2>2, <2>3, <2>4, <2>5, <2>6, <2>7, <2>10, <2>11, <2>12, Acts
<1> QED BY Zenon, <1>0, <1>5, <1>6 DEF Lock

\* The one step that mails, by the only worker that attempts the row.
LEMMA SmtpKeeps ==
    ASSUME MailInv, NEW w \in Workers, Smtp(w)
    PROVE  MailInv'
<1>0. PICK r, d : r = worker[w].row /\ d = del[r]
  BY Zenon
<1>1. r \in Rows /\ d \in DelRow /\ d.state # "none" /\ worker[w] \in Worker /\ worker[w].pc = "smtp"
  BY Zenon, <1>0 DEF Smtp, At, MailInv, TypeOK, Works, InHand, Attempt
<1>2. UNCHANGED <<user, sub, ann, snapshot, del, userLock, faults, events>>
  BY Zenon DEF Smtp
<1>3. /\ d.state \notin Fresh /\ (~QuitRefused => mail[r] = 0)
      /\ \A v \in Workers : ~(v # w /\ Attempts(v, r)) /\ ~(d.tok = v /\ Records(v, r))
  BY Zenon, <1>0, <1>1 DEF MailInv, RowOK, MailOK, Attempts, Attempt
<1>4. PICK o \in Outcome : /\ mail' = [mail EXCEPT ![r] = IF o.took THEN @ + 1 ELSE @]
                           /\ Goto(w, o.says)
  BY Zenon, <1>0 DEF Smtp
<1>5. PICK says \in Answered : says = o.says
  BY Zenon, <1>4 DEF Outcome, Answered
<1>6. PICK m \in Nat : m = IF o.took THEN mail[r] + 1 ELSE mail[r]
  BY <1>1 DEF MailInv, TypeOK
<1>7. says \in {"transient", "permanent"} /\ ~QuitRefused => ~o.took
  BY Zenon, <1>5 DEF Outcome
<1>8. mail' = [mail EXCEPT ![r] = m] /\ mail'[r] = m
  BY Zenon, <1>1, <1>4, <1>6 DEF MailInv, TypeOK
<1>9. PICK st : st = [worker[w] EXCEPT !.pc = says]
  BY Zenon
<1>10. st \in Worker /\ st.pc = says /\ st.row = r
  BY Zenon, <1>0, <1>1, <1>9 DEF Worker, Busy, Answered
<1>11. worker' = [worker EXCEPT ![w] = st] /\ worker'[w] = st /\ \A v \in Workers : v # w => worker'[v] = worker[v]
  BY Zenon, <1>4, <1>5, <1>9 DEF Goto, Become, MailInv, TypeOK
<1>12. del' = [del EXCEPT ![r] = d] /\ del'[r] = d
  BY Zenon, <1>0, <1>1, <1>2 DEF MailInv, TypeOK
<1>13. RowOK(r)' /\ (~QuitRefused => MailOK(r)')
  <2>1. \A v \in Workers : ~Attempts(v, r)'
    BY Zenon, <1>3, <1>10, <1>11 DEF Attempts, Attempt, Answered
  <2>2. \A v \in Workers : v # w => ~(d.tok = v /\ Records(v, r)')
    BY Zenon, <1>3, <1>11 DEF Records
  <2>3. RowOK(r)'
    BY Zenon, <1>3, <1>12, <2>1 DEF RowOK, Fresh
  <2>4. ASSUME ~QuitRefused
        PROVE  MailOK(r)'
    <3>1. m \in {0, 1} /\ (says \in {"transient", "permanent"} => m = 0)
      BY <1>3, <1>6, <1>7, <2>4
    <3> QED BY <1>3, <1>8, <1>10, <1>11, <1>12, <2>1, <2>2, <3>1 DEF MailOK
  <2> QED BY Zenon, <2>3, <2>4
<1>14. Works(st)'
  BY Zenon, <1>1, <1>10, <1>12 DEF Works, InHand, Answered
<1>15. Secured(w)'
  BY Zenon, <1>0, <1>1, <1>2, <1>10, <1>11 DEF Secured, Answered, MailInv
<1>16. userLock' \in [Users -> Workers \cup {None}] /\ \A x \in Users : userLock'[x] = userLock[x]
  BY Zenon, <1>2 DEF MailInv, TypeOK
<1>17. /\ del[r].state # "none" /\ d.gen = del[r].gen /\ d.tok \in {del[r].tok, None}
       /\ d.state = "sending" /\ Service(r) => del[r].state = "sending" \/ ann.state = "queued"
  BY Zenon, <1>0, <1>1
<1>18. UNCHANGED <<user, sub, ann, snapshot, faults, events>> /\ m \in Nat
  BY Zenon, <1>2, <1>6
<1> QED BY ZenonT(30), <1>0, <1>1, <1>8, <1>10, <1>11, <1>12, <1>13, <1>14, <1>15, <1>16, <1>17, <1>18, Acts

\* The answer is recorded under the lease, if the worker still has it.
LEMMA RecordKeeps ==
    ASSUME MailInv, NEW w \in Workers, Record(w)
    PROVE  MailInv'
<1>0. PICK r, d, u, says : r = worker[w].row /\ d = del[r] /\ u = Recipient(r) /\ says = worker[w].pc
  BY Zenon
<1>1. r \in Rows /\ d \in DelRow /\ d.state # "none" /\ worker[w] \in Worker /\ u \in Users /\ says \in Answered
  BY Zenon, <1>0, RecipientType DEF Record, Answered, MailInv, TypeOK, Works, InHand
<1>2. UNCHANGED <<user, sub, ann, snapshot, faults, events, mail>> /\ userLock[u] = w
  BY Zenon, <1>0, <1>1 DEF Record, MailInv, Secured
<1>3. RowOK(r) /\ (~QuitRefused => MailOK(r))
  BY Zenon, <1>1 DEF MailInv
<1>4. PICK e : e = IF d.tok = w THEN Result(r, says) ELSE d
  BY Zenon 
<1>5. /\ e \in DelRow /\ e.gen = d.gen /\ e.tok \in {d.tok, None} /\ e.state # "none"
      /\ e.state = "sending" => d.state = "sending"
      /\ d.tok = w /\ says \notin {"transient", "permanent"} => e.state \in {"sent", "ambiguous"}
  <2>1. CASE d.tok = w /\ says = "transient" /\ d.tries < MaxAttempts
    BY Zenon, <1>0, <1>1, <1>4, <2>1 DEF Result, DelRow
  <2>2. CASE d.tok = w /\ ~(says = "transient" /\ d.tries < MaxAttempts)
    <3>1. CASE says = "sent"
      <4>1. e = Closed(r, d, "sent")
        BY Zenon, <1>0, <1>4, <2>2, <3>1 DEF Result
      <4> QED BY Zenon, <1>1, <2>2, <3>1, <4>1, ClosedType DEF Terminal
    <3>2. CASE says = "ambiguous"
      <4>1. e = Ended(d, "ambiguous")
        BY Zenon, <1>0, <1>4, <2>2, <3>2 DEF Result
      <4> QED BY Zenon, <1>1, <2>2, <3>2, <4>1, EndedType DEF Terminal
    <3>3. CASE says \in {"transient", "permanent"}
      <4>1. e = Ended(d, "failed")
        BY Zenon, <1>0, <1>4, <2>2, <3>3 DEF Result
      <4> QED BY Zenon, <1>1, <2>2, <3>3, <4>1, EndedType DEF Terminal
    <3> QED BY Zenon, <1>1, <3>1, <3>2, <3>3 DEF Answered
  <2>3. CASE d.tok # w
    BY Zenon, <1>1, <1>4, <2>3
  <2> QED BY Zenon, <2>1, <2>2, <2>3
<1>6. del' = [del EXCEPT ![r] = e]
  BY Zenon, <1>0, <1>4 DEF Record, Fence
<1>7. PICK pc \in {"release", "complete"} : Goto(w, pc)
  BY Zenon DEF Record, Processed
<1>8. PICK st : st = [worker[w] EXCEPT !.pc = pc]
  BY Zenon
<1>9. st \in Worker /\ st.pc = pc /\ st.row = r
  BY Zenon, <1>0, <1>1, <1>8 DEF Worker, Busy
<1>10. worker' = [worker EXCEPT ![w] = st] /\ worker'[w] = st /\ \A v \in Workers : v # w => worker'[v] = worker[v]
  BY Zenon, <1>7, <1>8 DEF Goto, Become, MailInv, TypeOK
<1>11. del'[r] = e /\ mail'[r] = mail[r]
  BY Zenon, <1>1, <1>2, <1>6 DEF MailInv, TypeOK
<1>12. RowOK(r)' /\ (~QuitRefused => MailOK(r)')
  <2>1. Records(w, r) /\ ~Attempts(w, r)' /\ ~Records(w, r)'
    BY Zenon, <1>0, <1>1, <1>9, <1>10 DEF Records, Attempts, Attempt, Answered
  <2>2. \A v \in Workers : (Attempts(v, r)' => Attempts(v, r)) /\ (Records(v, r)' => v # w /\ Records(v, r) /\ worker'[v] = worker[v])
    BY Zenon, <1>10, <2>1 DEF Records, Attempts
  <2>3. CASE d.tok # w
    <3>1. RowOK(r)'
      BY ZenonT(30), <1>0, <1>3, <1>4, <1>11, <2>2, <2>3 DEF RowOK
    <3>2. ASSUME MailOK(r)
          PROVE  MailOK(r)'
      BY Zenon, <1>0, <1>4, <1>11, <2>2, <2>3, <3>2 DEF MailOK
    <3> QED BY Zenon, <1>3, <3>1, <3>2
  <2>4. CASE d.tok = w
    <3>1. \A v \in Workers : ~Attempts(v, r)
      BY Zenon, <1>0, <1>3, <2>1, <2>4 DEF RowOK
    <3>2. \A v \in Workers : ~(e.tok = v /\ Records(v, r)')
      BY Zenon, <1>5, <2>2, <2>4, NotificationAssumption
    <3>3. RowOK(r)'
      BY Zenon, <1>5, <1>11, <2>2, <3>1 DEF RowOK
    <3>4. ASSUME MailOK(r)
          PROVE  MailOK(r)'
      <4>1. e.state \in Fresh => mail[r] = 0
        BY Zenon, <1>0, <1>5, <2>1, <2>4, <3>4 DEF MailOK, Fresh
      <4> QED BY Zenon, <1>11, <2>2, <3>1, <3>2, <3>4, <4>1 DEF MailOK
    <3> QED BY Zenon, <1>3, <3>3, <3>4
  <2> QED BY Zenon, <2>3, <2>4
<1>13. Works(st)'
  BY Zenon, <1>1, <1>5, <1>9, <1>11 DEF Works, InHand
<1>14. Secured(w)'
  BY Zenon, <1>9, <1>10 DEF Secured, Answered
<1>15. userLock' \in [Users -> Workers \cup {None}] /\ \A x \in Users : userLock'[x] = userLock[x] \/ userLock[x] \in {w, None}
  BY Zenon, <1>0, <1>1, <1>2 DEF Record, MailInv, TypeOK
<1>16. mail[r] \in Nat /\ mail' = [mail EXCEPT ![r] = mail[r]]
  BY Zenon, <1>1, <1>2 DEF MailInv, TypeOK
<1> QED BY ZenonT(30), <1>0, <1>1, <1>2, <1>5, <1>6, <1>9, <1>10, <1>12, <1>13, <1>14, <1>15, <1>16, Acts

----------------------------------------------------------------------------
(* Crashes, time and events. *)

\* A replica stops: its locks go, its leases stay.
LEMMA CrashKeeps ==
    ASSUME MailInv, NEW w \in Workers, Crash(w)
    PROVE  MailInv'
<1>1. /\ worker' \in [Workers -> Worker] /\ \A v \in Workers : worker'[v] = IF v = w THEN Idle ELSE worker[v]
      /\ Works(Idle)' /\ Idle.pc = "idle"
  BY Zenon, IdleType DEF Crash, Rest, Become, MailInv, TypeOK, Works, InHand, Attempt, Answered
<1>2. faults' \in 0..MaxFaults
  BY NotificationAssumption DEF Crash, MailInv, TypeOK
<1>3. userLock' \in [Users -> Workers \cup {None}]
  BY Zenon DEF Crash, MailInv, TypeOK
<1>4. UNCHANGED <<user, sub, ann, snapshot, del, events, mail>>
  BY Zenon DEF Crash
<1>5. TypeOK'
  BY Zenon, <1>1, <1>2, <1>3, <1>4 DEF MailInv, TypeOK
<1>6. CalmWorkers /\ \A v \in Workers : worker'[v] = worker[v] \/ Works(worker[v])'
  BY Zenon, <1>1 DEF CalmWorkers, Attempt, Answered
<1>7. CalmLocks
  <2> SUFFICES ASSUME NEW v \in Workers, worker'[v] = worker[v], worker[v].pc \in {"smtp"} \cup Answered
               PROVE  userLock'[Recipient(worker[v].row)] = userLock[Recipient(worker[v].row)]
    BY Zenon, <1>4 DEF CalmLocks
  <2>1. v # w
    BY Zenon, <1>1 DEF Answered
  <2>2. Secured(v) /\ worker[v].row \in Rows
    BY Zenon DEF MailInv, Works, InHand, Attempt
  <2> QED BY Zenon, <2>1, <2>2, RecipientType DEF Secured, Crash
<1>8. CalmSubscription
  BY <1>4, NotificationAssumption DEF CalmSubscription, MailInv, TypeOK, SubRow, Periods
<1> HIDE DEF Works
<1> QED BY Zenon, <1>4, <1>5, <1>6, <1>7, <1>8, SameRows, SameAnnouncement, CalmKeeps

\* A step of customers, administrators, settlement or time changes no account whose
\* lock is held.
LEMMA EventKeeps ==
    ASSUME MailInv, TypeOK', UNCHANGED <<userLock, worker, mail>>, CalmSubscription, CalmAnnouncement,
           ann'.state \in {"none", "draft"} => ann.state \in {"none", "draft"},
           \A r \in Rows : Mild(r, del'[r]),
           \A u \in Users : userLock[u] # None => user'[u].has = user[u].has /\ user'[u].gen = user[u].gen
    PROVE  MailInv'
<1>1. CalmWorkers /\ \A w \in Workers : worker'[w] = worker[w]
  BY Zenon DEF CalmWorkers
<1>2. CalmLocks
  <2> SUFFICES ASSUME NEW w \in Workers, worker[w].pc \in {"smtp"} \cup Answered
               PROVE  userLock[Recipient(worker[w].row)] # None /\ Recipient(worker[w].row) \in Users
    BY Zenon DEF CalmLocks
  <2>1. Secured(w) /\ worker[w].row \in Rows
    BY Zenon DEF MailInv, Works, InHand, Attempt
  <2> QED BY Zenon, <2>1, RecipientType, NotificationAssumption DEF Secured
<1> QED BY Zenon, <1>1, <1>2, CalmKeeps

\* The subscription does not change.
LEMMA SameSubscription ==
    ASSUME MailInv, sub' = sub
    PROVE  sub' \in SubRow /\ CalmSubscription
  BY NotificationAssumption DEF CalmSubscription, MailInv, TypeOK, SubRow, Periods

\* Leases and retry delays elapse.
LEMMA ElapsesKeep ==
    ASSUME MailInv, NEW r \in Rows, LeaseElapses(r) \/ RetryElapses(r)
    PROVE  MailInv'
<1>1. UNCHANGED <<user, sub, ann, snapshot, userLock, worker, events, mail>> /\ faults' \in 0..MaxFaults
  BY NotificationAssumption DEF LeaseElapses, RetryElapses, MailInv, TypeOK
<1>2. del[r] \in DelRow
  BY Zenon DEF MailInv, TypeOK
<1>3. PICK e : /\ e = [del[r] EXCEPT !.live = FALSE] \/ e = [del[r] EXCEPT !.wait = FALSE]
               /\ del' = [del EXCEPT ![r] = e]
  <2>1. CASE LeaseElapses(r)
    <3>1. del' = [del EXCEPT ![r] = [del[r] EXCEPT !.live = FALSE]]
      BY Zenon, <2>1 DEF LeaseElapses
    <3> QED BY Zenon, <3>1
  <2>2. CASE RetryElapses(r)
    <3>1. del' = [del EXCEPT ![r] = [del[r] EXCEPT !.wait = FALSE]]
      BY Zenon, <2>2 DEF RetryElapses
    <3> QED BY Zenon, <3>1
  <2> QED BY Zenon, <2>1, <2>2
<1>4. e \in DelRow /\ e.state = del[r].state /\ e.gen = del[r].gen /\ e.tok = del[r].tok
  BY Zenon, <1>2, <1>3, ElapseType
<1>5. Mild(r, e)
  BY Zenon, <1>4 DEF Mild
<1>6. del' \in [Rows -> DelRow] /\ \A q \in Rows : Mild(q, del'[q])
  BY Zenon, <1>3, <1>4, <1>5, OneRow
<1>7. TypeOK'
  BY Zenon, <1>1, <1>6 DEF MailInv, TypeOK
<1> QED BY Zenon, <1>1, <1>6, <1>7, SameSubscription, SameAnnouncement, EventKeeps

\* An account event is queued.
LEMMA QueueEventKeeps ==
    ASSUME MailInv, NEW kind \in {"renewed", "expired", "failed"}, NEW p \in Periods, QueueEvent(kind, p),
           kind = "renewed" => p <= sub'.period
    PROVE  del' \in [Rows -> DelRow] /\ \A q \in Rows : Mild(q, del'[q])
<1>1. CASE del' = del
  BY Zenon, <1>1, SameRows
<1>2. CASE del' = [del EXCEPT ![<<kind, p>>] = Queued(<<kind, p>>, @, user[Owner].gen)]
  <2>1. PICK r : r = <<kind, p>>
    BY Zenon
  <2>2. r \in Rows /\ ~Service(r) /\ del[r] \in DelRow /\ user[Owner].gen \in 0..MaxGen
    BY Zenon, <2>1, NotificationAssumption DEF Rows, NotificationRows, AccountKinds, Service, MailInv, TypeOK, UserRow
  <2>3. PICK e : e = Queued(r, del[r], user[Owner].gen)
    BY Zenon 
  <2>4. e \in DelRow /\ Mild(r, e)
    BY <2>1, <2>2, <2>3, QueuedType, NotificationAssumption DEF Mild, Fresh
  <2>5. del' = [del EXCEPT ![r] = e]
    BY Zenon, <1>2, <2>1, <2>3
  <2> QED BY Zenon, <2>2, <2>4, <2>5, OneRow
<1> QED BY Zenon, <1>1, <1>2 DEF QueueEvent

\* Queued rows are cancelled.
LEMMA CancelQueuedKeeps ==
    ASSUME MailInv, NEW rs, CancelQueued(rs)
    PROVE  del' \in [Rows -> DelRow] /\ \A q \in Rows : Mild(q, del'[q])
<1>1. \A q \in Rows : Ended(del[q], "cancelled") \in DelRow
  BY Zenon, EndedType DEF MailInv, TypeOK, Terminal
<1>2. del' \in [Rows -> DelRow]
  BY Zenon, <1>1 DEF CancelQueued, MailInv, TypeOK
<1>3. ASSUME NEW q \in Rows
      PROVE  Mild(q, del'[q])
  <2>1. del[q] \in DelRow
    BY Zenon DEF MailInv, TypeOK
  <2>2. CASE del'[q] = del[q]
    BY Zenon, <2>2 DEF Mild
  <2>3. CASE del[q].state = "queued" /\ del'[q] = Ended(del[q], "cancelled")
    BY SMTT(30), <2>1, <2>3, EndedType, NotificationAssumption DEF Mild, Fresh, Terminal
  <2> QED BY Zenon, <2>2, <2>3 DEF CancelQueued
<1> QED BY Zenon, <1>2, <1>3

\* The events of the subscription keep the invariant.
SubscriptionEvent == PeriodApproaches \/ Renew \/ Expire \/ AutoStarts \/ AutoFails \/ ToggleAuto

\* Renewal, expiry, automatic renewals and the passing of the period.
LEMMA SubscriptionKeeps ==
    ASSUME MailInv, SubscriptionEvent, events' \in 0..MaxEvents
    PROVE  MailInv'
<1> USE DEF SubscriptionEvent
<1>1. UNCHANGED <<user, ann, snapshot, userLock, worker, faults, mail>>
  BY Zenon DEF PeriodApproaches, Renew, Expire, AutoStarts, AutoFails, ToggleAuto
<1>2. sub \in SubRow /\ (sub.status # "none" => sub.period \in Periods) /\ sub.period \in Nat
  BY SMTT(30), NotificationAssumption DEF MailInv, TypeOK, Renewals, SubRow, Periods
<1>3. sub' \in SubRow /\ CalmSubscription
  <2> USE <1>2 DEF SubRow, CalmSubscription
  <2>1. CASE PeriodApproaches
    BY <2>1 DEF PeriodApproaches, Stages
  <2>2. CASE Renew
    <3>1. sub.period + 1 \in Periods
      BY <2>2, NotificationAssumption DEF Renew, Periods
    <3>2. PICK open \in {0, sub.open} :
            sub' = [sub EXCEPT !.status = "active", !.period = @ + 1, !.stage = "far", !.open = open]
      BY Zenon, <2>2 DEF Renew
    <3>3. PICK p \in Periods : p = sub.period + 1
      BY Zenon, <3>1
    <3>4. sub' = [sub EXCEPT !.status = "active", !.period = p, !.stage = "far", !.open = open]
      BY Zenon, <3>2, <3>3
    <3>5. sub' \in SubRow
      BY Zenon, <3>4 DEF Stages
    <3>6. sub'.period = p
      BY Zenon, <3>4
    <3> QED BY <2>2, <3>3, <3>5, <3>6 DEF Renew
  <2>3. CASE Expire
    BY <2>3 DEF Expire
  <2>4. CASE AutoStarts
    BY <2>4 DEF AutoStarts
  <2>5. CASE AutoFails
    <3>1. sub' = [sub EXCEPT !.auto = FALSE, !.open = 0]
      BY Zenon, <2>5 DEF AutoFails
    <3>2. sub' \in SubRow
      BY Zenon, <3>1
    <3>3. sub'.period = sub.period /\ sub'.status = sub.status
      BY Zenon, <3>1
    <3> QED BY <3>2, <3>3
  <2>6. CASE ToggleAuto
    <3>1. PICK b \in BOOLEAN : b = ~sub.auto
      BY Zenon
    <3>2. sub' = [sub EXCEPT !.auto = b]
      BY Zenon, <2>6, <3>1 DEF ToggleAuto
    <3>3. sub' \in SubRow
      BY Zenon, <3>2
    <3>4. sub'.period = sub.period /\ sub'.status = sub.status
      BY Zenon, <3>2
    <3> QED BY <3>3, <3>4
  <2> QED BY ZenonT(30), <2>1, <2>2, <2>3, <2>4, <2>5, <2>6
<1>4. del' \in [Rows -> DelRow] /\ \A q \in Rows : Mild(q, del'[q])
  <2>1. CASE del' = del
    BY Zenon, <2>1, SameRows
  <2>2. CASE Renew
    <3>1. sub.period + 1 \in Periods
      BY <1>2, <2>2, NotificationAssumption DEF Renew, Periods
    <3>2. sub'.period = sub.period + 1
      BY Zenon, <1>2, <2>2 DEF Renew, SubRow
    <3> QED BY <1>2, <2>2, <3>1, <3>2, QueueEventKeeps DEF Renew
  <2>3. CASE Expire
    BY Zenon, <1>2, <2>3, QueueEventKeeps DEF Expire
  <2>4. CASE AutoFails
    <3>1. sub.open = sub.period => sub.period \in Periods
      BY Zenon, <1>2, <2>4 DEF AutoFails, SubRow
    <3> QED BY Zenon, <2>1, <2>4, <3>1, QueueEventKeeps DEF AutoFails
  <2> QED BY Zenon, <2>1, <2>2, <2>3, <2>4 DEF PeriodApproaches, AutoStarts, ToggleAuto
<1>5. TypeOK'
  BY Zenon, <1>1, <1>3, <1>4 DEF MailInv, TypeOK
<1> QED BY Zenon, <1>1, <1>3, <1>4, <1>5, SameAnnouncement, EventKeeps

\* So do those of an account ...
AccountEvent(u) == SetEmail(u) \/ DeleteEmail(u) \/ SetSuspended(u)

\* Addresses and suspensions change only while nobody holds the account.
LEMMA AccountKeeps ==
    ASSUME MailInv, NEW u \in Users, AccountEvent(u), events' \in 0..MaxEvents
    PROVE  MailInv'
<1> USE DEF AccountEvent
<1>1. UNCHANGED <<sub, ann, snapshot, userLock, worker, faults, mail>> /\ userLock[u] = None
  BY Zenon DEF SetEmail, DeleteEmail, SetSuspended
<1>2. user[u] \in UserRow /\ user \in [Users -> UserRow]
  BY Zenon DEF MailInv, TypeOK
<1>3. /\ user' \in [Users -> UserRow]
      /\ \A v \in Users : v # u => user'[v] = user[v]
  <2>1. CASE SetEmail(u)
    <3>1. user[u].gen + 1 \in 0..MaxGen
      BY <1>2, <2>1, NotificationAssumption DEF SetEmail, UserRow
    <3> QED BY Zenon, <1>2, <2>1, <3>1 DEF SetEmail, StoreEmail, UserRow
  <2>2. CASE DeleteEmail(u)
    <3>1. user[u].gen + 1 \in 0..MaxGen
      BY <1>2, <2>2, NotificationAssumption DEF DeleteEmail, UserRow
    <3> QED BY Zenon, <1>2, <2>2, <3>1 DEF DeleteEmail, ClearEmail, UserRow
  <2>3. CASE SetSuspended(u)
    BY Zenon, <1>2, <2>3 DEF SetSuspended, UserRow
  <2> QED BY Zenon, <2>1, <2>2, <2>3
<1>4. del' \in [Rows -> DelRow] /\ \A q \in Rows : Mild(q, del'[q])
  <2>1. CASE del' = del
    BY Zenon, <2>1, SameRows
  <2>2. CASE CancelPending(u)
    BY Zenon, <2>2, CancelQueuedKeeps DEF CancelPending
  <2> QED BY Zenon, <2>1, <2>2 DEF SetEmail, DeleteEmail, SetSuspended
<1>5. TypeOK'
  BY Zenon, <1>1, <1>3, <1>4 DEF MailInv, TypeOK
<1> QED BY Zenon, <1>1, <1>3, <1>4, <1>5, SameSubscription, SameAnnouncement, EventKeeps

\* ... and those of the announcement.
AnnouncementEvent == CreateAnnouncement \/ QueueAnnouncement \/ CancelAnnouncement

\* An announcement is created, queued or cancelled.
LEMMA AnnouncementKeeps ==
    ASSUME MailInv, AnnouncementEvent, events' \in 0..MaxEvents
    PROVE  MailInv'
<1> USE DEF AnnouncementEvent
<1>1. UNCHANGED <<user, sub, userLock, worker, faults, mail>>
  BY Zenon DEF CreateAnnouncement, QueueAnnouncement, CancelAnnouncement
<1>2. ann \in AnnRow /\ snapshot \in [Users -> 0..MaxGen]
  BY Zenon DEF MailInv, TypeOK
<1>3. del' \in [Rows -> DelRow] /\ \A q \in Rows : Mild(q, del'[q])
  BY Zenon, SameRows, CancelQueuedKeeps DEF CreateAnnouncement, QueueAnnouncement, CancelAnnouncement
<1>4. /\ ann' \in AnnRow /\ CalmAnnouncement /\ snapshot' \in [Users -> 0..MaxGen]
      /\ ann'.state \in {"none", "draft"} => ann.state \in {"none", "draft"}
  <2>1. CASE CreateAnnouncement
    BY Zenon, <1>2, <2>1 DEF CreateAnnouncement, CalmAnnouncement, AnnRow
  <2>2. CASE CancelAnnouncement
    BY Zenon, <1>2, <2>2 DEF CancelAnnouncement, CalmAnnouncement, AnnRow
  <2>3. CASE QueueAnnouncement
    <3>1. PICK recipients, n : /\ recipients = {u \in Users : Mailable(u) /\ user[u].gen >= 1}
                               /\ n = Cardinality(recipients)
      BY Zenon
    <3>2. /\ ann.state = "draft"
          /\ snapshot' = [u \in Users |-> IF u \in recipients THEN user[u].gen ELSE 0]
          /\ ann' = [state |-> IF n = 0 THEN "completed" ELSE "queued",
                     cursor |-> 0, expanded |-> n = 0, count |-> n]
      BY Zenon, <2>3, <3>1 DEF QueueAnnouncement
    <3>3. n \in Nat /\ (n = 0 => recipients = {})
      BY Zenon, <3>1, FS_Subset, FS_CardinalityType, FS_EmptySet, NotificationAssumption
    <3>4. ann' \in AnnRow /\ snapshot' \in [Users -> 0..MaxGen]
      BY <3>2, <3>3, NotificationAssumption DEF AnnRow, MailInv, TypeOK, UserRow
    <3>5. n = 0 => CompletedAccountsForAll'
      <4> SUFFICES ASSUME n = 0 PROVE CompletedAccountsForAll'
        BY Zenon
      <4>1. \A u \in Users : ~(snapshot'[u] > 0)
        BY <3>2, <3>3
      <4>2. \A u \in Users : \A r \in AnnouncementRows(u) : r \in Rows /\ Service(r)
        BY DEF AnnouncementRows, Rows, NotificationRows, CampaignRows, Service
      <4>3. \A r \in Rows : Service(r) => del'[r].state = "none"
        BY Zenon, <2>3, <3>2 DEF QueueAnnouncement, MailInv, Announcements
      <4> QED BY Zenon, <4>1, <4>2, <4>3 DEF CompletedAccountsForAll
    <3>6. ann'.state = (IF n = 0 THEN "completed" ELSE "queued")
      BY Zenon, <3>2
    <3> QED BY Zenon, <3>2, <3>4, <3>5, <3>6 DEF CalmAnnouncement
  <2> QED BY Zenon, <2>1, <2>2, <2>3
<1>5. TypeOK'
  BY Zenon, <1>1, <1>3, <1>4 DEF MailInv, TypeOK
<1> QED BY Zenon, <1>1, <1>3, <1>4, <1>5, SameSubscription, EventKeeps

----------------------------------------------------------------------------
(* The whole. *)

\* The initial states satisfy the invariant.
LEMMA MailStarts ==
    ASSUME Init
    PROVE  MailInv
<1>1. PICK old \in BOOLEAN : del = [r \in Rows |->
           IF /\ user[Recipient(r)].has
              /\ \/ r[1] = "campaign" /\ ann.state = "queued"
                 \/ r = <<"reminder", 1>> /\ sub.status = "active" /\ old
           THEN NewRow(1) ELSE NoRow]
  BY Zenon DEF Init
<1>2. 1 \in 0..MaxGen /\ 0 \in 0..MaxGen /\ 1 \in Periods
  BY NotificationAssumption DEF Periods
<1>3. NewRow(1) \in DelRow /\ NewRow(1).state = "queued" /\ NoRow \in DelRow /\ NoRow.state = "none"
  BY Zenon, <1>2, NewType, IdleType
<1>4. \A r \in Rows : /\ del[r] \in {NewRow(1), NoRow}
                      /\ del[r] = NewRow(1) => \/ r[1] = "campaign" /\ ann.state = "queued"
                                               \/ r = <<"reminder", 1>>
  <2> SUFFICES ASSUME NEW r \in Rows
               PROVE  \/ del[r] = NoRow
                      \/ /\ del[r] = NewRow(1)
                         /\ (r[1] = "campaign" /\ ann.state = "queued") \/ r = <<"reminder", 1>>
    BY Zenon, <1>3
  <2> QED BY Zenon, <1>1
<1>5. \A w \in Workers : worker[w] \in Worker /\ worker[w].pc \in {"idle", "down"} /\ worker[w].row = None
  <2>1. PICK e : e = [Idle EXCEPT !.pc = "down"]
    BY Zenon
  <2>2. e \in Worker /\ e.pc = "down" /\ e.row = None
    BY Zenon, <2>1, IdleType DEF Idle, Worker
  <2> QED BY ZenonT(30), <2>1, <2>2, IdleType DEF Init, Down
<1>6. user \in [Users -> UserRow]
  BY Zenon, <1>2 DEF Init, UserRow
<1>7. sub \in SubRow /\ (sub.status # "none" => sub.period \in Periods)
  BY Zenon, <1>2 DEF Init, SubRow, Stages
<1>8. Cardinality({u \in Users : user[u].has}) \in Nat
  BY Zenon, FS_Subset, FS_CardinalityType, NotificationAssumption
<1>9. ann \in AnnRow /\ ann.state \in {"none", "queued", "cancelled"}
  <2>1. PICK n \in Nat : n = Cardinality({u \in Users : user[u].has})
    BY Zenon, <1>8
  <2>2. \/ ann \in [state : {"none", "cancelled"}, cursor : {0}, expanded : {FALSE}, count : {0}]
        \/ ann \in [state : {"queued"}, cursor : {0}, expanded : {TRUE}, count : {n}]
    BY Zenon, <2>1 DEF Init
  <2>3. CASE ann \in [state : {"none", "cancelled"}, cursor : {0}, expanded : {FALSE}, count : {0}]
    <3>1. FALSE \in BOOLEAN /\ 0 \in Nat /\ 0 \in Users \cup {0}
      BY Zenon
    <3>2. [state : {"none", "cancelled"}, cursor : {0}, expanded : {FALSE}, count : {0}] \subseteq AnnRow
      BY Zenon, <3>1, Zenon DEF AnnRow
    <3>3. ann.state \in {"none", "cancelled"}
      BY Zenon, <2>3
    <3> QED BY Zenon, <2>3, <3>2, <3>3
  <2>4. CASE ann \in [state : {"queued"}, cursor : {0}, expanded : {TRUE}, count : {n}]
    BY Zenon, <2>1, <2>4 DEF AnnRow
  <2> QED BY Zenon, <2>2, <2>3, <2>4
<1>10. TypeOK
  <2>1. del \in [Rows -> DelRow]
    BY Zenon, <1>1, <1>3
  <2>2. worker \in [Workers -> Worker]
    BY Zenon, <1>5 DEF Init
  <2>3. snapshot \in [Users -> 0..MaxGen]
    BY Zenon, <1>2 DEF Init
  <2> QED BY Zenon, <1>6, <1>7, <1>9, <2>1, <2>2, <2>3 DEF TypeOK, Init
<1>11. \A w \in Workers : Works(worker[w]) /\ Secured(w)
  BY Zenon, <1>5 DEF Works, Secured, InHand, Attempt, Answered
<1>12. ASSUME NEW r \in Rows
       PROVE  RowOK(r) /\ MailOK(r)
  <2>1. mail[r] = 0 /\ \A w \in Workers : ~Attempts(w, r) /\ ~Records(w, r)
    BY Zenon, <1>5 DEF Attempts, Records, Attempt, Answered, Init
  <2>2. RowOK(r)
    BY Zenon, <2>1 DEF RowOK
  <2>3. MailOK(r)
    BY <2>1 DEF MailOK
  <2> QED BY Zenon, <2>2, <2>3
<1>13. Renewals
  BY Zenon, <1>3, <1>4, <1>7 DEF Renewals, Rows, NotificationRows, AccountKinds
<1>14. Announcements
  <2>1. ASSUME ann.state \in {"none", "draft"}, NEW r \in Rows, Service(r)
        PROVE  del[r].state = "none"
    BY <1>3, <1>4, <2>1 DEF Service
  <2> QED BY Zenon, <1>9, <2>1 DEF Announcements, CompletedAccountsForAll
<1> QED BY Zenon, <1>10, <1>11, <1>12, <1>13, <1>14 DEF MailInv

\* Every step of a worker keeps it ...
LEMMA StepKeeps ==
    ASSUME MailInv, NEW w \in Workers, Step(w)
    PROVE  MailInv'
<1>1. NotificationRows \in SUBSET Rows /\ ReminderRows \in SUBSET Rows /\ CampaignRows \in SUBSET Rows
  BY Zenon DEF Rows
<1>2. CASE ReconcileReminders(w)
  BY Zenon, <1>1, <1>2, ClaimKeeps, ProcessKeeps, LockKeeps, SmtpKeeps, RecordKeeps
     DEF ReconcileReminders, ClaimReminder, ProcessReminder, SendReminder
<1>3. CASE ReconcileAnnouncements(w)
  BY Zenon, <1>1, <1>3, ClaimKeeps, ProcessKeeps, LockKeeps, SmtpKeeps, RecordKeeps
     DEF ReconcileAnnouncements, ClaimCampaign, ProcessCampaign, SendAnnouncement
<1>4. CASE ReconcileNotifications(w)
  BY ZenonT(30), <1>1, <1>4, CancelLoadKeeps, CancelWriteKeeps, QueueDueLoadKeeps, QueueDueInsertKeeps, ExpandKeeps,
     CompleteLoadKeeps, CompleteWriteKeeps, ClaimKeeps, ProcessKeeps, LockKeeps, SmtpKeeps, RecordKeeps
     DEF ReconcileNotifications, ClaimNotification, ProcessNotification, SendNotification
<1> QED BY Zenon, <1>2, <1>3, <1>4, ReleaseKeeps DEF Step

\* ... and so does every step.
LEMMA MailKeeps ==
    ASSUME MailInv, [Next]_vars
    PROVE  MailInv'
<1>1. ASSUME NEW w \in Workers, Step(w) \/ Crash(w)
      PROVE  MailInv'
  BY Zenon, <1>1, StepKeeps, CrashKeeps
<1>2. ASSUME NEW r \in Rows, LeaseElapses(r) \/ RetryElapses(r)
      PROVE  MailInv'
  BY Zenon, <1>2, ElapsesKeep
<1>3. ASSUME events < MaxEvents, events' = events + 1,
             \/ SubscriptionEvent \/ AnnouncementEvent
             \/ \E u \in Users : AccountEvent(u)
      PROVE  MailInv'
  <2>1. events' \in 0..MaxEvents
    BY <1>3, NotificationAssumption DEF MailInv, TypeOK
  <2> QED BY Zenon, <1>3, <2>1, SubscriptionKeeps, AnnouncementKeeps, AccountKeeps
<1>4. CASE UNCHANGED vars
  <2>1. /\ TypeOK' /\ Renewals' /\ Announcements'
        /\ \A w \in Workers : Works(worker[w])' /\ Secured(w)'
    BY Zenon, <1>4 DEF vars, MailInv, TypeOK, Works, Secured, Reachable, Unconfirmed, Renewals, Announcements, CompletedAccountsForAll
  <2>2. ASSUME NEW r \in Rows
        PROVE  RowOK(r)' /\ (~QuitRefused => MailOK(r)')
    <3>1. RowOK(r) /\ (~QuitRefused => MailOK(r))
      BY Zenon DEF MailInv
    <3>2. RowOK(r)'
      BY Zenon, <1>4, <3>1 DEF vars, RowOK, Attempts, Records
    <3>3. ASSUME MailOK(r)
          PROVE  MailOK(r)'
      BY Zenon, <1>4, <3>3 DEF vars, MailOK, Attempts, Records
    <3> QED BY Zenon, <3>1, <3>2, <3>3
  <2> QED BY Zenon, <2>1, <2>2 DEF MailInv
<1> QED BY Zenon, <1>1, <1>2, <1>3, <1>4 DEF Next, SubscriptionEvent, AccountEvent, AnnouncementEvent

\* The invariant holds throughout, in every instance.
THEOREM MailInvariant == Spec => []MailInv
<1>1. Init => MailInv
  BY Zenon, MailStarts
<1>2. MailInv /\ [Next]_vars => MailInv'
  BY Zenon, MailKeeps
<1> QED BY <1>1, <1>2, PTL DEF Spec

\* No message is handed to the mail server twice, whatever crashes, lost leases and
\* ambiguous answers come between (SENDING is committed before SMTP;
\* _process_claimed_delivery ends a row it finds in SENDING).
THEOREM NeverMailedTwice ==
    ASSUME ~QuitRefused
    PROVE  Spec => []MailedAtMostOnce
<1>1. MailInv => MailedAtMostOnce
  BY Zenon DEF MailInv, MailedAtMostOnce, MailOK
<1> QED BY <1>1, MailInvariant, PTL

\* A queued or failed row was never mailed, so a retry is not a second message and a
\* reported failure is one.
THEOREM OpenWorkWasNotMailed ==
    ASSUME ~QuitRefused
    PROVE  Spec => []OpenOrFailedWasNotMailed
<1>1. MailInv => OpenOrFailedWasNotMailed
  BY Zenon DEF MailInv, OpenOrFailedWasNotMailed, MailOK, Fresh
<1> QED BY <1>1, MailInvariant, PTL

\* A completed announcement has a row for every recipient and none that is being sent
\* (mark_announcement_completed_if_done).
THEOREM CompletionAccounts == Spec => []CompletedAccountsForAll
<1>1. MailInv => CompletedAccountsForAll
  BY Zenon DEF MailInv, Announcements
<1> QED BY <1>1, MailInvariant, PTL

\* Only a worker in the SMTP exchange hands a message over.
LEMMA OnlySmtpMails ==
    ASSUME MailInv, [Next]_vars, NEW r \in Rows, Mailed(r)
    PROVE  \E w \in Workers : worker[w].pc = "smtp" /\ worker[w].row = r
<1>1. ~(mail' = mail)
  BY DEF Mailed, MailInv, TypeOK
<1>2. PICK w \in Workers : Smtp(w)
  <2>1. ASSUME NEW w \in Workers, Step(w)
        PROVE  Smtp(w)
    BY Zenon, <1>1, <2>1 DEF Step, ReconcileReminders, ReconcileAnnouncements, ReconcileNotifications,
       ClaimReminder, ProcessReminder, SendReminder, ClaimCampaign, ProcessCampaign, SendAnnouncement,
       ClaimNotification, ProcessNotification, SendNotification, Claim, Process, Lock, Record,
       CancelLoad, CancelWrite, QueueDueLoad, QueueDueInsert, Expand, CompleteLoad, CompleteWrite, Release
  <2>2. ASSUME NEW w \in Workers, Crash(w)
        PROVE  FALSE
    BY Zenon, <1>1, <2>2 DEF Crash
  <2>3. ASSUME NEW q \in Rows, LeaseElapses(q) \/ RetryElapses(q)
        PROVE  FALSE
    BY Zenon, <1>1, <2>3 DEF LeaseElapses, RetryElapses
  <2>4. ASSUME \/ PeriodApproaches \/ Renew \/ Expire \/ AutoStarts \/ AutoFails \/ ToggleAuto
               \/ CreateAnnouncement \/ QueueAnnouncement \/ CancelAnnouncement
        PROVE  FALSE
    BY Zenon, <1>1, <2>4 DEF PeriodApproaches, Renew, Expire, AutoStarts, AutoFails, ToggleAuto,
       CreateAnnouncement, QueueAnnouncement, CancelAnnouncement
  <2>5. ASSUME NEW u \in Users, SetEmail(u) \/ DeleteEmail(u) \/ SetSuspended(u)
        PROVE  FALSE
    BY Zenon, <1>1, <2>5 DEF SetEmail, DeleteEmail, SetSuspended
  <2>6. CASE UNCHANGED vars
    BY Zenon, <1>1, <2>6 DEF vars
  <2> QED BY Zenon, <2>1, <2>2, <2>3, <2>4, <2>5, <2>6 DEF Next
<1>3. mail[r] \in Nat /\ (r # worker[w].row => mail'[r] = mail[r])
  BY Zenon, <1>2 DEF Smtp, MailInv, TypeOK
<1>4. r = worker[w].row
  BY <1>3 DEF Mailed
<1> QED BY Zenon, <1>2, <1>4 DEF Smtp, At

\* A message goes out only to the address its recipient has at that moment, unchanged
\* since it was queued: the sender holds the account from the check to the record.
THEOREM CurrentAddressOnly == Spec => MailGoesToCurrentAddress
<1>1. ASSUME MailInv, [Next]_vars
      PROVE  [\A r \in Rows : Mailed(r) => Reachable(r)]_vars
  <2> SUFFICES ASSUME NEW r \in Rows, Mailed(r)
               PROVE  Reachable(r)
    BY Zenon
  <2>1. PICK w \in Workers : worker[w].pc = "smtp" /\ worker[w].row = r
    BY Zenon, <1>1, OnlySmtpMails
  <2> QED BY Zenon, <1>1, <2>1 DEF MailInv, Secured
<1> QED BY <1>1, MailInvariant, PTL DEF Spec, MailGoesToCurrentAddress

\* No warning about a period follows the confirmation that it was renewed, although a
\* payment settles without the account lock: the confirmation itself needs it.
THEOREM NoStaleWarning == Spec => NoWarningAfterConfirmation
<1>1. ASSUME MailInv, [Next]_vars
      PROVE  [\A r \in Rows : Mailed(r) /\ ~Service(r) /\ r[1] # "renewed" =>
                \A q \in Periods : q > r[2] => mail[<<"renewed", q>>] = 0]_vars
  <2> SUFFICES ASSUME NEW r \in Rows, Mailed(r), ~Service(r), NEW q \in Periods, q > r[2]
               PROVE  mail[<<"renewed", q>>] = 0
    BY Zenon
  <2>1. PICK w \in Workers : worker[w].pc = "smtp" /\ worker[w].row = r
    BY Zenon, <1>1, OnlySmtpMails
  <2>2. r[2] \in Nat /\ q \in Nat
    <3>1. r[2] \in Periods \/ r[2] \in Users
      BY Zenon DEF Rows, NotificationRows, ReminderRows, CampaignRows
    <3> QED BY Zenon, <3>1, PeriodsUsers
  <2> QED BY Zenon, <1>1, <2>1, <2>2 DEF MailInv, Secured, Unconfirmed
<1> QED BY <1>1, MailInvariant, PTL DEF Spec, NoWarningAfterConfirmation

=============================================================================
