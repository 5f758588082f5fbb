--------------------------- MODULE Notifications ---------------------------
(***************************************************************************)
(* The email outbox: notifications.py, notification_reconciliation.py,     *)
(* renewal_alerts.py, notification_email.py, announcements.py and the two  *)
(* older outboxes that are still drained (reminders.py and                 *)
(* announcement_reconciliation.py).  Replicas run the reconciler           *)
(* concurrently with customers, administrators and settlements.            *)
(*                                                                         *)
(* One account owns one subscription.  A delivery row is named by its      *)
(* idempotency key: <<kind, period>> for an account event or an old        *)
(* reminder, <<kind, user>> for an announcement.  There is no clock: a     *)
(* lease, a retry delay and the stages of a paid period elapse by actions. *)
(* A lease token is the worker that took it.  Batches have size one.       *)
(***************************************************************************)
EXTENDS Naturals, FiniteSets

CONSTANTS
    Users,         \* account ids
    Owner,         \* the account with the subscription
    Workers,       \* replicas that run the reconciler
    None,
    QuitRefused,   \* the mail server may refuse QUIT after it took the message
    MaxPeriod, MaxGen, MaxAttempts, MaxFaults, MaxEvents   \* bounds

ASSUME NotificationAssumption ==
    /\ Users \subseteq Nat \ {0} /\ IsFiniteSet(Users) /\ Owner \in Users
    /\ None \notin Workers
    /\ QuitRefused \in BOOLEAN
    /\ MaxPeriod \in Nat \ {0} /\ MaxGen \in Nat \ {0} /\ MaxAttempts \in Nat
    /\ MaxFaults \in Nat /\ MaxEvents \in Nat

VARIABLES
    user,      \* preference and suspension of each account
    sub,       \* the subscription
    ann,       \* one announcement
    snapshot,  \* generation of each recipient when it was queued, 0 for others
    del,       \* the delivery rows
    userLock,  \* who holds the row lock of an account
    worker,    \* where each replica is in its cycle
    faults,    \* crashes and stalls so far
    events,    \* events of customers, administrators and settlement so far
    mail       \* how often the mail server took the message of a row

vars == <<user, sub, ann, snapshot, del, userLock, worker, faults, events, mail>>

-----------------------------------------------------------------------------
(* State *)

Periods == 1..MaxPeriod
Warnings == {"week", "day"}
AccountKinds == Warnings \cup {"unconfirmed", "failed", "renewed", "expired"}

\* The rows of the three tables; the last two are of the older outboxes.
NotificationRows == (AccountKinds \X Periods) \cup ({"announcement"} \X Users)
ReminderRows == {"reminder"} \X Periods
CampaignRows == {"campaign"} \X Users
Rows == NotificationRows \cup ReminderRows \cup CampaignRows
Legacy(r) == r \notin NotificationRows
Service(r) == r[1] \in {"announcement", "campaign"}
Recipient(r) == IF Service(r) THEN r[2] ELSE Owner

Terminal == {"sent", "ambiguous", "cancelled", "failed"}

\* gen: recipient_generation.  tok, live: lease_token, and whether lease_until lies
\* ahead.  wait: next_attempt_at lies ahead.  tries: attempt_count.
DelRow == [state : {"none", "queued", "sending"} \cup Terminal, gen : 0..MaxGen,
           tok : Workers \cup {None}, live : BOOLEAN, wait : BOOLEAN, tries : 0..MaxAttempts]

NoRow == [state |-> "none", gen |-> 0, tok |-> None, live |-> FALSE, wait |-> FALSE, tries |-> 0]
NewRow(g) == [NoRow EXCEPT !.state = "queued", !.gen = g]

UserRow == [has : BOOLEAN, gen : 0..MaxGen, susp : BOOLEAN]

\* stage: how far the paid period is from its end.  open: the period an automatic
\* renewal payment in flight was made for, 0 when there is none.
Stages == {"far", "week", "day", "lead", "over"}
SubRow == [status : {"none", "active", "expired"}, period : Periods \cup {0},
           stage : Stages, auto : BOOLEAN, open : Periods \cup {0}]

AnnRow == [state : {"none", "draft", "queued", "completed", "cancelled"},
           cursor : Users \cup {0}, expanded : BOOLEAN, count : Nat]

\* row: the row in hand.  seen: that row, and ok: the account's consent, as a session
\* loaded them.  gen: a recipient generation read before an insert.
Busy == {"check", "insert", "complete", "finish", "claimed", "sending", "smtp",
         "sent", "ambiguous", "transient", "permanent", "release"}
Worker == [pc : {"idle", "down"} \cup Busy, row : Rows \cup {None}, seen : DelRow,
           ok : BOOLEAN, gen : 0..MaxGen]

Idle == [pc |-> "idle", row |-> None, seen |-> NoRow, ok |-> FALSE, gen |-> 0]
Down == [Idle EXCEPT !.pc = "down"]

TypeOK ==
    /\ user \in [Users -> UserRow]
    /\ sub \in SubRow
    /\ ann \in AnnRow
    /\ snapshot \in [Users -> 0..MaxGen]
    /\ del \in [Rows -> DelRow]
    /\ userLock \in [Users -> Workers \cup {None}]
    /\ worker \in [Workers -> Worker]
    /\ faults \in 0..MaxFaults /\ events \in 0..MaxEvents
    /\ mail \in [Rows -> Nat]

\* Accounts with and without an address, and what earlier versions may have left: a
\* queued reminder of the first period, or an announcement with rows but no snapshot.
\* Any number of replicas runs, and any part of the bounds is used up.
Init ==
    /\ user \in [Users -> [has : {TRUE}, gen : {1}, susp : {FALSE}]
                          \cup [has : {FALSE}, gen : 0..MaxGen, susp : {FALSE}]]
    /\ sub \in [status : {"none"}, period : {0}, stage : {"far"}, auto : {FALSE}, open : {0}]
               \cup [status : {"active"}, period : {1}, stage : Stages, auto : BOOLEAN, open : {0}]
    /\ ann \in [state : {"none", "cancelled"}, cursor : {0}, expanded : {FALSE}, count : {0}]
               \cup [state : {"queued"}, cursor : {0}, expanded : {TRUE},
                   count : {Cardinality({u \in Users : user[u].has})}]
    /\ snapshot = [u \in Users |-> 0]
    /\ \E old \in BOOLEAN : del = [r \in Rows |->
           IF /\ user[Recipient(r)].has
              /\ \/ r[1] = "campaign" /\ ann.state = "queued"
                 \/ r = <<"reminder", 1>> /\ sub.status = "active" /\ old
           THEN NewRow(1) ELSE NoRow]
    /\ userLock = [u \in Users |-> None]
    /\ worker \in [Workers -> {Idle, Down}]
    /\ faults \in 0..MaxFaults /\ events \in 0..MaxEvents
    /\ mail = [r \in Rows |-> 0]

At(w, pc) == worker[w].pc = pc
Become(w, st) == worker' = [worker EXCEPT ![w] = st]
Goto(w, pc) == Become(w, [worker[w] EXCEPT !.pc = pc])

\* reconcile_notifications_once runs the parts of its cycle in a fixed order, over and
\* over.  A part that finds nothing changes nothing and the other actors move between
\* any two parts, so an idle worker takes up any part that finds something to do.
Rest(w) == Become(w, Idle)

-----------------------------------------------------------------------------
(* Rows *)

\* _terminal of the three outboxes: the lease goes with the end of the work.  Nobody
\* reads the attempts of a row that has ended.
Ended(d, state) == [NoRow EXCEPT !.state = state, !.gen = d.gen]

\* The older outboxes leave the lease of a sent or interrupted row to _release_lease.
Closed(r, d, state) ==
    IF Legacy(r) THEN [d EXCEPT !.state = state, !.wait = FALSE, !.tries = 0] ELSE Ended(d, state)

\* _reuse_queued_delivery: the key is taken.
Reused(r, d, g) == IF d.state = "queued" /\ ~Service(r) THEN [d EXCEPT !.gen = g] ELSE d

\* queue_notification
Queued(r, d, g) == IF d.state = "none" THEN NewRow(g) ELSE Reused(r, d, g)

\* _cancel_queued, cancel_pending_*: one UPDATE over the queued rows of a set.
CancelQueued(rs) ==
    del' = [r \in Rows |-> IF r \in rs /\ del[r].state = "queued"
                           THEN Ended(del[r], "cancelled") ELSE del[r]]

Mailable(u) == user[u].has /\ ~user[u].susp

-----------------------------------------------------------------------------
(* Eligibility *)

\* has_period_automatic_renewal_failure
HasFailure(p) == del[<<"failed", p>>].state # "none"

\* account_event_still_eligible
EventHolds(r) ==
    /\ sub.status # "none" /\ sub.period = r[2]
    /\ CASE r[1] \in Warnings ->
              sub.status = "active" /\ sub.stage # "over" /\ ~sub.auto /\ ~HasFailure(r[2])
         [] r[1] = "unconfirmed" ->
              sub.status = "active" /\ sub.stage # "over" /\ sub.auto /\ ~HasFailure(r[2])
         [] r[1] = "failed"  -> sub.status \in {"active", "expired"}
         [] r[1] = "renewed" -> sub.status = "active"
         [] r[1] = "expired" -> sub.status = "expired"

Consents(u, gen) == user[u].has /\ ~user[u].susp /\ user[u].gen = gen

\* _is_delivery_eligible of notification_reconciliation, given the account's consent
Holds(r) == IF Service(r) THEN ann.state = "queued" ELSE EventHolds(r)

\* _is_delivery_eligible of reminder_reconciliation
ReminderHolds(r) ==
    sub.status = "active" /\ sub.period = r[2] /\ sub.stage # "over" /\ ~sub.auto /\ ~HasFailure(r[2])

\* _process_claimed_delivery and _is_delivery_eligible of announcement_reconciliation
CampaignHolds(r) == ann.state = "queued"

Eligible(r) ==
    /\ Consents(Recipient(r), del[r].gen)
    /\ CASE r \in NotificationRows -> Holds(r)
         [] r \in ReminderRows     -> ReminderHolds(r)
         [] r \in CampaignRows     -> CampaignHolds(r)

\* Mutant: the event is not checked again under the lock.
StillConsents(r) == ~user[Recipient(r)].susp

\* What the senders check again under the account lock: send_notification all of it
\* for account events, send_reminder the period and the renewal, and the senders of
\* announcements nothing beyond the recipient.
StillHolds(r) ==
    CASE Service(r) -> TRUE
      [] r \in ReminderRows ->
           ~user[Owner].susp /\ sub.period = r[2] /\ ~sub.auto /\ ~HasFailure(r[2])
      [] OTHER -> Eligible(r)

-----------------------------------------------------------------------------
(* The reconciler, before it sends *)

\* _cancel_invalid_queued_deliveries reads a queued row and its account without a
\* lock ...
CancelLoad(w) ==
    /\ At(w, "idle")
    /\ \E r \in Rows :
          /\ ~Legacy(r) /\ del[r].state = "queued"
          /\ Become(w, [Idle EXCEPT !.pc = "check", !.row = r, !.seen = del[r],
                                    !.ok = Consents(Recipient(r), del[r].gen)])
    /\ UNCHANGED <<user, sub, ann, snapshot, del, userLock, faults, events, mail>>

\* ... and later the event.  Its flush writes the columns that differ from the row as
\* it was loaded.
CancelWrite(w) ==
    LET r == worker[w].row
        seen == worker[w].seen
    IN
    /\ At(w, "check")
    /\ del' = IF worker[w].ok /\ Holds(r) THEN del
              ELSE [del EXCEPT ![r].state = "cancelled",
                               ![r].wait = IF seen.wait THEN FALSE ELSE @,
                               ![r].tok = IF seen.tok # None THEN None ELSE @,
                               ![r].live = IF seen.tok # None THEN FALSE ELSE @]
    /\ Rest(w)
    /\ UNCHANGED <<user, sub, ann, snapshot, userLock, faults, events, mail>>

\* The expiration events that _queue_due_expirations finds.
DueRows ==
    LET p == sub.period
        new(kind) == del[<<kind, p>>].state = "none"
    IN  IF sub.status # "active" \/ sub.stage = "over" \/ ~Mailable(Owner) \/ HasFailure(p) THEN {}
        ELSE IF sub.auto THEN {r \in {<<"unconfirmed", p>>} : sub.stage = "lead" /\ new(r[1])}
        ELSE {r \in {<<"week", p>>} : sub.stage = "week" /\ new(r[1])}
             \cup {r \in {<<"day", p>>} : sub.stage \in {"day", "lead"} /\ new(r[1])}

QueueDueLoad(w) ==
    /\ At(w, "idle")
    /\ \E r \in DueRows :
          Become(w, [Idle EXCEPT !.pc = "insert", !.row = r, !.gen = user[Owner].gen])
    /\ UNCHANGED <<user, sub, ann, snapshot, del, userLock, faults, events, mail>>

QueueDueInsert(w) ==
    LET r == worker[w].row IN
    /\ At(w, "insert")
    /\ del' = [del EXCEPT ![r] = Queued(r, @, worker[w].gen)]
    /\ Rest(w)
    /\ UNCHANGED <<user, sub, ann, snapshot, userLock, faults, events, mail>>

\* Recipients after the cursor, in the order of their ids.
Remaining == {u \in Users : snapshot[u] > 0 /\ u > ann.cursor}

\* Mutant: a full page counts as the last one.
ExpandShort(w) ==
    /\ At(w, "idle")
    /\ ann.state = "queued" /\ ~ann.expanded
    /\ IF Remaining = {} THEN ann' = [ann EXCEPT !.expanded = TRUE] /\ UNCHANGED del
       ELSE \E u \in Remaining :
              /\ \A v \in Remaining : u <= v
              /\ ann' = [ann EXCEPT !.cursor = u, !.expanded = TRUE]
              /\ del' = [del EXCEPT ![<<"announcement", u>>] =
                            Queued(<<"announcement", u>>, @, snapshot[u])]
    /\ UNCHANGED <<user, sub, snapshot, userLock, worker, faults, events, mail>>

\* _expand_queued_announcements, under the lock of the announcement: one page.  A page
\* of one is never short, so an empty one ends the expansion.
Expand(w) ==
    /\ At(w, "idle")
    /\ ann.state = "queued" /\ ~ann.expanded
    /\ IF Remaining = {} THEN ann' = [ann EXCEPT !.expanded = TRUE] /\ UNCHANGED del
       ELSE \E u \in Remaining :
              /\ \A v \in Remaining : u <= v
              /\ ann' = [ann EXCEPT !.cursor = u]
              /\ del' = [del EXCEPT ![<<"announcement", u>>] =
                            Queued(<<"announcement", u>>, @, snapshot[u])]
    /\ UNCHANGED <<user, sub, snapshot, userLock, worker, faults, events, mail>>

\* The completion check runs in the cycle, and after each old announcement row.
Leave(w) == IF worker[w].row = None THEN Rest(w) ELSE Goto(w, "release")

\* mark_announcement_completed_if_done reads the announcement without a lock ...
CompleteLoad(w) ==
    /\ \/ /\ worker[w].pc \in {"idle", "complete"}
          /\ ann.state = "queued" /\ ann.expanded
          /\ Goto(w, "finish")
       \/ /\ At(w, "complete")
          /\ ~(ann.state = "queued" /\ ann.expanded)
          /\ Leave(w)
    /\ UNCHANGED <<user, sub, ann, snapshot, del, userLock, faults, events, mail>>

AnnouncementRows(u) == {<<"announcement", u>>, <<"campaign", u>>}

\* Every recipient of the snapshot has a row in one of the tables.
Accounted == LET recipients == {u \in Users : snapshot[u] > 0} IN
    recipients # {} =>
        /\ Cardinality(recipients) = ann.count
        /\ \A u \in recipients : \E r \in AnnouncementRows(u) : del[r].state # "none"

\* Mutant: a row that is being sent counts as finished.
UnfinishedQueued == \E r \in Rows : Service(r) /\ del[r].state = "queued"

Unfinished == \E r \in Rows : Service(r) /\ del[r].state \in {"queued", "sending"}

\* ... then counts its rows, and writes the state it decided on.
CompleteWrite(w) ==
    /\ At(w, "finish")
    /\ ann' = IF Accounted /\ ~Unfinished THEN [ann EXCEPT !.state = "completed"] ELSE ann
    /\ Leave(w)
    /\ UNCHANGED <<user, sub, snapshot, del, userLock, faults, events, mail>>

-----------------------------------------------------------------------------
(* One delivery *)

Due(r) == del[r].state \in {"queued", "sending"} /\ ~del[r].wait /\ ~del[r].live

Claim(w, rows) ==
    /\ At(w, "idle")
    /\ \E r \in rows :
          /\ Due(r)
          /\ del' = [del EXCEPT ![r].tok = w, ![r].live = TRUE]
          /\ Become(w, [Idle EXCEPT !.pc = "claimed", !.row = r])
    /\ UNCHANGED <<user, sub, ann, snapshot, userLock, faults, events, mail>>

\* _claim_due_delivery of the three outboxes
ClaimNotification(w) == Claim(w, NotificationRows)
ClaimReminder(w) == Claim(w, ReminderRows)
ClaimCampaign(w) == ann.state = "queued" /\ Claim(w, CampaignRows)

\* An old announcement row is followed by the completion check.
Processed(w) == Goto(w, IF worker[w].row \in CampaignRows THEN "complete" ELSE "release")

\* Mutant: a row that was left in SENDING is sent again, as often as it takes.
ProcessRetries(w) ==
    LET r == worker[w].row IN
    /\ At(w, "claimed")
    /\ IF del[r].tok # w \/ del[r].state \in Terminal THEN Goto(w, "release") /\ UNCHANGED del
       ELSE /\ del' = [del EXCEPT ![r].state = "sending", ![r].tries = @ + 1, ![r].wait = FALSE]
            /\ Goto(w, "sending")
    /\ UNCHANGED <<user, sub, ann, snapshot, userLock, faults, events, mail>>

\* One claimed row, up to the commit of SENDING, before anything leaves the process.
Process(w) ==
    LET r == worker[w].row
        d == del[r]
    IN
    /\ At(w, "claimed")
    /\ \/ /\ d.tok # w
          /\ Goto(w, "release") /\ UNCHANGED del
       \/ /\ d.tok = w /\ d.state = "sending"
          /\ del' = [del EXCEPT ![r] = Closed(r, @, "ambiguous")]
          /\ Processed(w)
       \/ /\ d.tok = w /\ d.state # "sending" /\ ~Eligible(r)
          /\ del' = [del EXCEPT ![r] = Ended(@, "cancelled")]
          /\ Processed(w)
       \/ /\ d.tok = w /\ d.state \in Terminal /\ Eligible(r)
          /\ Goto(w, "release") /\ UNCHANGED del
       \/ /\ d.tok = w /\ d.state = "queued" /\ Eligible(r) /\ d.tries >= MaxAttempts
          /\ del' = [del EXCEPT ![r] = Ended(@, "failed")]
          /\ Processed(w)
       \/ /\ d.tok = w /\ d.state = "queued" /\ Eligible(r) /\ d.tries < MaxAttempts
          /\ del' = [del EXCEPT ![r].state = "sending", ![r].tries = @ + 1, ![r].wait = FALSE]
          /\ Goto(w, "sending")
    /\ UNCHANGED <<user, sub, ann, snapshot, userLock, faults, events, mail>>

\* fence_notification_lease and its like: a result is written only under the lease it was computed for.
Fence(w, new) ==
    del' = [del EXCEPT ![worker[w].row] = IF @.tok = w THEN new ELSE @]

\* decrypt_notification_email: the address the row was queued for
Reachable(r) == user[Recipient(r)].has /\ user[Recipient(r)].gen = del[r].gen

\* lock_and_decrypt_notification_email, then what the sender checks under the lock.
Lock(w) ==
    LET r == worker[w].row
        u == Recipient(r)
    IN
    /\ At(w, "sending")
    /\ userLock[u] = None
    /\ \/ /\ ~Reachable(r)
          /\ Fence(w, Ended(del[r], "failed"))
          /\ Processed(w) /\ UNCHANGED userLock
       \/ /\ Reachable(r) /\ ~StillHolds(r)
          /\ Fence(w, Ended(del[r], "cancelled"))
          /\ Processed(w) /\ UNCHANGED userLock
       \/ /\ Reachable(r) /\ StillHolds(r)
          /\ userLock' = [userLock EXCEPT ![u] = w]
          /\ Goto(w, "smtp") /\ UNCHANGED del
    /\ UNCHANGED <<user, sub, ann, snapshot, faults, events, mail>>

\* SmtpAdapter.send_message: what the caller learns, and whether the server took the
\* message.  Leaving the connection sends QUIT, whose refusal is reported as an error
\* of the message.
Outcome == [says : {"sent"}, took : {TRUE}]
           \cup [says : {"ambiguous"}, took : BOOLEAN]
           \cup [says : {"transient", "permanent"}, took : {FALSE, QuitRefused}]

Smtp(w) ==
    /\ At(w, "smtp")
    /\ \E o \in Outcome :
          /\ mail' = [mail EXCEPT ![worker[w].row] = IF o.took THEN @ + 1 ELSE @]
          /\ Goto(w, o.says)
    /\ UNCHANGED <<user, sub, ann, snapshot, del, userLock, faults, events>>

\* Mutant: an ambiguous answer is a failure.
ResultFails(r, says) ==
    IF says = "sent" THEN Closed(r, del[r], "sent") ELSE Ended(del[r], "failed")

\* The row after the attempt.
Result(r, says) == LET d == del[r] IN
    CASE says = "sent"      -> Closed(r, d, "sent")
      [] says = "ambiguous" -> Ended(d, "ambiguous")
      [] says = "transient" /\ d.tries < MaxAttempts ->
           [d EXCEPT !.state = "queued", !.wait = TRUE, !.live = TRUE]
      [] OTHER              -> Ended(d, "failed")

\* The last transaction of send_*; it ends with the account lock.
Record(w) ==
    LET r == worker[w].row IN
    /\ worker[w].pc \in {"sent", "ambiguous", "transient", "permanent"}
    /\ Fence(w, Result(r, worker[w].pc))
    /\ userLock' = [userLock EXCEPT ![Recipient(r)] = None]
    /\ Processed(w)
    /\ UNCHANGED <<user, sub, ann, snapshot, faults, events, mail>>

\* _release_lease
Release(w) ==
    LET r == worker[w].row IN
    /\ At(w, "release")
    /\ del' = [del EXCEPT ![r] = IF @.tok = w THEN [@ EXCEPT !.tok = None, !.live = FALSE] ELSE @]
    /\ Rest(w)
    /\ UNCHANGED <<user, sub, ann, snapshot, userLock, faults, events, mail>>

\* The three outboxes: _process_claimed_delivery, and the rest of the sender.
ProcessNotification(w) == worker[w].row \in NotificationRows /\ Process(w)
ProcessReminder(w) == worker[w].row \in ReminderRows /\ Process(w)
ProcessCampaign(w) == worker[w].row \in CampaignRows /\ Process(w)

SendNotification(w) == worker[w].row \in NotificationRows /\ (Lock(w) \/ Smtp(w) \/ Record(w))
SendReminder(w) == worker[w].row \in ReminderRows /\ (Lock(w) \/ Smtp(w) \/ Record(w))
SendAnnouncement(w) == worker[w].row \in CampaignRows /\ (Lock(w) \/ Smtp(w) \/ Record(w))

\* The parts of a cycle.
ReconcileReminders(w) ==
    ClaimReminder(w) \/ ProcessReminder(w) \/ SendReminder(w)
ReconcileAnnouncements(w) ==
    ClaimCampaign(w) \/ ProcessCampaign(w) \/ SendAnnouncement(w)
ReconcileNotifications(w) ==
    \/ CancelLoad(w) \/ CancelWrite(w) \/ QueueDueLoad(w) \/ QueueDueInsert(w)
    \/ Expand(w) \/ CompleteLoad(w) \/ CompleteWrite(w)
    \/ ClaimNotification(w) \/ ProcessNotification(w) \/ SendNotification(w)

-----------------------------------------------------------------------------
(* Crashes and time *)

InFlight(r) == \E w \in Workers :
    del[r].tok = w /\ worker[w].row = r /\ worker[w].pc \notin {"check", "insert"}

\* A replica stops.  Its session's locks go, its leases stay.
Crash(w) ==
    /\ faults < MaxFaults /\ worker[w].pc \in Busy
    /\ faults' = faults + 1
    /\ userLock' = [u \in Users |-> IF userLock[u] = w THEN None ELSE userLock[u]]
    /\ Rest(w)
    /\ UNCHANGED <<user, sub, ann, snapshot, del, events, mail>>

\* lease_until passes: after a crash, or while the holder is stalled.
LeaseElapses(r) ==
    /\ del[r].live
    /\ IF InFlight(r) THEN faults < MaxFaults /\ faults' = faults + 1 ELSE UNCHANGED faults
    /\ del' = [del EXCEPT ![r].live = FALSE]
    /\ UNCHANGED <<user, sub, ann, snapshot, userLock, worker, events, mail>>

RetryElapses(r) ==
    /\ del[r].wait
    /\ del' = [del EXCEPT ![r].wait = FALSE]
    /\ UNCHANGED <<user, sub, ann, snapshot, userLock, worker, faults, events, mail>>

PeriodApproaches ==
    /\ sub.status = "active" /\ sub.stage # "over"
    /\ sub' = [sub EXCEPT !.stage = CASE @ = "far"  -> "week" [] @ = "week" -> "day"
                                      [] @ = "day"  -> "lead" [] @ = "lead" -> "over"]
    /\ UNCHANGED <<user, ann, snapshot, del, userLock, worker, faults, mail>>

-----------------------------------------------------------------------------
(* Subscription events *)

\* Queue one account event in the transaction that makes it true.
QueueEvent(kind, p) ==
    del' = IF Mailable(Owner)
           THEN [del EXCEPT ![<<kind, p>>] = Queued(<<kind, p>>, @, user[Owner].gen)] ELSE del

\* _finalize_payment of a renewal, automatic or not
Renew ==
    /\ sub.status \in {"active", "expired"} /\ sub.period < MaxPeriod
    /\ \E open \in {0, sub.open} :
          sub' = [sub EXCEPT !.status = "active", !.period = @ + 1, !.stage = "far", !.open = open]
    /\ QueueEvent("renewed", sub.period + 1)
    /\ UNCHANGED <<user, ann, snapshot, userLock, worker, faults, mail>>

\* expire_due_subscriptions
Expire ==
    /\ sub.status = "active" /\ sub.stage = "over"
    /\ sub' = [sub EXCEPT !.status = "expired"]
    /\ QueueEvent("expired", sub.period)
    /\ UNCHANGED <<user, ann, snapshot, userLock, worker, faults, mail>>

\* An automatic renewal payment is opened for the current period.
AutoStarts ==
    /\ sub.status = "active" /\ sub.auto /\ sub.open = 0 /\ sub.stage \in {"day", "lead"}
    /\ sub' = [sub EXCEPT !.open = sub.period]
    /\ UNCHANGED <<user, ann, snapshot, del, userLock, worker, faults, mail>>

\* _release_failed_nwc_payment and _release_failed_clink_payment, with
\* _queue_automatic_renewal_failure_notification
AutoFails ==
    /\ sub.open # 0
    /\ sub' = [sub EXCEPT !.auto = FALSE, !.open = 0]
    /\ IF sub.open = sub.period /\ ~HasFailure(sub.period)
       THEN QueueEvent("failed", sub.period) ELSE UNCHANGED del
    /\ UNCHANGED <<user, ann, snapshot, userLock, worker, faults, mail>>

-----------------------------------------------------------------------------
(* Customers and administrators, under the row lock of the account *)

\* toggle_auto_renew
ToggleAuto ==
    /\ sub.status # "none" /\ userLock[Owner] = None
    /\ sub' = [sub EXCEPT !.auto = ~@]
    /\ UNCHANGED <<user, ann, snapshot, del, userLock, worker, faults, mail>>

\* store_notification_email and clear_notification_email
StoreEmail(u) == user' = [user EXCEPT ![u].has = TRUE, ![u].gen = @ + 1]
ClearEmail(u) == user' = [user EXCEPT ![u].has = FALSE, ![u].gen = @ + 1]

\* cancel_pending_notification_email_deliveries, over the three tables
CancelPending(u) == CancelQueued({r \in Rows : Recipient(r) = u})

\* Mutant: the address is changed while a sender holds the account.
SetEmailUnlocked(u) ==
    /\ user[u].gen < MaxGen
    /\ CancelPending(u) /\ StoreEmail(u)
    /\ UNCHANGED <<sub, ann, snapshot, userLock, worker, faults, mail>>

\* _set_notification_email
SetEmail(u) ==
    /\ user[u].gen < MaxGen /\ userLock[u] = None
    /\ CancelPending(u) /\ StoreEmail(u)
    /\ UNCHANGED <<sub, ann, snapshot, userLock, worker, faults, mail>>

\* _delete_notification_email
DeleteEmail(u) ==
    /\ user[u].gen < MaxGen /\ userLock[u] = None
    /\ ClearEmail(u) /\ CancelPending(u)
    /\ UNCHANGED <<sub, ann, snapshot, userLock, worker, faults, mail>>

\* _set_account_suspension: suspend_account and unsuspend_account
SetSuspended(u) ==
    /\ userLock[u] = None
    /\ user' = [user EXCEPT ![u].susp = ~@]
    /\ UNCHANGED <<sub, ann, snapshot, del, userLock, worker, faults, mail>>

CreateAnnouncement ==
    /\ ann.state = "none"
    /\ ann' = [ann EXCEPT !.state = "draft"]
    /\ UNCHANGED <<user, sub, snapshot, del, userLock, worker, faults, mail>>

\* queue_announcement: the recipients, and the generation each consents with, are
\* those of this moment.
QueueAnnouncement ==
    LET recipients == {u \in Users : Mailable(u) /\ user[u].gen >= 1}
        n == Cardinality(recipients)
    IN
    /\ ann.state = "draft"
    /\ snapshot' = [u \in Users |-> IF u \in recipients THEN user[u].gen ELSE 0]
    /\ ann' = [state |-> IF n = 0 THEN "completed" ELSE "queued",
               cursor |-> 0, expanded |-> n = 0, count |-> n]
    /\ UNCHANGED <<user, sub, del, userLock, worker, faults, mail>>

CancelAnnouncement ==
    /\ ann.state \in {"draft", "queued"}
    /\ ann' = [ann EXCEPT !.state = "cancelled"]
    /\ CancelQueued({r \in Rows : Service(r)})
    /\ UNCHANGED <<user, sub, snapshot, userLock, worker, faults, mail>>

-----------------------------------------------------------------------------
(* Specification *)

Step(w) == ReconcileReminders(w) \/ ReconcileAnnouncements(w) \/ ReconcileNotifications(w) \/ Release(w)

Next ==
    \/ \E w \in Workers : Step(w) \/ Crash(w)
    \/ \E r \in Rows : LeaseElapses(r) \/ RetryElapses(r)
    \/ /\ events < MaxEvents /\ events' = events + 1
       /\ \/ PeriodApproaches \/ Renew \/ Expire \/ AutoStarts \/ AutoFails \/ ToggleAuto
          \/ \E u \in Users : SetEmail(u) \/ DeleteEmail(u) \/ SetSuspended(u)
          \/ CreateAnnouncement \/ QueueAnnouncement \/ CancelAnnouncement

\* run_notification_reconciler starts a cycle again after its interval whatever the
\* last one met, and a cycle runs every part; leases and retry delays are times that pass.
Fairness ==
    /\ \A w \in Workers : WF_vars(Step(w))
    /\ SF_vars(\E w \in Workers : Expand(w))
    /\ SF_vars(\E w \in Workers : CompleteLoad(w))
    /\ SF_vars(\E w \in Workers : ClaimNotification(w) \/ ClaimReminder(w) \/ ClaimCampaign(w))
    /\ WF_vars(\E r \in Rows : LeaseElapses(r) \/ RetryElapses(r))

Spec == Init /\ [][Next]_vars /\ Fairness

-----------------------------------------------------------------------------
(* Properties *)

\* A message is never handed to the mail server twice (the SENDING state is committed
\* before SMTP, and neither a crash, a lost lease nor an ambiguous answer sends it again).
MailedAtMostOnce == \A r \in Rows : mail[r] <= 1

\* Work that may still be sent, or that failed, has not been sent: only a message that
\* never left the process is retried or reported as failed.
OpenOrFailedWasNotMailed ==
    \A r \in Rows : del[r].state \in {"queued", "failed"} => mail[r] = 0

Mailed(r) == mail'[r] > mail[r]

\* A message goes out only to the address its recipient has configured at that moment,
\* and only if the recipient has not changed it since the message was queued.
MailGoesToCurrentAddress ==
    [][\A r \in Rows : Mailed(r) => Reachable(r)]_vars

\* No warning about a period follows the confirmation that it was renewed ("so a payment
\* settling during the lock cannot send a stale warning alongside its successful renewal
\* confirmation").
NoWarningAfterConfirmation ==
    [][\A r \in Rows : Mailed(r) /\ ~Service(r) /\ r[1] # "renewed" =>
          \A q \in Periods : q > r[2] => mail[<<"renewed", q>>] = 0]_vars

\* A completed announcement has a row for each recipient of its snapshot, and none of
\* its rows is being sent.
CompletedAccountsForAll ==
    ann.state = "completed" =>
        \A u \in Users :
          /\ snapshot[u] > 0 => \E r \in AnnouncementRows(u) : del[r].state # "none"
          /\ \A r \in AnnouncementRows(u) : del[r].state # "sending"

\* The outbox drains: once the events stop, every delivery ends and a queued announcement
\* is completed.  Old announcement rows of a cancelled campaign are the exception: nobody
\* claims them any more.
OutboxDrains ==
    <>[](/\ ann.state # "queued"
         /\ \A r \in Rows : \/ del[r].state \in Terminal \cup {"none"}
                            \/ r[1] = "campaign" /\ ann.state = "cancelled")

=============================================================================
