-------------------------- MODULE MCNotifications --------------------------
(***************************************************************************)
(* Instances of Notifications for TLC.  A subscription and an announcement *)
(* meet only in the workers, so a behaviour has one of them.  Each scene   *)
(* fixes how many replicas run and how many events and faults are left.    *)
(***************************************************************************)
EXTENDS Notifications

CONSTANTS w1, w2

Running(ws) == \A w \in Workers : worker[w].pc = "idle" <=> w \in ws
Left(e, f) == events = MaxEvents - e /\ faults = MaxFaults - f

\* One account with a subscription; the other one takes no part.
Subscribed(stage, auto, old) ==
    /\ sub.status = "active" /\ sub.stage = stage /\ sub.auto = auto /\ ann.state = "cancelled"
    /\ \A u \in Users : IF u = Owner THEN user[u].has ELSE ~user[u].has /\ user[u].gen = MaxGen
    /\ del[<<"reminder", 1>>].state = IF old THEN "queued" ELSE "none"

\* Two accounts and one announcement, new or left by an earlier version.
Announced(state) ==
    /\ sub.status = "none" /\ ann.state = state
    /\ \A u \in Users : user[u].has

Scenes ==
    \/ Subscribed("day", FALSE, FALSE) /\ Running({w1, w2}) /\ Left(1, 1)
    \/ Subscribed("day", FALSE, TRUE) /\ Running({w1}) /\ Left(1, 1)
    \/ Subscribed("week", FALSE, FALSE) /\ Running({w1}) /\ Left(2, 0)
    \/ Subscribed("lead", TRUE, FALSE) /\ Running({w1}) /\ Left(2, 0)
    \/ Announced("none") /\ Running({w1}) /\ Left(3, 0)
    \/ Announced("queued") /\ Running({w1}) /\ Left(1, 1)
    \/ Announced("queued") /\ Running({w1, w2}) /\ Left(1, 0)

MCInit == Init /\ Scenes
MCSpec == MCInit /\ [][Next]_vars /\ Fairness

=============================================================================
