---------------------------- MODULE MCCredentials ----------------------------
(* Bounded instances of Credentials: four scenes share one run.              *)
EXTENDS Credentials, TLC

CONSTANTS c1, c2, c3, u1, u2, i1, i2

\* c1 and c2 compete for one account, c1 and c3 for one instance identifier.
MCOwner == c1 :> u1 @@ c2 :> u1 @@ c3 :> u2
MCInstanceOf == c1 :> i1 @@ c2 :> i2 @@ c3 :> i1
MCSubOwner == [s \in Subs |-> u1]

Left(enroll, issue, config, crashes, renewals) ==
    budget = [enroll |-> enroll, issue |-> issue, config |-> config,
              crashes |-> crashes, renewals |-> renewals]

\* The directory is empty or half written, and replicas issue and die.
FirstStart == caCert = None /\ nextCleanup = 0 /\ clock = MaxClock /\ Left(1, 2, 0, 1, 0)

\* The certificate authority exists and every replica has loaded it.
Warm == caCert # None /\ \A p \in Procs : cache[p] = caCert

\* u1 is enrolled: renewals race configuration reads and settlements.
Enrolled == /\ Warm /\ cred[u1] # None /\ cred[u1].c = c1 /\ cred[u2] = None
            /\ clock = 1 /\ nextCleanup = 0 /\ Left(1, 0, 2, 0, 1)
\* u1 is enrolled: clients race to renew.
Renewing == /\ Warm /\ cred[u1] # None /\ cred[u1].c = c1 /\ cred[u2] = None
            /\ clock = MaxClock /\ nextCleanup = 0 /\ Left(4, 0, 0, 0, 0)
\* Everyone is enrolled and many requests share few buckets.
Crowded == /\ Warm /\ cred[u1] # None /\ cred[u2] # None
           /\ clock = 0 /\ nextCleanup = CleanupInterval /\ Left(3, 0, 0, 0, 0)

MCInit == Init /\ (FirstStart \/ Enrolled \/ Renewing \/ Crowded)
MCSpec == MCInit /\ [][Next]_vars

Symmetry == Permutations(Requests) \cup Permutations(Procs)
=============================================================================
