------------------------------- MODULE MCEdge -------------------------------
(* The relay edge against the backend: the routed plane and what edges       *)
(* report. The two share no state, so every scene runs one of them. Relays   *)
(* meter the plane; one that does not runs beside it where a payment and an  *)
(* operator do, and alone where the keys rotate twice.                       *)
EXTENDS WireGuard, RelayReports

CONSTANTS u1, u2, s1, s2, a1, a2, a3, a4, i1, i2, i3, k1, k2, k3, p1, p2, e1, e2, c1, c2

VARIABLE scene

vars == <<wgVars, rrVars, scene>>

\* Two agents share the first account's identity; a third holds the identity
\* that follows a reset, and the key of the second account's agent.
MCSubUser == s1 :> u1 @@ s2 :> u2
MCAgentUser == a1 :> u1 @@ a2 :> u1 @@ a3 :> u1 @@ a4 :> u2
MCAgentIdentity == a1 :> i1 @@ a2 :> i1 @@ a3 :> i2 @@ a4 :> i3
MCAgentKey == a1 :> k1 @@ a2 :> k2 @@ a3 :> k3 @@ a4 :> k3

----------------------------------------------------------------------------
(* Scenes of the routed plane.                                               *)

Left(settle, operator, enrol, fault) ==
    /\ account = u1 :> [suspended |-> FALSE, identity |-> i1]
              @@ u2 :> [suspended |-> FALSE, identity |-> i3]
    /\ wgBudget = [settle |-> settle, operator |-> operator, enrol |-> enrol,
                   fault |-> fault, used |-> {i1, i3}]
Row(p) == [status |-> "active", ip |-> p, left |-> Paid, held |-> 0]
Idle == [status |-> "pending", ip |-> Nobody, left |-> 0, held |-> 0]
K(a) == [identity |-> AgentIdentity[a], key |-> AgentKey[a], generation |-> 1]
First == routed = s1 :> Row(p1) @@ s2 :> Idle

\* Agents of both accounts enrol and rotate, identities are reset.
Rotating ==
    /\ routed = s1 :> Row(p1) @@ s2 :> Row(p2) /\ kernel = Closed
    /\ \/ Left(0, 1, 4, 0) /\ wgPeer = [u \in Users |-> Nobody]
       \/ Left(0, 0, 3, 0) /\ wgPeer = u1 :> K(a1) @@ u2 :> Nobody

\* Routes in use, no fault; two of an operator, a payment, enrolments.
Plane ==
    /\ First /\ (Left(1, 1, 0, 0) \/ Left(1, 0, 1, 0) \/ Left(0, 1, 1, 0) \/ Left(0, 0, 2, 0))
    /\ wgPeer = u1 :> K(a1) @@ u2 :> (IF wgBudget.enrol = 0 THEN K(a4) ELSE Nobody)
    /\ kernel = InStep

\* Routes in use; the relay's host fails once.
Faulty(settle, operator) ==
    First /\ Left(settle, operator, 0, 1) /\ wgPeer = u1 :> K(a1) @@ u2 :> Nobody /\ kernel = InStep

QuietPlane ==
    /\ First /\ Left(0, 0, 0, 0) /\ wgPeer = [u \in Users |-> Nobody] /\ kernel = Closed

----------------------------------------------------------------------------
(* Scenes of the reports.                                                    *)

Events(bytes, flushes, faults, n) ==
    rrBudget = [bytes |-> bytes, flushes |-> flushes, faults |-> faults, beats |-> n]
None == [e \in Edges |-> 0]
NoBytes == [e \in Edges |-> [c \in Customers |-> 0]]
Silent == Events(NoBytes, None, 0, None)

\* One subscription on two edges, up to the limit of its counter.
Shared == Events(e1 :> (c1 :> 2 @@ c2 :> 0) @@ e2 :> (c1 :> 1 @@ c2 :> 0),
                 e1 :> 2 @@ e2 :> 1, 1, None)
\* Two subscriptions on one edge, reported in batches.
Batched == Events(e1 :> (c1 :> 1 @@ c2 :> 1) @@ e2 :> (c1 :> 0 @@ c2 :> 0),
                  e1 :> 3 @@ e2 :> 0, 1, None)
Beating == Events(NoBytes, None, 0, e1 :> 3 @@ e2 :> 0)

Init ==
    /\ \/ scene = "rotating" /\ Rotating /\ Silent
       \/ scene = "plane" /\ Plane /\ Silent
       \/ scene = "plane" /\ Faulty(0, 2) /\ Silent
       \/ scene = "bytes" /\ QuietPlane /\ (Shared \/ Batched)
       \/ scene = "beats" /\ QuietPlane /\ Beating
    /\ WgInit /\ RrInit
    /\ \/ manager.metered /\ (scene = "plane" => wgBudget.enrol < 2)
       \/ ~manager.metered /\ ((wgBudget.settle = 1 /\ wgBudget.operator = 1) \/ (scene = "plane" /\ wgBudget.enrol = 2))

\* The scene of the finding: one failure, one payment, one operator.
InitReopened ==
    scene = "plane" /\ Faulty(1, 1) /\ Silent /\ WgInit /\ RrInit /\ manager.metered

Next ==
    /\ UNCHANGED scene
    /\ \/ scene = "rotating" /\ (Enrolment \/ Backend) /\ UNCHANGED rrVars
       \/ scene = "plane" /\ WgNext /\ UNCHANGED rrVars
       \/ scene = "bytes" /\ RrNext /\ UNCHANGED wgVars
       \/ scene = "beats" /\ Heartbeats /\ UNCHANGED wgVars

Spec == Init /\ [][Next]_vars
SpecReopened == InitReopened /\ [][Next]_vars

Symmetry == Permutations(KeyRequests)
=============================================================================
