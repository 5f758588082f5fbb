---------------------------- MODULE MCSettlement ----------------------------
(* Instances of Settlement for TLC. *)
EXTENDS Settlement, TLC

OneAccount == [s \in Subs |-> CHOOSE a \in Accounts : TRUE]
PortOnly == [s \in Subs |-> "port"]
Mixed == [s \in Subs |-> IF s \in Legacy THEN "port" ELSE "ip"]
SharedInventory == [k \in {"ip", "port"} |-> Addrs]

\* Payments, assignments and sessions are interchangeable.
Symmetry == Permutations(Payments) \cup Permutations(Addrs) \cup Permutations(Workers)
=============================================================================
