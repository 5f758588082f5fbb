-------------------------- MODULE DomainVerification --------------------------
(* DnsPythonDomainVerifier (services/domain_verification.py): one lookup of  *)
(* an ownership record under a single lifetime. The recursive resolver finds *)
(* the zone, its nameservers and their addresses; the TXT proof is asked of  *)
(* each address in turn. Every query gets a share of what is left of the     *)
(* lifetime. What the servers answer, and how much of the share they use, is *)
(* free.                                                                     *)
EXTENDS Naturals, FiniteSets

CONSTANTS
    Servers,      \* addresses a query may return
    Private,      \* those that are not globally routable
    MaxTargets,   \* _MAX_AUTHORITATIVE_NS_TARGETS
    MaxAddresses, \* _MAX_AUTHORITATIVE_NS_ADDRESSES
    Lifetime      \* RELAY_DNS_TIMEOUT_SECONDS, in ticks

VARIABLE dv  \* the lookup: [phase, left, queries, addrs, told, asked, saw, verdict]

ASSUME VerificationAssumption ==
    /\ Private \subseteq Servers /\ {MaxTargets, MaxAddresses, Lifetime} \subseteq Nat \ {0}

\* addrs is the code's list: its order is that of the answers, which is free.
\* told: what the address queries reported; asked and saw: how many servers
\* were asked for the proof, and what they said.
NewLookup(phase) == [phase |-> phase, left |-> Lifetime, queries |-> 0, addrs |-> {},
                     told |-> {}, asked |-> 0, saw |-> {}, verdict |-> "none"]

Open(phase) == dv.phase = phase /\ dv.verdict = "none"
Conclude(d, verdict) == dv' = [d EXCEPT !.verdict = verdict]
\* Mutant: a query may use all that is left.
ShareAll(n) == dv.left
\* A share of the lifetime is used at once, or to its end by a timeout.
Share(n) == dv.left \div n
Costs(reply, share) == IF reply = "timeout" THEN {share} ELSE {0, share}

\* What the exceptions of a recursive query turn into.
QueryErrors == {"timeout", "unavailable", "failure"}

----------------------------------------------------------------------------
(* The zone and its nameservers.                                             *)

\* zone_for_name
FindZone ==
    /\ Open("zone")
    /\ \E reply \in {"found"} \cup QueryErrors : \E cost \in Costs(reply, dv.left) :
         LET d == [dv EXCEPT !.left = @ - cost] IN
         IF reply # "found" THEN Conclude(d, reply)
         ELSE IF d.left = 0 THEN Conclude(d, "timeout") ELSE dv' = [d EXCEPT !.phase = "ns"]

\* _nameserver_targets: invalid or no records fail, the rest are cut off.
FindTargets ==
    /\ Open("ns")
    /\ \/ \E reply \in QueryErrors : Conclude(dv, reply)
       \/ \E n \in 1..MaxTargets, cost \in {0, dv.left} :
            dv' = [dv EXCEPT !.phase = "addresses", !.left = @ - cost, !.queries = 2 * n]

\* _public_nameserver_addresses: as many records as there is room for, the
\* first ones of an answer in any order; an unsafe one among them fails all.
Taken(found) ==
    {T \in SUBSET found : Cardinality(T) = IF Cardinality(found) <= MaxAddresses - Cardinality(dv.addrs)
                                           THEN Cardinality(found)
                                           ELSE MaxAddresses - Cardinality(dv.addrs)}
Unsafe(taken) == taken \cap Private # {}
Merged(taken) == dv.addrs \cup taken

\* Without addresses the verdict is the first kind of error met, by rank.
NoAddresses(told) ==
    CASE "timeout" \in told -> "timeout"
      [] "timeout" \notin told /\ "unavailable" \in told -> "unavailable"
      [] OTHER -> "failure"

AfterQuery(d) ==
    IF d.queries > 0 /\ Cardinality(d.addrs) < MaxAddresses THEN dv' = d
    ELSE IF d.addrs = {} THEN Conclude(d, NoAddresses(d.told))
    ELSE dv' = [d EXCEPT !.phase = "txt", !.queries = 0]

AddressQuery(reply, found) ==
    \E cost \in Costs(reply, Share(dv.queries)), taken \in Taken(found) :
        LET d == [dv EXCEPT !.left = @ - cost, !.queries = @ - 1] IN
        IF Unsafe(taken) THEN Conclude(d, "failure")
        ELSE AfterQuery([d EXCEPT !.addrs = Merged(taken), !.told = @ \cup ({reply} \cap QueryErrors)])

FindAddresses ==
    /\ Open("addresses") /\ dv.left > 0
    /\ \/ \E reply \in {"none"} \cup QueryErrors : AddressQuery(reply, {})
       \/ \E a, b \in Servers : AddressQuery("found", {a, b})

----------------------------------------------------------------------------
(* The proof.                                                                *)

\* Authoritative answers; malformed: one whose TXT record cannot be read.
Authoritative == {"match", "mismatch", "nxdomain", "nodata", "malformed"}
\* lame: an answer without the authoritative bit.
TxtReplies == Authoritative \cup {"lame"} \cup QueryErrors

TxtVerdict(saw) ==
    IF "mismatch" \in saw THEN "mismatch"
    ELSE IF "nxdomain" \in saw THEN "nxdomain"
    ELSE IF saw \cap Authoritative # {} THEN "nodata"
    ELSE IF "lame" \in saw THEN "failure"
    ELSE IF "timeout" \in saw THEN "timeout"
    ELSE IF "unavailable" \in saw THEN "unavailable" ELSE "failure"

\* Mutant: an answer without the authoritative bit is looked at all the same.
ProvenLame(reply) == reply \in {"match", "lame"}
\* A match ends the lookup, the last server does too; an answer that used up
\* the lifetime is not looked at.
Proven(reply) == reply = "match"
AskTxt ==
    /\ Open("txt") /\ dv.left > 0
    /\ \E reply \in TxtReplies : \E cost \in Costs(reply, Share(Cardinality(dv.addrs) - dv.asked)) :
         LET d == [dv EXCEPT !.left = @ - cost, !.asked = @ + 1, !.saw = @ \cup {reply}] IN
         IF d.left = 0 /\ reply \in Authoritative \cup {"lame"} THEN Conclude(d, "timeout")
         ELSE IF Proven(reply) THEN Conclude(d, "verified")
         ELSE IF d.asked = Cardinality(d.addrs) THEN Conclude(d, TxtVerdict(d.saw))
         ELSE dv' = d

\* _remaining_lifetime, wherever the next query would start.
DeadlinePassed ==
    /\ dv.verdict = "none" /\ dv.phase \in {"addresses", "txt"} /\ dv.left = 0
    /\ Conclude(dv, "timeout")

\* verify_cname: one recursive query.
AskCname ==
    /\ Open("cname")
    /\ \E reply \in {"match", "mismatch", "nxdomain", "nodata", "lame"} \cup QueryErrors :
         Conclude([dv EXCEPT !.asked = 1, !.saw = {reply}],
                  CASE reply = "match" -> "verified" [] reply = "lame" -> "failure" [] OTHER -> reply)

DvInit == dv \in {NewLookup("zone"), NewLookup("cname")}
DvNext == FindZone \/ FindTargets \/ FindAddresses \/ AskTxt \/ DeadlinePassed \/ AskCname
DvSpec == DvInit /\ [][DvNext]_dv

----------------------------------------------------------------------------
(* Properties.                                                               *)

\* Ownership is verified exactly when a server of a public address gave the
\* expected value in time, and it is refused (record absent or different) only
\* when every address was asked, none gave that value and an authoritative
\* answer of one of them is the reason: a server that is down or lame, or a
\* lifetime that ran out, never refuses a customer.
VerdictFaithful ==
    /\ dv.verdict = "verified" <=> "match" \in dv.saw /\ dv.verdict # "none" /\ dv.left > 0
    /\ dv.addrs \cap Private = {}
    /\ dv.verdict \in Authoritative =>
        /\ "match" \notin dv.saw
        /\ dv.verdict \in dv.saw \/ (dv.verdict = "nodata" /\ "malformed" \in dv.saw)
        /\ dv.phase = "txt" => dv.asked = Cardinality(dv.addrs)

\* A slow server cannot use up the others' time: when the proof is given up
\* as timed out, every server has been asked, unless the search for their
\* addresses had left no time at all.
EveryServerAsked ==
    dv.verdict = "timeout" /\ dv.phase = "txt" /\ dv.asked > 0 => dv.asked = Cardinality(dv.addrs)

=============================================================================
