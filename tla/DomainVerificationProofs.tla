----------------------- MODULE DomainVerificationProofs -----------------------
(* Proofs about one ownership lookup, for any number of servers, any limits  *)
(* and any lifetime.                                                         *)
EXTENDS DomainVerification, FiniteSetTheorems, TLAPS

Phases == {"zone", "ns", "addresses", "txt", "cname"}
Verdicts == {"none", "verified", "mismatch", "nxdomain", "nodata"} \cup QueryErrors

Lookup(phase, left, queries, addrs, told, asked, saw, verdict) ==
    [phase |-> phase, left |-> left, queries |-> queries, addrs |-> addrs, told |-> told,
     asked |-> asked, saw |-> saw, verdict |-> verdict]

\* The inductive invariant, as a condition on the fields of a lookup.  While the
\* proof is sought there are servers left to ask and none has given a match;
\* once a server was asked there is time left for the next one.  The last
\* conjuncts are the two properties.
Good(phase, left, queries, addrs, told, asked, saw, verdict) ==
    /\ phase \in Phases /\ left \in Nat /\ queries \in Nat /\ asked \in Nat
    /\ addrs \in SUBSET Servers /\ IsFiniteSet(addrs) /\ addrs \cap Private = {}
    /\ told \in SUBSET QueryErrors /\ saw \in SUBSET TxtReplies /\ verdict \in Verdicts
    /\ phase \notin {"txt", "cname"} => asked = 0 /\ saw = {}
    /\ verdict = "none" =>
        /\ "match" \notin saw
        /\ phase = "txt" => asked < Cardinality(addrs) /\ (asked > 0 => left > 0)
        /\ phase = "addresses" => queries > 0
        /\ phase \in {"cname", "ns", "zone"} => left > 0
    /\ verdict = "verified" <=> "match" \in saw /\ verdict # "none" /\ left > 0
    /\ verdict \in Authoritative =>
        /\ "match" \notin saw
        /\ verdict \in saw \/ (verdict = "nodata" /\ "malformed" \in saw)
        /\ phase = "txt" => asked = Cardinality(addrs)
    /\ verdict = "timeout" /\ phase = "txt" /\ asked > 0 => asked = Cardinality(addrs)

LookupInv ==
    /\ dv = Lookup(dv.phase, dv.left, dv.queries, dv.addrs, dv.told, dv.asked, dv.saw, dv.verdict)
    /\ Good(dv.phase, dv.left, dv.queries, dv.addrs, dv.told, dv.asked, dv.saw, dv.verdict)

-----------------------------------------------------------------------------

\* A step keeps the invariant when it leaves a lookup with good fields.
LEMMA ByFields ==
    ASSUME NEW p, NEW l, NEW q, NEW a, NEW t, NEW n, NEW s, NEW v,
           Good(p, l, q, a, t, n, s, v), dv' = Lookup(p, l, q, a, t, n, s, v)
    PROVE  LookupInv'
  BY DEF LookupInv, Lookup

\* What the two updates of an address query leave.
LEMMA Queried ==
    ASSUME LookupInv, NEW l, NEW q, NEW a, NEW t, NEW d, NEW e,
           d = [dv EXCEPT !.left = l, !.queries = q], e = [d EXCEPT !.addrs = a, !.told = t]
    PROVE  d.told = dv.told /\ e = Lookup(dv.phase, l, q, a, t, dv.asked, dv.saw, dv.verdict)
  BY DEF LookupInv, Lookup

\* What the update of a question for the proof leaves.
LEMMA Asked ==
    ASSUME LookupInv, NEW l, NEW n, NEW s, NEW d, d = [dv EXCEPT !.left = l, !.asked = n, !.saw = s]
    PROVE  d = Lookup(dv.phase, l, dv.queries, dv.addrs, dv.told, n, s, dv.verdict)
  BY DEF LookupInv, Lookup

\* A share is at most what is left, and leaves time for the others.
LEMMA ShareLeaves ==
    ASSUME NEW left \in Nat, NEW n \in Nat \ {0}
    PROVE  /\ left \div n \in 0 .. left
           /\ left > 0 /\ n > 1 => left \div n < left
  OBVIOUS

\* What a query costs is at most what is left, and less when others follow.
LEMMA CostsBounded ==
    ASSUME NEW reply, NEW n \in Nat \ {0}, dv.left \in Nat, NEW cost \in Costs(reply, Share(n))
    PROVE  /\ cost \in Nat /\ dv.left - cost \in Nat
           /\ dv.left > 0 /\ n > 1 => dv.left - cost > 0
  BY ShareLeaves DEF Costs, Share

\* A lookup starts with its invariant.
LEMMA LookupStarts == DvInit => LookupInv
  <1> SUFFICES ASSUME NEW p \in {"zone", "cname"}, dv = NewLookup(p) PROVE LookupInv
    BY DEF DvInit
  <1>1. Good(p, Lifetime, 0, {}, {}, 0, {}, "none")
    BY FS_EmptySet, VerificationAssumption
       DEF Good, Phases, Verdicts, QueryErrors, TxtReplies, Authoritative
  <1> QED
    BY <1>1 DEF NewLookup, LookupInv, Lookup

\* zone_for_name keeps the invariant.
LEMMA ZoneKeeps == LookupInv /\ FindZone => LookupInv'
  <1> SUFFICES ASSUME LookupInv, FindZone PROVE LookupInv'
    OBVIOUS
  <1>1. PICK reply \in {"found"} \cup QueryErrors : \E cost \in Costs(reply, dv.left) :
          LET d == [dv EXCEPT !.left = @ - cost] IN
          IF reply # "found" THEN Conclude(d, reply)
          ELSE IF d.left = 0 THEN Conclude(d, "timeout") ELSE dv' = [d EXCEPT !.phase = "ns"]
    BY DEF FindZone
  <1>2. PICK cost \in Costs(reply, dv.left) :
          LET d == [dv EXCEPT !.left = @ - cost] IN
          IF reply # "found" THEN Conclude(d, reply)
          ELSE IF d.left = 0 THEN Conclude(d, "timeout") ELSE dv' = [d EXCEPT !.phase = "ns"]
    BY <1>1
  <1> DEFINE left == dv.left - cost
             phase == IF reply = "found" /\ left # 0 THEN "ns" ELSE "zone"
             verdict == IF reply # "found" THEN reply ELSE IF left = 0 THEN "timeout" ELSE "none"
  <1>3. left \in Nat /\ dv.phase = "zone" /\ dv.verdict = "none"
    BY DEF LookupInv, Good, Costs, FindZone, Open
  <1>4. Good(phase, left, dv.queries, dv.addrs, dv.told, dv.asked, dv.saw, verdict)
    BY <1>3 DEF LookupInv, Good, Phases, Verdicts, QueryErrors, TxtReplies, Authoritative
  <1>5. dv' = Lookup(phase, left, dv.queries, dv.addrs, dv.told, dv.asked, dv.saw, verdict)
    BY <1>2, <1>3 DEF LookupInv, Lookup, Conclude
  <1> QED
    BY <1>4, <1>5, ByFields

\* _nameserver_targets keeps the invariant.
LEMMA TargetsKeep == LookupInv /\ FindTargets => LookupInv'
  <1> SUFFICES ASSUME LookupInv, FindTargets PROVE LookupInv'
    OBVIOUS
  <1>0. dv.phase = "ns" /\ dv.verdict = "none"
    BY DEF FindTargets, Open
  <1>1. ASSUME NEW reply \in QueryErrors, Conclude(dv, reply) PROVE LookupInv'
    <2>1. Good(dv.phase, dv.left, dv.queries, dv.addrs, dv.told, dv.asked, dv.saw, reply)
      BY <1>0 DEF LookupInv, Good, Phases, Verdicts, QueryErrors, TxtReplies, Authoritative
    <2>2. dv' = Lookup(dv.phase, dv.left, dv.queries, dv.addrs, dv.told, dv.asked, dv.saw, reply)
      BY <1>1 DEF LookupInv, Lookup, Conclude
    <2> QED
      BY <2>1, <2>2, ByFields
  <1>2. ASSUME NEW n \in 1 .. MaxTargets, NEW cost \in {0, dv.left},
               dv' = [dv EXCEPT !.phase = "addresses", !.left = @ - cost, !.queries = 2 * n]
        PROVE LookupInv'
    <2>1. Good("addresses", dv.left - cost, 2 * n, dv.addrs, dv.told, dv.asked, dv.saw, dv.verdict)
      BY <1>0, VerificationAssumption
         DEF LookupInv, Good, Phases, Verdicts, QueryErrors, TxtReplies, Authoritative
    <2>2. dv' = Lookup("addresses", dv.left - cost, 2 * n, dv.addrs, dv.told, dv.asked, dv.saw,
                       dv.verdict)
      BY <1>2 DEF LookupInv, Lookup
    <2> QED
      BY <2>1, <2>2, ByFields
  <1> QED
    BY <1>1, <1>2 DEF FindTargets

\* An address query keeps the invariant: unsafe addresses end the lookup, and
\* the proof starts only with a server to ask.
LEMMA AddressesKeep == LookupInv /\ FindAddresses => LookupInv'
  <1> SUFFICES ASSUME LookupInv, FindAddresses PROVE LookupInv'
    OBVIOUS
  <1>1. PICK reply \in {"none", "found"} \cup QueryErrors, found \in SUBSET Servers :
          IsFiniteSet(found) /\ AddressQuery(reply, found)
    <2>1. CASE \E r \in {"none"} \cup QueryErrors : AddressQuery(r, {})
      BY <2>1, FS_EmptySet
    <2>2. CASE \E a, b \in Servers : AddressQuery("found", {a, b})
      <3>1. PICK a \in Servers, b \in Servers : AddressQuery("found", {a, b})
        BY <2>2
      <3>2. IsFiniteSet({a}) /\ IsFiniteSet({b})
        BY FS_Singleton
      <3>3. IsFiniteSet({a} \cup {b})
        BY <3>2, FS_Union
      <3>4. {a} \cup {b} = {a, b}
        OBVIOUS
      <3> QED
        BY <3>1, <3>3, <3>4
    <2> QED
      BY <2>1, <2>2 DEF FindAddresses
  <1>2. PICK cost \in Costs(reply, Share(dv.queries)), taken \in Taken(found) :
          LET d == [dv EXCEPT !.left = @ - cost, !.queries = @ - 1] IN
          IF Unsafe(taken) THEN Conclude(d, "failure")
          ELSE AfterQuery([d EXCEPT !.addrs = Merged(taken),
                                    !.told = @ \cup ({reply} \cap QueryErrors)])
    BY <1>1 DEF AddressQuery
  <1> DEFINE left == dv.left - cost
             queries == dv.queries - 1
             addrs == Merged(taken)
             told == dv.told \cup ({reply} \cap QueryErrors)
  <1>3. /\ left \in Nat /\ queries \in Nat
        /\ dv.phase = "addresses" /\ dv.verdict = "none" /\ dv.asked = 0 /\ dv.saw = {}
    BY CostsBounded DEF FindAddresses, Open, LookupInv, Good
  <1>4. addrs \in SUBSET Servers /\ IsFiniteSet(addrs) /\ told \in SUBSET QueryErrors
    BY <1>1, FS_Subset, FS_Union DEF Taken, Merged, LookupInv, Good
  <1>5. addrs # {} => Cardinality(addrs) \in Nat /\ Cardinality(addrs) > 0
    BY <1>4, FS_CardinalityType, FS_EmptySet
  <1>6. CASE Unsafe(taken)
    <2>1. Good(dv.phase, left, queries, dv.addrs, dv.told, dv.asked, dv.saw, "failure")
      BY <1>3 DEF LookupInv, Good, Phases, Verdicts, QueryErrors, TxtReplies, Authoritative
    <2>2. dv' = Lookup(dv.phase, left, queries, dv.addrs, dv.told, dv.asked, dv.saw, "failure")
      BY <1>2, <1>6 DEF LookupInv, Lookup, Conclude
    <2> QED
      BY <2>1, <2>2, ByFields
  <1>7. CASE ~Unsafe(taken)
    <2> DEFINE e == Lookup(dv.phase, left, queries, addrs, told, dv.asked, dv.saw, dv.verdict)
    <2>1. addrs \cap Private = {}
      BY <1>7 DEF Unsafe, Merged, LookupInv, Good
    <2>2. AfterQuery(e)
      <3>1. PICK d : d = [dv EXCEPT !.left = left, !.queries = queries]
        OBVIOUS
      <3>2. PICK f : f = [d EXCEPT !.addrs = addrs, !.told = told]
        OBVIOUS
      <3>3. f = e /\ d.told = dv.told
        BY <3>1, <3>2, Queried
      <3>4. AfterQuery([d EXCEPT !.addrs = addrs, !.told = d.told \cup ({reply} \cap QueryErrors)])
        BY <1>2, <1>7, <3>1
      <3> QED
        BY <3>2, <3>3, <3>4
    <2>3. CASE queries > 0 /\ Cardinality(addrs) < MaxAddresses
      <3>1. Good(dv.phase, left, queries, addrs, told, dv.asked, dv.saw, dv.verdict)
        BY <1>3, <1>4, <2>1, <2>3
           DEF LookupInv, Good, Phases, Verdicts, QueryErrors, TxtReplies, Authoritative
      <3>2. dv' = e
        BY <2>2, <2>3 DEF AfterQuery, Lookup
      <3> QED
        BY <3>1, <3>2, ByFields
    <2>4. CASE ~(queries > 0 /\ Cardinality(addrs) < MaxAddresses) /\ addrs = {}
      <3>1. NoAddresses(told) \in QueryErrors
        BY DEF NoAddresses, QueryErrors
      <3>2. Good(dv.phase, left, queries, addrs, told, dv.asked, dv.saw, NoAddresses(told))
        BY <1>3, <1>4, <2>1, <3>1
           DEF LookupInv, Good, Phases, Verdicts, QueryErrors, TxtReplies, Authoritative
      <3>3. dv' = Lookup(dv.phase, left, queries, addrs, told, dv.asked, dv.saw, NoAddresses(told))
        BY <2>2, <2>4 DEF AfterQuery, Lookup, Conclude
      <3> QED
        BY <3>2, <3>3, ByFields
    <2>5. CASE ~(queries > 0 /\ Cardinality(addrs) < MaxAddresses) /\ addrs # {}
      <3>1. Good("txt", left, 0, addrs, told, dv.asked, dv.saw, dv.verdict)
        BY <1>3, <1>4, <1>5, <2>1, <2>5
           DEF LookupInv, Good, Phases, Verdicts, QueryErrors, TxtReplies, Authoritative
      <3>2. dv' = Lookup("txt", left, 0, addrs, told, dv.asked, dv.saw, dv.verdict)
        BY <2>2, <2>5 DEF AfterQuery, Lookup
      <3> QED
        BY <3>1, <3>2, ByFields
    <2> QED
      BY <2>3, <2>4, <2>5
  <1> QED
    BY <1>6, <1>7

\* Asking a server keeps the invariant: its share leaves time for those after
\* it, so only the last one can use the lifetime up.
LEMMA AskKeeps == LookupInv /\ AskTxt => LookupInv'
  <1> SUFFICES ASSUME LookupInv, AskTxt PROVE LookupInv'
    OBVIOUS
  <1> DEFINE n == Cardinality(dv.addrs) - dv.asked
  <1>0. PICK reply \in TxtReplies : \E cost \in Costs(reply, Share(n)) :
          LET d == [dv EXCEPT !.left = @ - cost, !.asked = @ + 1, !.saw = @ \cup {reply}] IN
          IF d.left = 0 /\ reply \in Authoritative \cup {"lame"} THEN Conclude(d, "timeout")
          ELSE IF Proven(reply) THEN Conclude(d, "verified")
          ELSE IF d.asked = Cardinality(d.addrs) THEN Conclude(d, TxtVerdict(d.saw))
          ELSE dv' = d
    BY DEF AskTxt
  <1>1. PICK cost \in Costs(reply, Share(n)) :
          LET d == [dv EXCEPT !.left = @ - cost, !.asked = @ + 1, !.saw = @ \cup {reply}] IN
          IF d.left = 0 /\ reply \in Authoritative \cup {"lame"} THEN Conclude(d, "timeout")
          ELSE IF Proven(reply) THEN Conclude(d, "verified")
          ELSE IF d.asked = Cardinality(d.addrs) THEN Conclude(d, TxtVerdict(d.saw))
          ELSE dv' = d
    BY <1>0
  <1> DEFINE left == dv.left - cost
             asked == dv.asked + 1
             saw == dv.saw \cup {reply}
             late == left = 0 /\ reply \in Authoritative \cup {"lame"}
             Now(v) == Lookup(dv.phase, left, dv.queries, dv.addrs, dv.told, asked, saw, v)
             Fine(v) == Good(dv.phase, left, dv.queries, dv.addrs, dv.told, asked, saw, v)
  <1>2. Cardinality(dv.addrs) \in Nat /\ n \in Nat \ {0}
    BY FS_CardinalityType DEF LookupInv, Good, AskTxt, Open
  <1>3. dv.left \in Nat /\ dv.left > 0
    BY DEF LookupInv, Good, AskTxt
  <1>4. left \in Nat /\ (n > 1 => left > 0)
    BY <1>2, <1>3, CostsBounded
  <1>5. /\ asked \in Nat /\ asked <= Cardinality(dv.addrs)
        /\ asked < Cardinality(dv.addrs) => left > 0
        /\ dv.phase = "txt" /\ dv.verdict = "none" /\ "match" \notin dv.saw
        /\ saw \in SUBSET TxtReplies
    BY <1>2, <1>4 DEF LookupInv, Good, AskTxt, Open
  <1>6. IF late THEN dv' = Now("timeout")
        ELSE IF Proven(reply) THEN dv' = Now("verified")
        ELSE IF asked = Cardinality(dv.addrs) THEN dv' = Now(TxtVerdict(saw))
        ELSE dv' = Now("none")
    <2>1. PICK d : d = [dv EXCEPT !.left = left, !.asked = asked, !.saw = saw]
      OBVIOUS
    <2>2. d = Now("none")
      BY <1>5, <2>1, Asked
    <2>3. \A v : [d EXCEPT !.verdict = v] = Now(v)
      BY <2>2 DEF Lookup
    <2>4. d.left = left /\ d.asked = asked /\ d.saw = saw /\ d.addrs = dv.addrs
      BY <2>2 DEF Lookup
    <2>5. IF d.left = 0 /\ reply \in Authoritative \cup {"lame"} THEN Conclude(d, "timeout")
          ELSE IF Proven(reply) THEN Conclude(d, "verified")
          ELSE IF d.asked = Cardinality(d.addrs) THEN Conclude(d, TxtVerdict(d.saw))
          ELSE dv' = d
      BY <1>1, <2>1
    <2> QED
      BY <2>2, <2>3, <2>4, <2>5 DEF Conclude
  <1>7. CASE late
    <2>1. Fine("timeout")
      BY <1>2, <1>4, <1>5, <1>7
         DEF LookupInv, Good, Phases, Verdicts, QueryErrors, TxtReplies, Authoritative
    <2> QED
      BY <1>6, <1>7, <2>1, ByFields
  <1>8. CASE ~late /\ Proven(reply)
    <2>1. Fine("verified")
      BY <1>2, <1>4, <1>5, <1>8
         DEF Proven, LookupInv, Good, Phases, Verdicts, QueryErrors, TxtReplies, Authoritative
    <2> QED
      BY <1>6, <1>8, <2>1, ByFields
  <1>9. CASE ~late /\ ~Proven(reply) /\ asked = Cardinality(dv.addrs)
    <2>1. "match" \notin saw
      BY <1>5, <1>9 DEF Proven
    <2>2. /\ TxtVerdict(saw) \in Verdicts \ {"none", "verified", "match", "malformed"}
          /\ TxtVerdict(saw) \in Authoritative =>
                TxtVerdict(saw) \in saw \/ (TxtVerdict(saw) = "nodata" /\ "malformed" \in saw)
      BY <2>1 DEF TxtVerdict, Verdicts, Authoritative, QueryErrors
    <2>3. Fine(TxtVerdict(saw))
      BY <1>2, <1>4, <1>5, <1>9, <2>1, <2>2
         DEF LookupInv, Good
    <2> QED
      BY <1>6, <1>9, <2>3, ByFields
  <1>10. CASE ~late /\ ~Proven(reply) /\ asked # Cardinality(dv.addrs)
    <2>1. Fine("none")
      BY <1>2, <1>4, <1>5, <1>10
         DEF Proven, LookupInv, Good, Phases, Verdicts, QueryErrors, TxtReplies, Authoritative
    <2> QED
      BY <1>6, <1>10, <2>1, ByFields
  <1> QED
    BY <1>7, <1>8, <1>9, <1>10

\* A lifetime that has run out keeps the invariant: in the proof phase that can
\* only be before the first server was asked.
LEMMA DeadlineKeeps == LookupInv /\ DeadlinePassed => LookupInv'
  <1> SUFFICES ASSUME LookupInv, DeadlinePassed PROVE LookupInv'
    OBVIOUS
  <1>1. Good(dv.phase, dv.left, dv.queries, dv.addrs, dv.told, dv.asked, dv.saw, "timeout")
    BY DEF DeadlinePassed, LookupInv, Good, Phases, Verdicts, QueryErrors, TxtReplies, Authoritative
  <1>2. dv' = Lookup(dv.phase, dv.left, dv.queries, dv.addrs, dv.told, dv.asked, dv.saw, "timeout")
    BY DEF DeadlinePassed, LookupInv, Lookup, Conclude
  <1> QED
    BY <1>1, <1>2, ByFields

\* verify_cname keeps the invariant.
LEMMA CnameKeeps == LookupInv /\ AskCname => LookupInv'
  <1> SUFFICES ASSUME LookupInv, AskCname PROVE LookupInv'
    OBVIOUS
  <1>1. PICK reply \in {"match", "mismatch", "nxdomain", "nodata", "lame"} \cup QueryErrors :
          Conclude([dv EXCEPT !.asked = 1, !.saw = {reply}],
                   CASE reply = "match" -> "verified" [] reply = "lame" -> "failure"
                     [] OTHER -> reply)
    BY DEF AskCname
  <1> DEFINE verdict == CASE reply = "match" -> "verified" [] reply = "lame" -> "failure"
                          [] OTHER -> reply
  <1>2. /\ verdict \in Verdicts \ {"none"}
        /\ verdict = "verified" <=> reply = "match"
        /\ verdict \in Authoritative => verdict = reply
    BY DEF Verdicts, QueryErrors, Authoritative
  <1>3. dv' = Lookup(dv.phase, dv.left, dv.queries, dv.addrs, dv.told, 1, {reply}, verdict)
    BY <1>1 DEF LookupInv, Lookup, Conclude
  <1> HIDE DEF verdict
  <1>4. Good(dv.phase, dv.left, dv.queries, dv.addrs, dv.told, 1, {reply}, verdict)
    BY <1>2 DEF AskCname, Open, LookupInv, Good, TxtReplies, QueryErrors, Authoritative
  <1> QED
    BY <1>3, <1>4, ByFields

\* Every step of a lookup keeps the invariant.
LEMMA LookupKeeps == LookupInv /\ [DvNext]_dv => LookupInv'
  <1>1. LookupInv /\ UNCHANGED dv => LookupInv'
    BY DEF LookupInv
  <1> QED
    BY <1>1, ZoneKeeps, TargetsKeep, AddressesKeep, AskKeeps, DeadlineKeeps, CnameKeeps DEF DvNext

\* The verdict of verify_txt and verify_cname is what the servers said, however
\* many there are and however they share the lifetime.
THEOREM VerdictIsFaithful == DvSpec => []VerdictFaithful
  <1>1. LookupInv => VerdictFaithful
    BY DEF LookupInv, Good, VerdictFaithful
  <1> QED
    BY <1>1, LookupStarts, LookupKeeps, PTL DEF DvSpec

\* _verify_authoritative_txt divides the lifetime so that a silent server never
\* takes the turn of another one.
THEOREM NoServerStarved == DvSpec => []EveryServerAsked
  <1>1. LookupInv => EveryServerAsked
    BY DEF LookupInv, Good, EveryServerAsked
  <1> QED
    BY <1>1, LookupStarts, LookupKeeps, PTL DEF DvSpec
=============================================================================
