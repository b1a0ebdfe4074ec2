------------------------- MODULE FetchDNSCryptProof -------------------------
(***************************************************************************)
(* A fetch of a DNSCrypt server is right for every configuration: any      *)
(* servers, relays and routes, addresses of any size, any number of tries  *)
(* and of certificates.                                                    *)
(*                                                                         *)
(* Each phase has an invariant of its own.  RouteInv says what the         *)
(* candidates and the relays that findFarthestRoute keeps are, ExchangeInv *)
(* that no option is lost between the probes and the loop, and IndInv      *)
(* which certificate has been chosen.  FetchInv puts them together with    *)
(* what a phase hands to the next one.  The same invariant bounds what is  *)
(* in the channel of the probes.                                           *)
(***************************************************************************)
EXTENDS FetchDNSCrypt, FiniteSetTheorems, NaturalsInduction, TLAPS

-----------------------------------------------------------------------------
(***************************************************************************)
(* Routes                                                                  *)
(***************************************************************************)

\* The relation of the library's theorem on well-founded sets.
Below == {ss \in Nat \X Nat : ss[1] < ss[2]}

\* A set of lengths of prefixes has a greatest element.
LEMMA GreatestLength ==
  ASSUME NEW S, S \subseteq 0..Width, S # {}
  PROVE  \E n \in S : \A m \in S : m <= n
<1> DEFINE T == {Width - n : n \in S}
<1>0. Width \in Nat
  BY FetchDNSCryptAssumption DEF FetchDNSCryptAssumption
<1>1. T \subseteq Nat /\ T # {}
  <2>1. \A n \in S : n \in Int /\ Width - n \in Nat
    BY <1>0
  <2> QED
    BY <2>1, Zenon
<1>2. IsWellFoundedOn(Below, Nat)
  BY NatLessThanWellFounded DEF OpToRel, Below
<1> HIDE DEF T
<1>3. PICK x \in T : \A y \in T : ~(<<y, x>> \in Below)
  BY <1>1, <1>2, WFMin, Zenon
<1>4. \A y \in T : ~(y < x)
  BY ZenonT(30), <1>1, <1>3 DEF Below
<1> USE DEF T
<1>5. PICK n \in S : x = Width - n
  BY <1>3
<1>6. ASSUME NEW m \in S PROVE m <= n
  <2>1. Width - m \in T
    OBVIOUS
  <2>2. ~(Width - m < Width - n) /\ m \in Int /\ n \in Int
    BY <1>0, <1>4, <1>5, <2>1
  <2> QED
    BY <1>0, <2>2
<1> QED
  BY <1>6

\* How many bits two addresses share is a number that can be compared.
LEMMA PrefixBits == \A a, b : R!SamePrefixBits(a, b) \in 0..Width
<1> SUFFICES ASSUME NEW a, NEW b PROVE R!SamePrefixBits(a, b) \in 0..Width
  OBVIOUS
<1> DEFINE same == {n \in 0..Width : SubSeq(a.bits, 1, n) = SubSeq(b.bits, 1, n)}
<1>1. 0 \in same
  BY FetchDNSCryptAssumption DEF FetchDNSCryptAssumption
<1>2. \E n \in same : \A m \in same : m <= n
  BY Zenon, <1>1, GreatestLength
<1> QED
  BY Zenon, <1>2 DEF R!SamePrefixBits

Looking == {"entries", "registered", "any", "farthest", "scan", "relay"}

Candidate == Relays \cup Stamps

RouteTypeOK ==
  /\ routes \in RouteSets /\ registeredRelays \in Seq(Relays)
  /\ relayStamps \in Seq(Candidate)
  /\ entry \in Nat /\ idx \in Nat /\ bestBits \in 0..Width

\* Every candidate has the protocol that the server needs.
RightProto == pc \in Looking =>
  \A k \in DOMAIN relayStamps : relayStamps[k].proto = R!RelayProto(server.proto)

\* A relay is drawn from all the candidates only where the code does so.
DrawnFromAll == pc = "any" => ~R!Wildcard(server) \/ Len(relayStamps) = 1

\* What findFarthestRoute has kept, and left out.
KeptComparable == pc = "scan" =>
  /\ idx > 0
  /\ \A k \in bestIdxs : k \in DOMAIN relayStamps /\ R!Comparable(relayStamps[k])
  /\ \A k \in 1..(idx - 1) : R!Comparable(relayStamps[k]) =>
        R!SamePrefixBits(server.addr, relayStamps[k].addr) >= bestBits

RouteInv == /\ RouteTypeOK /\ RightProto /\ DrawnFromAll /\ KeptComparable
            /\ AnonymizedOrFailed /\ ScanFindsFarthest

\* The entries of a route are a sequence.
LEMMA ViaIsSequence ==
  ASSUME routes \in RouteSets, NEW s PROVE R!Via(s) \in Seq(R!Entries)
  BY FetchDNSCryptAssumption DEF FetchDNSCryptAssumption, R!Via

\* A candidate of the right protocol is added.
LEMMA CandidateAdded ==
  ASSUME NEW r \in Candidate, RouteTypeOK, RightProto, pc \in Looking,
         r.proto = R!RelayProto(server.proto)
  PROVE  LET stamps == Append(relayStamps, r)
         IN  /\ stamps \in Seq(Candidate)
             /\ \A k \in DOMAIN stamps : stamps[k].proto = R!RelayProto(server.proto)
  BY DEF RouteTypeOK, RightProto

\* There may be no candidate.
LEMMA NoCandidate == <<>> \in Seq(Candidate)
  OBVIOUS

\* The search for a relay, with the registrations that it races with.
LEMMA RouteStep == ASSUME RouteInv, R!Next PROVE RouteInv'
<1> USE DEF RouteInv
<1>1. ASSUME NEW s \in Servers, R!Route(s) PROVE RouteInv'
  <2>1. RouteTypeOK'
    <3>1. /\ relayStamps' = relayStamps \/ relayStamps' = <<>>
          /\ entry' = entry \/ entry' = 1
          /\ idx' = idx
          /\ routes' = routes /\ registeredRelays' = registeredRelays /\ bestBits' = bestBits
      BY <1>1, Zenon DEF R!Route
    <3> QED
      <4>1. relayStamps' \in Seq(Candidate)
        BY <3>1, NoCandidate, Zenon DEF RouteTypeOK
      <4>2. entry' \in Nat
        BY <3>1 DEF RouteTypeOK
      <4> QED
        BY <3>1, <4>1, <4>2 DEF RouteTypeOK
  <2>2. R!Via(s)' = R!Via(s)
    BY <1>1 DEF R!Route, R!Via
  <2>3. AnonymizedOrFailed'
    BY <1>1, <2>2 DEF R!Route, AnonymizedOrFailed, R!AnonymizedOrFailed
  <2>4. RightProto'
    BY <1>1 DEF R!Route, RightProto, Looking
  <2> QED
    BY <1>1, <2>1, <2>3, <2>4 DEF R!Route, DrawnFromAll, KeptComparable, ScanFindsFarthest,
       R!ScanFindsFarthest
<1>2. CASE R!StampEntry
  <2>1. PICK e : e = R!Via(server)[entry]
    OBVIOUS
  <2>2. R!Via(server)[entry] \in R!Entries
    BY <1>2, ViaIsSequence DEF R!StampEntry, R!AtEntry, RouteTypeOK
  <2>3. e.stamp \in Candidate
    BY <1>2, <2>1, <2>2 DEF R!Entries, Candidate, R!StampEntry
  <2>4. pc = "entries" /\ pc' = "entries" /\ server' = server /\ routes' = routes
    BY <1>2 DEF R!StampEntry, R!AtEntry
  <2>5. RouteTypeOK' /\ RightProto'
    BY <1>2, <2>1, <2>3, <2>4, CandidateAdded DEF R!StampEntry, RouteTypeOK, RightProto, Looking
  <2> QED
    BY <2>4, <2>5 DEF DrawnFromAll, KeptComparable, ScanFindsFarthest, R!ScanFindsFarthest,
         AnonymizedOrFailed, R!AnonymizedOrFailed
<1>3. CASE R!NameEntry
  <2>1. RouteTypeOK' /\ RightProto'
    BY <1>3 DEF R!NameEntry, R!AtEntry, RouteTypeOK, RightProto, Looking
  <2> QED
    BY <1>3, <2>1 DEF R!NameEntry, DrawnFromAll, KeptComparable, ScanFindsFarthest,
       R!ScanFindsFarthest,
         AnonymizedOrFailed, R!AnonymizedOrFailed
<1>4. CASE R!RegisteredRelay
  <2>1. /\ pc = "registered" /\ pc' \in {"registered", "entries"} /\ server' = server
        /\ routes' = routes /\ registeredRelays' = registeredRelays /\ bestBits' = bestBits
        /\ entry' \in {entry, entry + 1, Len(R!Via(server)) + 1} /\ idx' \in {idx + 1, 0}
    BY <1>4, Zenon DEF R!RegisteredRelay
  <2>2. \/ relayStamps' = relayStamps
        \/ /\ relayStamps' = Append(relayStamps, registeredRelays[idx])
           /\ idx \in DOMAIN registeredRelays
           /\ registeredRelays[idx].proto = R!RelayProto(server.proto)
    BY <1>4, Zenon DEF R!RegisteredRelay
  <2>3. Len(R!Via(server)) \in Nat
    BY ViaIsSequence DEF RouteTypeOK
  <2>4. idx \in DOMAIN registeredRelays => registeredRelays[idx] \in Candidate
    BY DEF RouteTypeOK, Candidate
  <2>5. ASSUME relayStamps' = relayStamps PROVE RouteTypeOK' /\ RightProto'
    BY <2>1, <2>3, <2>5 DEF RouteTypeOK, RightProto, Looking
  <2>6. ASSUME relayStamps' # relayStamps PROVE RouteTypeOK' /\ RightProto'
    <3>1. /\ relayStamps' \in Seq(Candidate)
          /\ \A n \in DOMAIN relayStamps' : relayStamps'[n].proto = R!RelayProto(server.proto)
      BY SMTT(30), <2>1, <2>2, <2>4, <2>6, CandidateAdded DEF Looking
    <3> QED
      BY <2>1, <2>3, <3>1 DEF RouteTypeOK, RightProto, Looking
  <2> QED
    BY Zenon, <2>1, <2>5, <2>6 DEF DrawnFromAll, KeptComparable, ScanFindsFarthest,
       R!ScanFindsFarthest,
         AnonymizedOrFailed, R!AnonymizedOrFailed
<1>5. CASE R!Candidates
  <2>1. RouteTypeOK' /\ RightProto'
    BY <1>5 DEF R!Candidates, RouteTypeOK, RightProto, Looking
  <2>2. DrawnFromAll'
    BY <1>5 DEF R!Candidates, DrawnFromAll, R!Wildcard, R!Via
  <2> QED
    BY <1>5, <2>1, <2>2 DEF R!Candidates, KeptComparable, ScanFindsFarthest, R!ScanFindsFarthest,
         AnonymizedOrFailed, R!AnonymizedOrFailed
<1>6. CASE R!AnyRelay
  <2>1. RouteTypeOK' /\ RightProto'
    BY <1>6 DEF R!AnyRelay, RouteTypeOK, RightProto, Looking
  <2>2. AnonymizedOrFailed'
    BY <1>6 DEF R!AnyRelay, R!Range, RightProto, Looking, AnonymizedOrFailed, R!AnonymizedOrFailed
  <2>3. ScanFindsFarthest'
    <3>1. R!Wildcard(server)' <=> R!Wildcard(server)
      BY <1>6 DEF R!AnyRelay, R!Wildcard, R!Via
    <3>2. pc = "any" /\ pc' = "relay" /\ relayStamps' = relayStamps /\ server' = server
      BY <1>6 DEF R!AnyRelay
    <3> QED
      <4>1. ~R!Wildcard(server)' \/ ~(Len(relayStamps') > 1)
        <5>1. ~R!Wildcard(server) \/ Len(relayStamps) = 1
          BY <3>2, Zenon DEF DrawnFromAll
        <5>2. Len(relayStamps) = 1 => ~(Len(relayStamps) > 1)
          OBVIOUS
        <5>3. Len(relayStamps') = Len(relayStamps)
          BY <3>2
        <5> QED
          BY <3>1, <5>1, <5>2, <5>3, Zenon
      <4>2. pc' # "scan"
        BY <3>2
      <4> QED
        BY <4>1, <4>2, Zenon DEF ScanFindsFarthest, R!ScanFindsFarthest
  <2> QED
    BY <1>6, <2>1, <2>2, <2>3 DEF R!AnyRelay, DrawnFromAll, KeptComparable
<1>7. CASE R!Farthest
  <2>1. RouteTypeOK' /\ RightProto'
    BY <1>7, FetchDNSCryptAssumption DEF R!Farthest, RouteTypeOK, RightProto, Looking,
       FetchDNSCryptAssumption
  <2>2. AnonymizedOrFailed'
    BY <1>7 DEF R!Farthest, R!RelayProto, AnonymizedOrFailed, R!AnonymizedOrFailed
  <2>3. ScanFindsFarthest'
    BY <1>7 DEF R!Farthest, ScanFindsFarthest, R!ScanFindsFarthest
  <2> QED
    BY <1>7, <2>1, <2>2, <2>3 DEF R!Farthest, DrawnFromAll, KeptComparable
<1>8. CASE R!Scan
  <2> DEFINE r == relayStamps[idx]
             bits == R!SamePrefixBits(server.addr, r.addr)
  <2>1. /\ pc = "scan" /\ pc' = "scan" /\ idx' = idx + 1 /\ idx <= Len(relayStamps)
        /\ relayStamps' = relayStamps /\ server' = server /\ routes' = routes
        /\ registeredRelays' = registeredRelays /\ entry' = entry
    BY <1>8 DEF R!Scan
  <2>2. bits \in 0..Width /\ bestBits \in 0..Width /\ idx \in Nat
    BY PrefixBits DEF RouteTypeOK
  <2>3. \/ R!Comparable(r) /\ bits <= bestBits /\ bestBits' = bits /\ bestIdxs' = bestIdxs \cup {idx}
        \/ ~(R!Comparable(r) /\ bits <= bestBits) /\ bestBits' = bestBits /\ bestIdxs' = bestIdxs
    BY <1>8 DEF R!Scan
  <2>4. \A k : R!Comparable(relayStamps[k])' = R!Comparable(relayStamps[k])
    BY <2>1 DEF R!Comparable
  <2>5. RouteTypeOK' /\ RightProto'
    BY <2>1, <2>2, <2>3 DEF RouteTypeOK, RightProto, Looking
  <2>6. ASSUME NEW k \in bestIdxs' PROVE k \in DOMAIN relayStamps /\ R!Comparable(relayStamps[k])
    <3>1. CASE k \in bestIdxs
      BY <2>1, <3>1 DEF KeptComparable
    <3>2. CASE k \notin bestIdxs
      BY <2>1, <2>2, <2>3, <3>2 DEF RouteTypeOK, KeptComparable
    <3> QED
      BY <3>1, <3>2
  <2>7. ASSUME NEW k \in 1..idx, R!Comparable(relayStamps[k])
        PROVE  R!SamePrefixBits(server.addr, relayStamps[k].addr) >= bestBits'
    <3>1. bestBits' <= bestBits /\ bestBits' \in 0..Width
      BY <2>2, <2>3
    <3>2. CASE k = idx
      BY <2>2, <2>3, <2>7, <3>2
    <3>3. CASE k # idx
      <4>1. R!SamePrefixBits(server.addr, relayStamps[k].addr) >= bestBits
        BY <2>1, <2>2, <2>7, <3>3 DEF KeptComparable
      <4> QED
        BY <2>2, <3>1, <4>1, PrefixBits
    <3> QED
      BY <3>2, <3>3
  <2>8. KeptComparable'
    BY <2>1, <2>2, <2>4, <2>6, <2>7 DEF KeptComparable
  <2> QED
    BY <2>1, <2>5, <2>8 DEF DrawnFromAll, KeptComparable, ScanFindsFarthest, R!ScanFindsFarthest,
         AnonymizedOrFailed, R!AnonymizedOrFailed
<1>9. CASE R!Choose
  <2>1. RouteTypeOK' /\ RightProto'
    BY <1>9 DEF R!Choose, RouteTypeOK, RightProto, Looking
  <2>2. AnonymizedOrFailed'
    BY <1>9 DEF R!Choose, KeptComparable, RightProto, Looking, AnonymizedOrFailed,
       R!AnonymizedOrFailed
  <2>3. ScanFindsFarthest'
    BY <1>9 DEF R!Choose, KeptComparable, R!Comparable, ScanFindsFarthest, R!ScanFindsFarthest
  <2> QED
    BY <1>9, <2>1, <2>2, <2>3 DEF R!Choose, DrawnFromAll, KeptComparable
<1>10. CASE R!Unresolved \/ R!Done
  <2>1. RouteTypeOK'
    <3>1. CASE R!Unresolved
      BY <3>1 DEF R!Unresolved, RouteTypeOK
    <3>2. CASE R!Done
      BY <3>2, NoCandidate, FetchDNSCryptAssumption DEF R!Done, RouteTypeOK, FetchDNSCryptAssumption
    <3> QED
      BY <1>10, <3>1, <3>2
  <2>2. pc' \in {"error", "idle"}
    BY SMTT(30), <1>10 DEF R!Unresolved, R!Done
  <2> QED
    BY <2>1, <2>2 DEF RightProto, Looking, DrawnFromAll, KeptComparable, ScanFindsFarthest,
       R!ScanFindsFarthest,
         AnonymizedOrFailed, R!AnonymizedOrFailed
<1>11. ASSUME NEW r \in Relays, R!Register(r) PROVE RouteInv'
  <2>1. RouteTypeOK'
    BY <1>11 DEF R!Register, RouteTypeOK
  <2>2. R!Via(server)' = R!Via(server) /\ R!Wildcard(server)' = R!Wildcard(server)
    BY <1>11 DEF R!Register, R!Via, R!Wildcard
  <2> QED
    BY <1>11, <2>1, <2>2 DEF R!Register, RightProto, DrawnFromAll, KeptComparable, R!Comparable,
         ScanFindsFarthest, R!ScanFindsFarthest, AnonymizedOrFailed, R!AnonymizedOrFailed
<1> QED
  BY SMTT(30), <1>1, <1>2, <1>3, <1>4, <1>5, <1>6, <1>7, <1>8, <1>9, <1>10, <1>11 DEF R!Next

-----------------------------------------------------------------------------
(***************************************************************************)
(* The exchange                                                            *)
(***************************************************************************)
SentProbes == {p \in X!Probe : state[p].pc = "sent"}

LargeAnswer(o) == o.ok /\ o.priority = X!Large

\* A large answer is in the channel, or has been taken from it and kept.
LargeKept == \/ \E k \in DOMAIN channel : LargeAnswer(channel[k])
             \/ LargeAnswer(best)

ExchangeTypeOK ==
  /\ info = X!Pending
  /\ state \in [X!Probe -> {X!Asleep, X!Asking} \cup {X!Sent(o) : o \in X!Options}]
  /\ channel \in Seq(X!Options) /\ received \in Nat /\ best \in X!Options /\ cancelled \in BOOLEAN

\* Every option that was sent has been received or is in the channel.
NoneLost == Cardinality(SentProbes) = received + Len(channel)

\* A probe sends an answer of its own size, and a large one is not forgotten.
LargeRemembered == \A p \in X!Probe : \A o \in X!Options : state[p] = X!Sent(o) /\ o.ok =>
  /\ o.priority = X!Priority(p)
  /\ o.priority = X!Large => LargeKept

ExchangeInv ==
  /\ ExchangeTypeOK /\ NoneLost /\ LargeRemembered
  /\ cancelled => LargeAnswer(best)

\* The exchange counts as the library does.
LEMMA SameCardinality == \A S : X!Cardinality(S) = Cardinality(S)
  BY DEF X!Cardinality, Cardinality, X!IsFiniteSet, IsFiniteSet

\* There are as many probes as the buffer of the channel has room for, at most.
LEMMA ProbesFinite == IsFiniteSet(X!Probe) /\ Cardinality(X!Probe) <= 2 * MaxTries
<1> DEFINE sizes == IF X!TryFragments THEN {X!Large, X!Small} ELSE {X!Small}
<1>0. MaxTries \in Nat
  BY FetchDNSCryptAssumption DEF FetchDNSCryptAssumption
<1>1. IsFiniteSet(0..(MaxTries - 1)) /\ Cardinality(0..(MaxTries - 1)) = MaxTries
  BY <1>0, FS_Interval
<1>2. IsFiniteSet(sizes) /\ Cardinality(sizes) \in {1, 2}
  <2>1. /\ IsFiniteSet({X!Large} \cup {X!Small}) /\ Cardinality({X!Large} \cup {X!Small}) = 2
        /\ IsFiniteSet({X!Small}) /\ Cardinality({X!Small}) = 1
    <3>1. /\ IsFiniteSet({X!Large}) /\ Cardinality({X!Large}) = 1
          /\ IsFiniteSet({X!Small}) /\ Cardinality({X!Small}) = 1
      BY Zenon, FS_Singleton
    <3>2. X!Small \notin {X!Large}
      BY DEF X!Large, X!Small
    <3>3. /\ IsFiniteSet({X!Large} \cup {X!Small})
          /\ Cardinality({X!Large} \cup {X!Small}) = Cardinality({X!Large}) + 1
      BY Zenon, <3>1, <3>2, FS_AddElement
    <3> QED
      BY <3>1, <3>3
  <2>2. sizes = {X!Large} \cup {X!Small} \/ sizes = {X!Small}
    OBVIOUS
  <2> QED
    BY Zenon, <2>1, <2>2
<1> HIDE DEF sizes
<1>3. /\ IsFiniteSet((0..(MaxTries - 1)) \X sizes)
      /\ Cardinality((0..(MaxTries - 1)) \X sizes) = MaxTries * Cardinality(sizes)
  BY Zenon, <1>1, <1>2, FS_Product
<1>4. X!Probe = (0..(MaxTries - 1)) \X sizes
  BY DEF X!Probe, sizes
<1>5. MaxTries * Cardinality(sizes) <= 2 * MaxTries
  BY <1>0, <1>2
<1> QED
  BY Zenon, <1>3, <1>4, <1>5

\* The probes that have sent something are counted.
LEMMA SentFinite ==
  /\ IsFiniteSet(SentProbes) /\ Cardinality(SentProbes) \in Nat
  /\ Cardinality(X!Probe) \in Nat /\ Cardinality(SentProbes) <= Cardinality(X!Probe)
  /\ Cardinality(SentProbes) = Cardinality(X!Probe) => SentProbes = X!Probe
<1>1. SentProbes \subseteq X!Probe
  BY DEF SentProbes
<1> QED
  BY <1>1, ProbesFinite, FS_Subset, FS_CardinalityType

\* What an option is.
LEMMA OptionFields == \A o \in X!Options :
  /\ o.ok \in BOOLEAN
  /\ ~o.ok => o = X!Nothing
  /\ o.ok => o.priority \in {X!Large, X!Small}
<1> SUFFICES ASSUME NEW o \in X!Options
             PROVE  /\ o.ok \in BOOLEAN
                    /\ ~o.ok => o = X!Nothing
                    /\ o.ok => o.priority \in {X!Large, X!Small}
  OBVIOUS
<1>1. CASE o = X!Nothing
  BY <1>1 DEF X!Nothing
<1>2. CASE o \in [ok : {TRUE}, priority : {X!Large, X!Small}, rtt : Rtts]
  BY Zenon, <1>2
<1> QED
  BY Zenon, <1>1, <1>2 DEF X!Options

\* What a probe is doing.
LEMMA SentApart ==
  /\ \A o : X!Sent(o).pc = "sent" /\ X!Sent(o).option = o
  /\ X!Asleep.pc = "asleep" /\ X!Asking.pc = "asking"
  BY DEF X!Sent, X!Asleep, X!Asking

\* A server is said to block fragments only when all the options have been
\* received, and none of the large ones was an answer.
LEMMA AllFailed == ASSUME ExchangeInv PROVE X!BlockedOnlyIfAllFailed
<1> SUFFICES ASSUME X!Finished, best.ok, best.priority = X!Small,
                    NEW p \in X!Probe, X!Priority(p) = X!Large
             PROVE  state[p] = X!Sent(X!Nothing)
  BY DEF X!BlockedOnlyIfAllFailed
<1>1. ~LargeAnswer(best)
  BY DEF LargeAnswer, X!Large, X!Small
<1>2. received = Cardinality(X!Probe)
  BY <1>1, SameCardinality DEF X!Finished, ExchangeInv
<1>3. Len(channel) = 0 /\ channel \in Seq(X!Options) /\ SentProbes = X!Probe
  BY <1>2, SentFinite DEF ExchangeInv, NoneLost, ExchangeTypeOK
<1>4. ~LargeKept
  BY <1>1, <1>3 DEF LargeKept
<1>5. state[p].pc = "sent"
  BY <1>3 DEF SentProbes
<1>6. PICK o \in X!Options : state[p] = X!Sent(o)
  BY <1>5, SentApart DEF ExchangeInv, ExchangeTypeOK
<1>7. ~o.ok
  BY <1>4, <1>6 DEF ExchangeInv, LargeRemembered
<1> QED
  BY <1>6, <1>7, OptionFields

\* An exchange begins.
Beginning ==
  /\ state = [p \in X!Probe |-> X!Asleep] /\ channel = <<>> /\ received = 0 /\ cancelled = FALSE
  /\ best = X!Nothing /\ info = X!Pending

\* No probe has sent anything then.
LEMMA NoneSent == Beginning => ExchangeInv
<1> SUFFICES ASSUME Beginning PROVE ExchangeInv
  OBVIOUS
<1> USE DEF Beginning
<1>1. ExchangeTypeOK
  <2>1. state \in [X!Probe -> {X!Asleep, X!Asking} \cup {X!Sent(o) : o \in X!Options}]
    OBVIOUS
  <2>2. channel \in Seq(X!Options) /\ best \in X!Options
    BY DEF X!Options
  <2> QED
    BY Zenon, <2>1, <2>2 DEF ExchangeTypeOK
<1>2. SentProbes = {}
  BY SentApart DEF SentProbes
<1>3. NoneLost
  BY <1>2, FS_EmptySet DEF NoneLost
<1>4. \A p \in X!Probe : \A o : state[p] # X!Sent(o)
  BY SentApart
<1> QED
  BY <1>1, <1>3, <1>4 DEF ExchangeInv, LargeRemembered

\* The same of the next state.
LEMMA NoneSentNext == Beginning' => ExchangeInv'
  BY NoneSent, PTL

\* A probe that was not done sends an option of its own size, or nothing.
LEMMA OptionSent ==
  ASSUME ExchangeInv, NEW p \in X!Probe, state[p] \in {X!Asleep, X!Asking},
         NEW option \in X!Options, option.ok => option.priority = X!Priority(p), X!Send(p, option)
  PROVE  ExchangeInv'
<1>1. /\ channel' = Append(channel, option) /\ state' = [state EXCEPT ![p] = X!Sent(option)]
      /\ cancelled' = cancelled /\ received' = received /\ best' = best /\ info' = info
  BY DEF X!Send
<1>2. ExchangeTypeOK'
  BY <1>1 DEF ExchangeInv, ExchangeTypeOK
<1>3. p \notin SentProbes /\ SentProbes' = SentProbes \cup {p}
  BY <1>1, SentApart DEF SentProbes, ExchangeInv, ExchangeTypeOK
<1>4. NoneLost'
  <2>1. Cardinality(SentProbes') = Cardinality(SentProbes) + 1
    BY Zenon, <1>3, SentFinite, FS_AddElement
  <2>2. Len(channel') = Len(channel) + 1 /\ Len(channel) \in Nat
    BY <1>1 DEF ExchangeInv, ExchangeTypeOK
  <2> QED
    BY <1>1, <2>1, <2>2, SentFinite DEF ExchangeInv, ExchangeTypeOK, NoneLost
<1>5. LargeKept => LargeKept'
  BY <1>1 DEF LargeKept, LargeAnswer, ExchangeInv, ExchangeTypeOK
<1>6. LargeAnswer(option) => LargeKept'
  BY <1>1 DEF LargeKept, ExchangeInv, ExchangeTypeOK
<1>7. LargeRemembered'
  <2> SUFFICES ASSUME NEW q \in X!Probe, NEW o \in X!Options, state'[q] = X!Sent(o), o.ok
               PROVE  o.priority = X!Priority(q) /\ (o.priority = X!Large => LargeKept')
    BY DEF LargeRemembered
  <2>1. CASE q = p
    BY <1>1, <1>6, <2>1, SentApart DEF LargeAnswer, ExchangeInv, ExchangeTypeOK
  <2>2. CASE q # p
    BY <1>1, <1>5, <2>2 DEF ExchangeInv, ExchangeTypeOK, LargeRemembered
  <2> QED
    BY <2>1, <2>2
<1> QED
  BY <1>1, <1>2, <1>4, <1>7 DEF ExchangeInv, LargeAnswer

\* The probes.
LEMMA ProbeStep ==
  ASSUME ExchangeInv, NEW p \in X!Probe, X!Wake(p) \/ X!Answer(p) \/ X!Drop(p)
  PROVE  ExchangeInv'
<1>0. X!Nothing \in X!Options /\ ~X!Nothing.ok
  BY DEF X!Nothing, X!Options
<1>1. CASE state[p] = X!Asleep /\ X!Send(p, X!Nothing)
  BY <1>0, <1>1, OptionSent
<1>2. CASE state[p] = X!Asking /\ X!Send(p, X!Nothing)
  BY <1>0, <1>2, OptionSent
<1>3. CASE X!Answer(p)
  <2>1. PICK rtt \in Rtts : X!Send(p, [ok |-> TRUE, priority |-> X!Priority(p), rtt |-> rtt])
    BY ZenonT(30), <1>3 DEF X!Answer
  <2>2. X!Priority(p) \in {X!Large, X!Small}
    BY DEF X!Priority, X!Probe, X!Large, X!Small
  <2>3. [ok |-> TRUE, priority |-> X!Priority(p), rtt |-> rtt] \in X!Options
    BY <2>2 DEF X!Options
  <2> QED
    BY <1>3, <2>1, <2>3, OptionSent DEF X!Answer
<1>4. CASE state[p] = X!Asleep /\ ~cancelled /\ X!Wake(p)
  <2>1. /\ state' = [state EXCEPT ![p] = X!Asking]
        /\ channel' = channel /\ cancelled' = cancelled /\ received' = received /\ best' = best /\ info' = info
    BY <1>4 DEF X!Wake
  <2>2. ExchangeTypeOK'
    BY <2>1 DEF ExchangeInv, ExchangeTypeOK
  <2>3. SentProbes' = SentProbes
    BY SMTT(30), <1>4, <2>1, SentApart DEF SentProbes, ExchangeInv, ExchangeTypeOK
  <2>4. LargeRemembered'
    <3>1. LargeKept' <=> LargeKept
      BY <2>1 DEF LargeKept, LargeAnswer
    <3> QED
      BY <2>1, <3>1, SentApart DEF ExchangeInv, ExchangeTypeOK, LargeRemembered
  <2> QED
    BY <2>1, <2>2, <2>3, <2>4 DEF ExchangeInv, NoneLost, LargeAnswer
<1> QED
  BY <1>1, <1>2, <1>3, <1>4 DEF X!Wake, X!Drop

\* The loop takes an option from the channel, or begins again.
LEMMA LoopStep == ASSUME ExchangeInv, X!Receive \/ X!Retry PROVE ExchangeInv'
<1>1. CASE X!Retry
  <2>1. ~cancelled
    BY <1>1 DEF X!Retry, ExchangeInv, LargeAnswer
  <2>2. best = X!Nothing
    BY <1>1, OptionFields DEF X!Retry, ExchangeInv, ExchangeTypeOK
  <2>3. cancelled' = FALSE /\ best' = X!Nothing /\ info' = X!Pending
    BY SMTT(30), <1>1, <2>1, <2>2 DEF X!Retry, ExchangeInv, ExchangeTypeOK
  <2> QED
    <3>1. state' = [p \in X!Probe |-> X!Asleep] /\ channel' = <<>> /\ received' = 0
      BY <1>1 DEF X!Retry
    <3> QED
      BY <2>3, <3>1, NoneSentNext DEF Beginning
<1>2. CASE X!Receive
  <2> DEFINE option == Head(channel)
  <2>1. /\ channel # <<>> /\ channel' = Tail(channel) /\ received' = received + 1
        /\ state' = state /\ info' = info /\ ~cancelled
    BY <1>2 DEF X!Receive
  <2>2. \/ option.ok /\ X!Better(option) /\ best' = option /\ cancelled' = (option.priority = X!Large)
        \/ ~(option.ok /\ X!Better(option)) /\ best' = best /\ cancelled' = cancelled
    BY <1>2 DEF X!Receive, X!Stops
  <2>3. option \in X!Options /\ best \in X!Options /\ channel \in Seq(X!Options)
    BY <2>1 DEF ExchangeInv, ExchangeTypeOK
  <2>4. ExchangeTypeOK'
    <3>1. channel' \in Seq(X!Options) /\ received' \in Nat
      BY <2>1, <2>3 DEF ExchangeInv, ExchangeTypeOK
    <3>2. best' \in X!Options /\ cancelled' \in BOOLEAN
      BY <2>2, <2>3, Zenon DEF ExchangeInv, ExchangeTypeOK
    <3> QED
      BY <2>1, <3>1, <3>2 DEF ExchangeInv, ExchangeTypeOK
  <2>5. NoneLost'
    BY <2>1, <2>3 DEF ExchangeInv, ExchangeTypeOK, NoneLost, SentProbes
  <2>6. LargeAnswer(best) => LargeAnswer(best')
    BY <2>2, <2>3, OptionFields DEF X!Better, LargeAnswer, X!Large, X!Small
  <2>7. LargeAnswer(option) => LargeAnswer(best')
    BY <2>2, <2>3, OptionFields DEF X!Better, LargeAnswer, X!Large, X!Small
  <2>8. LargeKept => LargeKept'
    <3> SUFFICES ASSUME NEW k \in DOMAIN channel, LargeAnswer(channel[k]) PROVE LargeKept'
      BY <2>6 DEF LargeKept, LargeAnswer
    <3>1. CASE k = 1
      BY SMTT(30), <2>1, <2>3, <2>7, <3>1 DEF LargeKept, LargeAnswer
    <3>2. CASE k # 1
      <4>1. k - 1 \in DOMAIN channel' /\ channel'[k - 1] = channel[k]
        BY <2>1, <2>3, <3>2
      <4> QED
        BY <4>1 DEF LargeKept, LargeAnswer
    <3> QED
      BY <3>1, <3>2
  <2>9. LargeRemembered'
    BY <2>1, <2>8 DEF ExchangeInv, LargeRemembered
  <2> QED
    <3>1. cancelled' => LargeAnswer(best')
      BY <2>1, <2>2, Zenon DEF LargeAnswer
    <3> QED
      BY <2>4, <2>5, <2>9, <3>1 DEF ExchangeInv, LargeAnswer
<1> QED
  BY <1>1, <1>2

-----------------------------------------------------------------------------
(***************************************************************************)
(* The choice of a certificate                                             *)
(***************************************************************************)
IndInv == TypeOK /\ BestSoFar /\ (chosen = 0 => highestSerial = 0)

\* A response is a sequence of records.
LEMMA ResponsesAreSequences == Responses \subseteq Seq(Record)
  BY DNSCryptCertAssumption, SMT DEF Responses

\* The fields that are compared are numbers.
LEMMA RecordFields == \A c \in Record : c.serial \in Nat /\ c.es \in {0, 1, 2}
  BY ZenonT(30), DNSCryptCertAssumption DEF DNSCryptCertAssumption, Record, Undefined,
     XSalsa20Poly1305, XChacha20Poly1305

\* Nothing has been read yet.
THEOREM InitInv == Init => IndInv
<1> SUFFICES ASSUME Init PROVE IndInv
  OBVIOUS
<1>1. answer \in Seq(Record)
  BY ResponsesAreSequences DEF Init
<1>2. TypeOK
  BY <1>1 DEF Init, TypeOK, Undefined
<1>3. BestSoFar /\ (chosen = 0 => highestSerial = 0)
  BY DEF Init, BestSoFar, Undefined
<1> QED
  BY <1>2, <1>3 DEF IndInv

\* A record that is usable and supersedes the one chosen so far beats all those
\* it beats; one that does not is beaten.
THEOREM NextInv == IndInv /\ [Next]_vars => IndInv'
<1> SUFFICES ASSUME IndInv, [Next]_vars PROVE IndInv'
  BY SMTT(30)
<1> USE RecordFields DEF Undefined, XSalsa20Poly1305, XChacha20Poly1305
<1>1. CASE UNCHANGED vars
  BY <1>1 DEF IndInv, TypeOK, BestSoFar, Usable, Beats, vars
<1>2. CASE Examine
  <2> DEFINE c == answer[i]
  <2>1. /\ answer' = answer /\ answer \in Seq(Record) /\ i \in Nat /\ i >= 1
        /\ i <= Len(answer) /\ i' = i + 1 /\ Len(answer) \in Nat /\ chosen \in 0..Len(answer)
    BY <1>2 DEF Examine, IndInv, TypeOK
  <2>2. c \in Record
    BY <2>1
  <2>3. \A j \in 1..Len(answer) : answer[j] \in Record
    BY <2>1
  <2>4. CASE Usable(c) /\ Supersedes(c)
    <3>1. highestSerial' = c.serial /\ construction' = c.es /\ chosen' = i
      BY <1>2, <2>4 DEF Examine
    <3>2. TypeOK'
      BY SMTT(30), <2>1, <2>2, <3>1 DEF TypeOK
    <3>3. construction' # 0 /\ chosen' # 0
      BY <2>1, <2>4, <3>1 DEF Usable
    <3>4. \A j \in 1..i : Usable(answer[j]) => Beats(c, answer[j])
      <4> SUFFICES ASSUME NEW j \in 1..i, Usable(answer[j]) PROVE Beats(c, answer[j])
        OBVIOUS
      <4>1. CASE j = i
        BY <4>1, <2>2 DEF Beats
      <4>2. CASE j \in 1..(i - 1)
        <5>1. chosen # 0 /\ Beats(answer[chosen], answer[j])
          BY <4>2 DEF IndInv, BestSoFar
        <5>2. construction = answer[chosen].es /\ highestSerial = answer[chosen].serial
          BY <5>1 DEF IndInv, BestSoFar
        <5>3. answer[chosen] \in Record /\ answer[j] \in Record
          BY SMTT(30), <5>1, <2>1, <2>3
        <5>4. c.serial > answer[chosen].serial
              \/ (c.serial = answer[chosen].serial /\ c.es >= answer[chosen].es)
          BY SMTT(30), <2>4, <5>2 DEF Supersedes
        <5> QED
          BY SMTT(30), <5>1, <5>3, <5>4, <2>2 DEF Beats
      <4> QED
        BY <4>1, <4>2, <2>1
    <3>5. BestSoFar'
      BY <2>1, <2>4, <3>1, <3>3, <3>4 DEF BestSoFar, Usable, Beats
    <3> QED
      BY <3>2, <3>3, <3>5 DEF IndInv
  <2>5. CASE ~(Usable(c) /\ Supersedes(c))
    <3>1. highestSerial' = highestSerial /\ construction' = construction /\ chosen' = chosen
      BY <1>2, <2>5 DEF Examine
    <3>2. TypeOK'
      BY SMTT(30), <2>1, <3>1 DEF IndInv, TypeOK
    <3>3. Usable(c) => chosen # 0 /\ Beats(answer[chosen], c)
      <4> SUFFICES ASSUME Usable(c), ~Supersedes(c)
                   PROVE  chosen # 0 /\ Beats(answer[chosen], c)
        BY <2>5
      <4>1. chosen # 0
        <5> SUFFICES ASSUME chosen = 0 PROVE FALSE
          OBVIOUS
        <5>1. highestSerial = 0 /\ construction = 0
          BY SMTT(30) DEF IndInv, BestSoFar
        <5> QED
          BY <5>1, <2>2 DEF Supersedes
      <4>2. construction = answer[chosen].es /\ highestSerial = answer[chosen].serial
        BY <4>1 DEF IndInv, BestSoFar
      <4>3. answer[chosen] \in Record
        BY SMTT(30), <4>1, <2>1, <2>3
      <4> QED
        BY <4>1, <4>2, <4>3, <2>2 DEF Supersedes, Beats
    <3>4. \A j \in 1..i : Usable(answer[j]) => chosen # 0 /\ Beats(answer[chosen], answer[j])
      BY SMTT(30), <2>1, <3>3 DEF IndInv, BestSoFar
    <3>5. BestSoFar'
      BY <2>1, <3>1, <3>4 DEF IndInv, BestSoFar, Usable, Beats
    <3> QED
      BY <3>1, <3>2, <3>5 DEF IndInv
  <2> QED
    BY <2>4, <2>5
<1> QED
  BY <1>1, <1>2 DEF Next

\* The loop keeps its types, for every response.
THEOREM TypeCorrect == Spec => []TypeOK
  BY InitInv, NextInv, PTL DEF Spec, IndInv

\* Whatever certificates a server returns and in whatever order, the one that
\* is used is the best of those that are valid.
THEOREM BestCertificate == Spec => []BestSoFar
  BY InitInv, NextInv, PTL DEF Spec, IndInv

-----------------------------------------------------------------------------
(***************************************************************************)
(* The fetch                                                               *)
(***************************************************************************)
FetchInv ==
  /\ RouteInv /\ IndInv
  /\ phase = "exchange" => ExchangeInv
  /\ phase # "route" => pc = "idle"
  /\ phase # "route" /\ routed => hasRelay
  /\ phase = "end" \/ info = X!Pending
  /\ NeverDirect

\* While no relay is looked for, the invariant of the routes is about types.
LEMMA IdleRoute == RouteTypeOK /\ pc = "idle" => RouteInv
  BY SMTT(30) DEF RouteInv, RightProto, Looking, DrawnFromAll, KeptComparable, AnonymizedOrFailed,
     R!AnonymizedOrFailed,
       ScanFindsFarthest, R!ScanFindsFarthest

\* The same of the next state.
LEMMA IdleRouteNext == RouteTypeOK' /\ pc' = "idle" => RouteInv'
  BY DEF RouteInv, RightProto, Looking, DrawnFromAll, KeptComparable, AnonymizedOrFailed,
     R!AnonymizedOrFailed,
       ScanFindsFarthest, R!ScanFindsFarthest

\* A step that leaves the routes alone.
LEMMA SameRoute == ASSUME RouteInv, UNCHANGED routing PROVE RouteInv'
<1>1. R!Via(server)' = R!Via(server) /\ R!Wildcard(server)' = R!Wildcard(server)
  BY SMTT(30) DEF routing, R!Via, R!Wildcard
<1>2. RouteTypeOK' /\ RightProto' /\ DrawnFromAll' /\ KeptComparable'
  BY SMTT(30), <1>1 DEF routing, RouteInv, RouteTypeOK, RightProto, DrawnFromAll, KeptComparable,
     R!Comparable
<1>3. AnonymizedOrFailed' /\ ScanFindsFarthest'
  BY <1>1 DEF routing, RouteInv, AnonymizedOrFailed, R!AnonymizedOrFailed, ScanFindsFarthest,
       R!ScanFindsFarthest, R!Comparable
<1> QED
  BY SMTT(30), <1>2, <1>3 DEF RouteInv

\* A step that leaves the exchange alone.
LEMMA SameExchange == ASSUME ExchangeInv, UNCHANGED exchange PROVE ExchangeInv'
<1>1. SentProbes' = SentProbes /\ (LargeKept' <=> LargeKept)
  BY DEF exchange, SentProbes, LargeKept, LargeAnswer
<1> QED
  BY SMTT(30), <1>1 DEF exchange, ExchangeInv, ExchangeTypeOK, NoneLost, LargeRemembered,
     LargeAnswer

\* A step that leaves the choice alone.
LEMMA SameChoice == ASSUME IndInv, UNCHANGED choice PROVE IndInv'
  BY NextInv DEF choice

\* The choice begins with a sequence of records.
LEMMA ChoiceBegins ==
  ASSUME NEW records \in Seq(Record), ChooseFrom(records) PROVE IndInv'
<1>1. TypeOK'
  BY DEF ChooseFrom, TypeOK, Undefined
<1>2. BestSoFar' /\ (chosen' = 0 => highestSerial' = 0)
  BY DEF ChooseFrom, BestSoFar, Undefined
<1> QED
  BY <1>1, <1>2 DEF IndInv

\* A server without information is not used directly.
LEMMA NotYetUsed == ASSUME info' = X!Pending PROVE NeverDirect'
  BY DEF NeverDirect, X!Pending

\* A server that has a route has a relay, and is used with it if at all.
LEMMA UsedWithRelay ==
  ASSUME NEW usable \in BOOLEAN, X!Return(usable), routed' = routed, routed => hasRelay
  PROVE  NeverDirect'
<1> DEFINE blocked == KnownBlocked \/ (best.ok /\ best.priority = X!Small)
           all == best.ok /\ usable
<1>1. info' = X!ServerInfo(blocked, all)
  BY DEF X!Return
<1> HIDE DEF blocked, all
<1>2. CASE ~all \/ (blocked /\ hasRelay /\ SkipIncompatible)
  <2>1. info' = X!Error
    BY <1>1, <1>2 DEF X!ServerInfo
  <2> QED
    BY <2>1 DEF NeverDirect, X!Error
<1>3. CASE ~(~all \/ (blocked /\ hasRelay /\ SkipIncompatible))
  <2>1. info' = [done |-> TRUE, ok |-> TRUE, relay |-> hasRelay /\ ~blocked, blocked |-> blocked]
    BY <1>1, <1>3 DEF X!ServerInfo
  <2>2. info'.relay <=> hasRelay /\ ~blocked
    BY Zenon, <2>1
  <2> QED
    BY SMTT(30), <1>3, <2>2 DEF NeverDirect
<1> QED
  BY SMTT(30), <1>2, <1>3

\* Nothing has begun.
THEOREM FetchInitInv == FetchInit => FetchInv
<1> SUFFICES ASSUME FetchInit PROVE FetchInv
  OBVIOUS
<1>1. RouteTypeOK /\ pc = "idle"
  BY NoCandidate, FetchDNSCryptAssumption DEF FetchInit, R!Init, RouteTypeOK,
     FetchDNSCryptAssumption
<1>2. TypeOK
  BY DEF FetchInit, TypeOK, Undefined
<1>3. BestSoFar /\ (chosen = 0 => highestSerial = 0)
  BY DEF FetchInit, BestSoFar, Undefined
<1>4. phase = "route" /\ info = X!Pending
  BY DEF FetchInit, X!Init
<1>5. NeverDirect
  BY SMTT(30), <1>4 DEF NeverDirect, X!Pending
<1> QED
  BY <1>1, <1>2, <1>3, <1>4, <1>5, IdleRoute DEF FetchInv, IndInv

\* Every phase keeps what the others rely on.
THEOREM FetchNextInv == FetchInv /\ [FetchNext]_fetchVars => FetchInv'
<1> SUFFICES ASSUME FetchInv, [FetchNext]_fetchVars PROVE FetchInv'
  BY SMTT(30)
<1> USE DEF FetchInv
<1>1. CASE UNCHANGED fetchVars
  <2>1. UNCHANGED routing /\ UNCHANGED exchange /\ UNCHANGED choice /\ phase' = phase /\ routed' = routed
    BY <1>1 DEF fetchVars
  <2>2. ExchangeInv => ExchangeInv'
    BY SMTT(30), <2>1, SameExchange
  <2> QED
    BY <2>1, <2>2, SameRoute, SameChoice DEF exchange, routing, NeverDirect
<1>2. CASE Routing
  <2>1. phase = "route" /\ phase' = "route" /\ UNCHANGED exchange /\ UNCHANGED choice /\ routed' = routed
    BY <1>2 DEF Routing
  <2>2. RouteInv'
    BY SMTT(30), <1>2, RouteStep DEF Routing
  <2> QED
    BY <2>1, <2>2, SameChoice DEF exchange, NeverDirect
<1>3. CASE Begin
  <2>1. /\ phase = "route" /\ phase' = "exchange" /\ pc' = "idle" /\ UNCHANGED choice
        /\ pc \in {"direct", "relay"} /\ server.proto = "dnscrypt"
        /\ routed' = (R!Via(server) # <<>>) /\ hasRelay' = (pc = "relay")
    BY <1>3 DEF Begin, ForgetRoutes, X!Begin
  <2>2. Beginning'
    BY <1>3 DEF Begin, Beginning, X!Begin
  <2>3. RouteTypeOK'
    <3>1. routes' \in RouteSets
      BY <1>3, FetchDNSCryptAssumption DEF Begin, ForgetRoutes, FetchDNSCryptAssumption
    <3> QED
      BY SMTT(30), <1>3, <3>1, NoCandidate, FetchDNSCryptAssumption
         DEF Begin, ForgetRoutes, RouteTypeOK,
         FetchDNSCryptAssumption
  <2>4. routed' => hasRelay'
    BY Zenon, <2>1 DEF RouteInv, AnonymizedOrFailed, R!AnonymizedOrFailed, R!CanBeAnonymized
  <2>5. info' = X!Pending
    BY <2>2 DEF Beginning
  <2> QED
    BY SMTT(30), <2>1, <2>2, <2>3, <2>4, <2>5, NoneSentNext, IdleRouteNext, SameChoice, NotYetUsed
<1>4. CASE Main \/ \E p \in X!Probe : Probing(p)
  <2>1. /\ phase = "exchange" /\ phase' = "exchange" /\ routed' = routed
        /\ UNCHANGED routing /\ UNCHANGED choice
    BY <1>4 DEF Main, Probing
  <2>2. ExchangeInv'
    BY <1>4, <2>1, LoopStep, ProbeStep DEF Main, Probing
  <2>3. hasRelay' = hasRelay
    BY Zenon, <1>4 DEF Main, Probing, X!Receive, X!Retry, X!Wake, X!Answer, X!Drop, X!Send
  <2>4. info' = X!Pending
    BY <2>2 DEF ExchangeInv, ExchangeTypeOK
  <2>5. pc' = "idle"
    BY <2>1 DEF routing
  <2> QED
    BY SMTT(30), <2>1, <2>2, <2>3, <2>4, <2>5, SameRoute, SameChoice, NotYetUsed
<1>5. CASE Returned
  <2>1. /\ phase = "exchange" /\ routed' = routed /\ hasRelay' = hasRelay
        /\ UNCHANGED routing /\ UNCHANGED choice
    BY <1>5 DEF Returned, X!Return
  <2>2. \/ phase' = "answer" /\ info' = info
        \/ phase' = "end" /\ X!Return(FALSE)
    BY Zenon, <1>5 DEF Returned
  <2>3. NeverDirect' /\ (phase' = "end" \/ info' = X!Pending)
    BY Zenon, <2>1, <2>2, NotYetUsed, UsedWithRelay
  <2>4. pc' = "idle" /\ phase' # "route" /\ phase' # "exchange"
    BY Zenon, <2>1, <2>2 DEF routing
  <2> QED
    BY <2>1, <2>3, <2>4, SameRoute, SameChoice
<1>6. CASE Answered
  <2>1. /\ phase = "answer" /\ phase' = "certificates" /\ routed' = routed
        /\ UNCHANGED routing /\ UNCHANGED exchange
    BY <1>6 DEF Answered
  <2>2. IndInv'
    BY SMTT(30), <1>6, ResponsesAreSequences, ChoiceBegins DEF Answered
  <2>3. pc' = "idle" /\ hasRelay' = hasRelay /\ info' = X!Pending
    BY <2>1 DEF routing, exchange
  <2> QED
    BY SMTT(30), <2>1, <2>2, <2>3, SameRoute, NotYetUsed
<1>7. CASE Choosing
  <2>1. /\ phase = "certificates" /\ phase' = "certificates" /\ routed' = routed
        /\ UNCHANGED routing /\ UNCHANGED exchange
    BY <1>7 DEF Choosing
  <2>2. IndInv'
    BY <1>7, NextInv DEF Choosing, Next
  <2>3. pc' = "idle" /\ hasRelay' = hasRelay /\ info' = X!Pending
    BY <2>1 DEF routing, exchange
  <2> QED
    BY <2>1, <2>2, <2>3, SameRoute, NotYetUsed
<1>8. CASE Chosen
  <2>1. /\ phase = "certificates" /\ phase' = "end" /\ routed' = routed /\ hasRelay' = hasRelay
        /\ UNCHANGED routing
    BY <1>8 DEF Chosen, X!Return
  <2>2. IndInv'
    <3>1. <<>> \in Seq(Record)
      OBVIOUS
    <3> QED
      BY Zenon, <1>8, <3>1, ChoiceBegins DEF Chosen
  <2>3. NeverDirect'
    BY ZenonT(30), <1>8, <2>1, UsedWithRelay DEF Chosen
  <2>4. pc' = "idle"
    BY <2>1 DEF routing
  <2> QED
    BY SMTT(30), <2>1, <2>2, <2>3, <2>4, SameRoute
<1>9. CASE End
  <2>1. /\ phase = "end" /\ phase' = "route" /\ info' = X!Pending /\ pc' = pc /\ UNCHANGED choice
    BY <1>9 DEF End, X!Begin
  <2>2. RouteTypeOK'
    BY <1>9 DEF End, RouteInv, RouteTypeOK
  <2> QED
    BY SMTT(30), <2>1, <2>2, IdleRouteNext, SameChoice, NotYetUsed
<1> QED
  BY Zenon, <1>1, <1>2, <1>3, <1>4, <1>5, <1>6, <1>7, <1>8, <1>9 DEF FetchNext

\* The invariant holds at any time.
THEOREM FetchInvariant == FetchSpec => []FetchInv
  BY FetchInitInv, FetchNextInv, PTL DEF FetchSpec

\* Whatever relays are registered meanwhile, however many servers, relays,
\* routes and bits of addresses there are, route() gives a relay of the right
\* protocol or an error to a server that has a route and can be anonymized.
THEOREM Anonymized == FetchSpec => []AnonymizedOrFailed
<1>1. FetchInv => AnonymizedOrFailed
  BY DEF FetchInv, RouteInv
<1> QED
  BY <1>1, FetchInvariant, PTL

\* However many candidates there are and in whatever order they come, none of
\* those looked at is farther than the best distance so far, and the relay is of
\* the server's family.
THEOREM FarthestRelay == FetchSpec => []ScanFindsFarthest
<1>1. FetchInv => ScanFindsFarthest
  BY DEF FetchInv, RouteInv
<1> QED
  BY <1>1, FetchInvariant, PTL

\* With skip_incompatible, no DNSCrypt server that has a route is ever used
\* directly, for any number of probes and any certificates.
THEOREM AlwaysThroughRelay == FetchSpec => []NeverDirect
<1>1. FetchInv => NeverDirect
  BY DEF FetchInv
<1> QED
  BY <1>1, FetchInvariant, PTL

\* For any number of tries, a server is said to block fragments only if none of
\* the large probes has got an answer.
THEOREM BlockedIsAllFailed == FetchSpec => []BlockedOnlyIfAllFailed
<1>1. FetchInv => BlockedOnlyIfAllFailed
  BY AllFailed DEF FetchInv, BlockedOnlyIfAllFailed
<1> QED
  BY <1>1, FetchInvariant, PTL

\* In every fetch, the certificate that is used is the best of those that are
\* valid, whatever the answer and whichever phase came before.
THEOREM BestInEveryFetch == FetchSpec => []BestSoFar
<1>1. FetchInv => BestSoFar
  BY DEF FetchInv, IndInv
<1> QED
  BY <1>1, FetchInvariant, PTL

-----------------------------------------------------------------------------
\* The probes and the loop that reads what they send never wait for each other
\* for ever: a probe that has something to send finds room in the buffer, even
\* when nobody reads it any more, and when all of them have sent, the loop
\* finds what it has not read, or is over (dnsutils.go:328-380).
ChannelNeverBlocks ==
  phase = "exchange" =>
    /\ \A p \in X!Probe : state[p].pc # "sent" => Len(channel) < 2 * MaxTries
    /\ (\A p \in X!Probe : state[p].pc = "sent") => X!Finished \/ channel # <<>>

\* A probe that has not sent anything yet is not counted: it has room.
LEMMA RoomLeft == ASSUME ExchangeInv, NEW p \in X!Probe, state[p].pc # "sent"
                  PROVE  Len(channel) < 2 * MaxTries
<1>1. SentProbes # X!Probe
  BY DEF SentProbes
<1>2. Cardinality(SentProbes) < Cardinality(X!Probe)
  BY <1>1, SentFinite
<1>3. Cardinality(SentProbes) = received + Len(channel) /\ received \in Nat /\ Len(channel) \in Nat
  BY DEF ExchangeInv, ExchangeTypeOK, NoneLost
<1>4. MaxTries \in Nat
  BY FetchDNSCryptAssumption DEF FetchDNSCryptAssumption
<1> QED
  BY <1>2, <1>3, <1>4, ProbesFinite, SentFinite

\* What all of them have sent has been read, or can be.
LEMMA SomethingLeft == ASSUME ExchangeInv, \A p \in X!Probe : state[p].pc = "sent"
                       PROVE  X!Finished \/ channel # <<>>
<1>1. SentProbes = X!Probe
  BY DEF SentProbes
<1>2. Cardinality(X!Probe) = received + Len(channel) /\ received \in Nat
  BY <1>1 DEF ExchangeInv, ExchangeTypeOK, NoneLost
<1>3. CASE channel = <<>>
  <2>1. received = Cardinality(X!Probe)
    BY <1>2, <1>3
  <2> QED
    BY <2>1, SameCardinality DEF X!Finished
<1> QED
  BY <1>3

\* For any number of tries, no goroutine of an exchange is blocked for ever by
\* its channel.
THEOREM ChannelTheorem == FetchSpec => []ChannelNeverBlocks
<1>1. FetchInv => ChannelNeverBlocks
  BY RoomLeft, SomethingLeft DEF FetchInv, ChannelNeverBlocks
<1> QED
  BY <1>1, FetchInvariant, PTL
=============================================================================
