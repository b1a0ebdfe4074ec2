-------------------------- MODULE ServersInfoProof --------------------------
(***************************************************************************)
(* Proofs about ServersInfo, for any servers, sources, queries, strategy   *)
(* and concurrency.                                                        *)
(***************************************************************************)
EXTENDS ServersInfo, FiniteSetTheorems, SequenceTheorems, TLAPS

-----------------------------------------------------------------------------
(***************************************************************************)
(* The load-balancing operators, for every list and strategy.              *)
(***************************************************************************)

\* Every strategy has between one and all of the servers active, so the
\* position drawn by getCandidate is inside the list.
LEMMA ActiveCountBounds ==
  ASSUME NEW count \in Nat \ {0}
  PROVE  ActiveCount(count) \in 1 .. count
<1>1. CASE Strategy = "p2"     BY <1>1 DEF ActiveCount, MinOf
<1>2. CASE Strategy = "pn"     BY <1>2, LbNAssumption DEF ActiveCount, MinOf
<1>3. CASE Strategy = "ph"
  <2>1. count \div 2 \in Nat /\ count \div 2 <= count
    OBVIOUS
  <2> QED BY <1>3, <2>1 DEF ActiveCount, MinOf, MaxOf
<1>4. CASE Strategy = "first"  BY <1>4 DEF ActiveCount
<1>5. CASE Strategy = "random" BY <1>5 DEF ActiveCount
<1> QED BY <1>1, <1>2, <1>3, <1>4, <1>5, StrategyAssumption DEF Strategies

-----------------------------------------------------------------------------
Below == {ss \in Nat \X Nat : ss[1] < ss[2]}

\* A non-empty set of natural numbers has a least element.
LEMMA LeastElement ==
  ASSUME NEW T, T \subseteq Nat, T # {}
  PROVE  \E x \in T : \A y \in T : x <= y
<1>1. IsWellFoundedOn(Below, Nat)
  BY NatLessThanWellFounded DEF OpToRel, Below
<1>2. PICK x \in T : \A y \in T : ~(<<y, x>> \in Below)
  BY <1>1, WFMin, Zenon
<1>3. \A y \in T : ~(y < x)
  BY ZenonT(30), <1>2 DEF Below
<1> QED BY <1>3

\* The element the bubble pass carries along is well defined at every step.
LEMMA CarriedExists ==
  ASSUME NEW S, NEW s \in Seq(S), \A j \in 1 .. Len(s) : s[j].rtt \in Int,
         NEW i \in 1 .. Len(s)
  PROVE  Carried(s, i) \in 1 .. i /\ IsCarried(s, i, Carried(s, i))
<1> DEFINE Missing == {m \in 1 .. Len(s) : \A k \in 1 .. m : ~IsCarried(s, m, k)}
<1>1. Missing = {}
  <2> SUFFICES ASSUME Missing # {} PROVE FALSE
    OBVIOUS
  <2>0. Missing \subseteq Nat
    OBVIOUS
  <2> HIDE DEF Missing
  <2>1. PICK m \in Missing : \A y \in Missing : m <= y
    BY ZenonT(30), <2>0, LeastElement
  <2> USE DEF Missing
  <2>2. m # 1
    <3> SUFFICES ASSUME m = 1 PROVE FALSE
      OBVIOUS
    <3>1. IsCarried(s, 1, 1)
      BY DEF IsCarried
    <3> QED BY <3>1
  <2>3. m - 1 \in 1 .. Len(s) /\ m - 1 \notin Missing
    BY <2>1, <2>2
  <2>4. PICK k \in 1 .. m - 1 : IsCarried(s, m - 1, k)
    BY <2>3
  <2>5. s[m].rtt \in Int /\ s[k].rtt \in Int /\ m \in 1 .. Len(s) /\ k \in 1 .. Len(s)
    BY <2>1, <2>3
  <2>6. CASE s[m].rtt >= s[k].rtt
    <3>1. \A j \in 1 .. m : j = m \/ j \in 1 .. m - 1
      BY <2>5
    <3>2. \A j \in 1 .. m : s[j].rtt \in Int
      BY <2>5
    <3>3. \A j \in 1 .. m : s[j].rtt <= s[m].rtt
      <4> TAKE j \in 1 .. m
      <4>1. CASE j = m
        BY <2>5, <4>1
      <4>2. CASE j \in 1 .. m - 1
        <5>1. s[j].rtt <= s[k].rtt
          BY <2>4, <4>2 DEF IsCarried
        <5> QED BY <2>5, <2>6, <3>2, <5>1
      <4> QED BY <3>1, <4>1, <4>2
    <3>4. \A j \in m + 1 .. m : s[j].rtt < s[m].rtt
      BY <2>5
    <3>5. IsCarried(s, m, m)
      BY <3>3, <3>4 DEF IsCarried
    <3> QED BY <2>5, <3>5
  <2>7. CASE s[m].rtt < s[k].rtt
    <3>1. \A j \in 1 .. m : j = m \/ j \in 1 .. m - 1
      BY <2>5
    <3>2. IsCarried(s, m, k)
      BY <2>4, <2>5, <2>7, <3>1 DEF IsCarried
    <3> QED BY <2>5, <3>2
  <2> QED BY <2>5, <2>6, <2>7
<1>2. \E k \in 1 .. i : IsCarried(s, i, k)
  BY <1>1
<1> QED BY <1>2 DEF Carried

\* No element is left at two places by the pass: what is dropped at i is
\* overtaken later, and what moves one place to the left is never carried.
LEMMA BubbleSourceInjective ==
  ASSUME NEW S, NEW s \in Seq(S), \A j \in 1 .. Len(s) : s[j].rtt \in Int,
         NEW i \in 1 .. Len(s), NEW j \in 1 .. Len(s), i < j
  PROVE  BubbleSource(s, i) # BubbleSource(s, j)
<1>1. Carried(s, i) \in 1 .. i /\ IsCarried(s, i, Carried(s, i))
  BY CarriedExists
<1>2. Carried(s, j) \in 1 .. j /\ IsCarried(s, j, Carried(s, j))
  BY CarriedExists
<1>3. i + 1 \in 1 .. j /\ i + 1 \in 1 .. Len(s)
  OBVIOUS
<1>4. CASE j < Len(s) /\ s[Carried(s, j)].rtt > s[j + 1].rtt
  BY <1>1, <1>4 DEF BubbleSource
<1>5. CASE ~(j < Len(s) /\ s[Carried(s, j)].rtt > s[j + 1].rtt)
  <2>1. BubbleSource(s, j) = Carried(s, j)
    BY <1>5 DEF BubbleSource
  <2>2. CASE s[Carried(s, i)].rtt > s[i + 1].rtt
    <3>1. BubbleSource(s, i) = i + 1
      BY <1>3, <2>2 DEF BubbleSource
    <3>2. Carried(s, j) # i + 1
      BY SMTT(30), <1>1, <1>2, <1>3, <2>2 DEF IsCarried
    <3> QED BY <2>1, <3>1, <3>2
  <2>3. CASE ~(s[Carried(s, i)].rtt > s[i + 1].rtt)
    <3>1. BubbleSource(s, i) = Carried(s, i)
      BY <2>3 DEF BubbleSource
    <3>2. i + 1 \in Carried(s, i) + 1 .. j
      BY <1>1, <1>3
    <3>3. Carried(s, j) # Carried(s, i)
      BY <1>1, <1>2, <1>3, <2>3, <3>2 DEF IsCarried
    <3> QED BY <2>1, <3>1, <3>3
  <2> QED BY <2>2, <2>3
<1> QED BY <1>4, <1>5

\* The pass permutes the list.
LEMMA BubbleSourceBijection ==
  ASSUME NEW S, NEW s \in Seq(S), \A j \in 1 .. Len(s) : s[j].rtt \in Int
  PROVE  [i \in 1 .. Len(s) |-> BubbleSource(s, i)] \in Bijection(1 .. Len(s), 1 .. Len(s))
<1> DEFINE D == 1 .. Len(s)
           f == [i \in D |-> BubbleSource(s, i)]
<1>1. \A i \in D : BubbleSource(s, i) \in D
  <2> TAKE i \in D
  <2>1. Carried(s, i) \in 1 .. i
    BY CarriedExists
  <2> QED BY <2>1 DEF BubbleSource
<1>2. f \in [D -> D]
  BY <1>1
<1>3. \A i, j \in D : f[i] = f[j] => i = j
  <2> TAKE i, j \in D
  <2>1. i < j => f[i] # f[j]
    BY BubbleSourceInjective
  <2>2. j < i => f[i] # f[j]
    BY BubbleSourceInjective
  <2> QED BY <2>1, <2>2
<1>4. f \in Injection(D, D)
  BY <1>2, <1>3 DEF Injection, IsInjective
<1>5. IsFiniteSet(D)
  BY FS_Interval
<1>6. f \in Surjection(D, D)
  BY <1>4, <1>5, FS_Injection
<1> QED BY <1>4, <1>6 DEF Bijection

\* What the pass leaves at a place is no slower than something it found there
\* or to the left.
LEMMA BubblePassNoSlower ==
  ASSUME NEW S, NEW s \in Seq(S), \A j \in 1 .. Len(s) : s[j].rtt \in Int,
         NEW i \in 1 .. Len(s)
  PROVE  \E k \in 1 .. i : BubblePass(s)[i].rtt <= s[k].rtt
<1>1. Carried(s, i) \in 1 .. i
  BY CarriedExists
<1>2. BubblePass(s)[i] = s[BubbleSource(s, i)]
  BY DEF BubblePass
<1>3. s[Carried(s, i)].rtt \in Int
  BY <1>1
<1>4. CASE i < Len(s) /\ s[Carried(s, i)].rtt > s[i + 1].rtt
  <2>1. BubbleSource(s, i) = i + 1 /\ s[i + 1].rtt \in Int
    BY <1>4 DEF BubbleSource
  <2> QED BY <1>1, <1>2, <1>3, <1>4, <2>1
<1>5. CASE ~(i < Len(s) /\ s[Carried(s, i)].rtt > s[i + 1].rtt)
  <2>1. BubbleSource(s, i) = Carried(s, i)
    BY <1>5 DEF BubbleSource
  <2> QED BY <1>1, <1>2, <1>3, <2>1
<1> QED BY <1>4, <1>5

-----------------------------------------------------------------------------
(***************************************************************************)
(* The list of servers.                                                    *)
(***************************************************************************)
\* The names are a permutation of those of list, and no name is repeated if
\* none was.
KeepsServers(list, new) ==
  /\ new \in Seq(ServerInfo)
  /\ Len(new) = Len(list)
  /\ NamesOf(new) = NamesOf(list)
  /\ UniqueNames(list) => UniqueNames(new)

-----------------------------------------------------------------------------
\* The first entry of a name that is present is found.
LEMMA PositionFound ==
  ASSUME NEW S, NEW list \in Seq(S), NEW name \in NamesOf(list)
  PROVE  PositionOf(list, name) \in 1 .. Len(list) /\ list[PositionOf(list, name)].name = name
<1> DEFINE T == {i \in 1 .. Len(list) : list[i].name = name}
<1>1. T # {} /\ T \subseteq Nat
  BY DEF NamesOf
<1> HIDE DEF T
<1>2. PICK i \in T : \A j \in T : i <= j
  BY ZenonT(30), <1>1, LeastElement
<1> USE DEF T
<1>3. \A j \in 1 .. i - 1 : list[j].name # name
  BY <1>2
<1>4. \E k \in 1 .. Len(list) : list[k].name = name /\ \A j \in 1 .. k - 1 : list[j].name # name
  BY <1>2, <1>3
<1> QED BY ZenonT(30), <1>4 DEF PositionOf

\* Appending an absent name keeps names unique.
LEMMA AppendNew ==
  ASSUME NEW S, NEW list \in Seq(S), NEW item \in S, item.name \notin NamesOf(list)
  PROVE  /\ Append(list, item) \in Seq(S)
         /\ Append(list, item) # <<>>
         /\ NamesOf(Append(list, item)) = NamesOf(list) \cup {item.name}
         /\ UniqueNames(list) => UniqueNames(Append(list, item))
<1> DEFINE new == Append(list, item)
<1>1. /\ new \in Seq(S) /\ new # <<>> /\ Len(new) = Len(list) + 1
      /\ \A i \in 1 .. Len(list) : new[i] = list[i]
      /\ new[Len(list) + 1] = item
  BY AppendProperties
<1> HIDE DEF new
<1>2. 1 .. Len(new) = 1 .. Len(list) \cup {Len(list) + 1}
  BY <1>1
<1>3. NamesOf(new) = NamesOf(list) \cup {item.name}
  BY <1>1, <1>2 DEF NamesOf
<1>4. ASSUME UniqueNames(list) PROVE UniqueNames(new)
  <2> SUFFICES ASSUME NEW i \in 1 .. Len(new), NEW j \in 1 .. Len(new), new[i].name = new[j].name
               PROVE  i = j
    BY DEF UniqueNames
  <2> QED BY <1>1, <1>2, <1>4 DEF UniqueNames, NamesOf
<1> QED BY <1>1, <1>3, <1>4 DEF new

\* Only the names count for what follows.
LEMMA SameNames ==
  ASSUME NEW list, NEW new, Len(new) = Len(list),
         \A j \in 1 .. Len(list) : new[j].name = list[j].name
  PROVE  /\ NamesOf(new) = NamesOf(list)
         /\ UniqueNames(list) => UniqueNames(new)
BY DEF NamesOf, UniqueNames

\* registerServer and refreshServer's replacement keep names unique.
LEMMA PutKeeps ==
  ASSUME NEW S, NEW list \in Seq(S), NEW item \in S
  PROVE  /\ Put(list, item) \in Seq(S)
         /\ NamesOf(Put(list, item)) = NamesOf(list) \cup {item.name}
         /\ UniqueNames(list) => UniqueNames(Put(list, item))
<1>1. CASE item.name \in NamesOf(list)
  <2>1. /\ PositionOf(list, item.name) \in 1 .. Len(list)
        /\ list[PositionOf(list, item.name)].name = item.name
    BY <1>1, PositionFound
  <2>2. Put(list, item) = [list EXCEPT ![PositionOf(list, item.name)] = item]
    BY <1>1 DEF Put
  <2>3. Put(list, item) \in Seq(S) /\ Len(Put(list, item)) = Len(list)
    BY SMTT(60), <2>1, <2>2, ExceptSeq
  <2>4. \A j \in 1 .. Len(list) : Put(list, item)[j].name = list[j].name
    BY <2>1, <2>2, ExceptSeq
  <2> QED BY <1>1, <2>3, <2>4, SameNames
<1>2. CASE item.name \notin NamesOf(list)
  BY <1>2, AppendNew DEF Put
<1> QED BY <1>1, <1>2

\* A list read through a bijection of its positions holds the same servers.
LEMMA RearrangedKeeps ==
  ASSUME NEW list \in Seq(ServerInfo),
         NEW p \in Bijection(1 .. Len(list), 1 .. Len(list))
  PROVE  KeepsServers(list, [i \in 1 .. Len(list) |-> list[p[i]]])
<1> DEFINE new == [i \in 1 .. Len(list) |-> list[p[i]]]
<1>1. /\ p \in [1 .. Len(list) -> 1 .. Len(list)]
      /\ \A i, j \in 1 .. Len(list) : p[i] = p[j] => i = j
      /\ \A k \in 1 .. Len(list) : \E i \in 1 .. Len(list) : p[i] = k
  BY DEF Bijection, Injection, IsInjective, Surjection
<1>2. \A k \in 1 .. Len(list) : list[k] \in ServerInfo
  BY ElementOfSeq
<1>3. new \in Seq(ServerInfo) /\ Len(new) = Len(list)
  <2>1. new \in [1 .. Len(list) -> ServerInfo] /\ Len(list) \in Nat
    BY <1>1, <1>2, LenProperties
  <2> HIDE DEF new
  <2>2. new \in Seq(ServerInfo)
    BY <2>1, SeqDef
  <2> QED BY SMTT(60), <2>1, <2>2, LenProperties
<1>4. \A i \in 1 .. Len(list) : new[i] = list[p[i]] /\ p[i] \in 1 .. Len(list)
  BY <1>1
<1> HIDE DEF new
<1>5. NamesOf(new) = NamesOf(list)
  <2>1. \A i \in 1 .. Len(list) : new[i].name \in NamesOf(list)
    BY <1>4 DEF NamesOf
  <2>2. \A k \in 1 .. Len(list) : list[k].name \in NamesOf(new)
    <3> TAKE k \in 1 .. Len(list)
    <3>1. PICK i \in 1 .. Len(list) : p[i] = k
      BY <1>1
    <3> QED BY <1>3, <1>4, <3>1 DEF NamesOf
  <2> QED BY ZenonT(30), <1>3, <2>1, <2>2 DEF NamesOf
<1>6. ASSUME UniqueNames(list) PROVE UniqueNames(new)
  <2> SUFFICES ASSUME NEW i \in 1 .. Len(list), NEW j \in 1 .. Len(list),
                      new[i].name = new[j].name
               PROVE  i = j
    BY <1>3 DEF UniqueNames
  <2>1. p[i] = p[j]
    BY ZenonT(30), <1>4, <1>6 DEF UniqueNames
  <2> QED BY <1>1, <2>1
<1> QED BY <1>3, <1>5, <1>6 DEF KeepsServers, new

\* A change of one average changes no name.
LEMMA WithRttKeeps ==
  ASSUME NEW list \in Seq(ServerInfo), NEW i \in 1 .. Len(list), NEW rtt \in Rtts
  PROVE  KeepsServers(list, WithRtt(list, i, rtt))
<1> DEFINE item == [list[i] EXCEPT !.rtt = rtt]
           new  == WithRtt(list, i, rtt)
<1>1. list[i] \in ServerInfo
  BY ElementOfSeq
<1>2. item \in ServerInfo /\ item.name = list[i].name
  BY <1>1 DEF ServerInfo
<1>3. new = [list EXCEPT ![i] = item]
  BY DEF WithRtt
<1> HIDE DEF item, new
<1>4. new \in Seq(ServerInfo) /\ Len(new) = Len(list)
  BY SMTT(60), <1>2, <1>3, ExceptSeq
<1>5. \A j \in 1 .. Len(list) : new[j].name = list[j].name
  BY SMTT(60), <1>2, <1>3, ExceptSeq
<1> QED BY <1>4, <1>5, SameNames DEF KeepsServers, new

\* So does the exchange of two servers.
LEMMA SwapKeeps ==
  ASSUME NEW list \in Seq(ServerInfo), NEW i \in 1 .. Len(list), NEW j \in 1 .. Len(list)
  PROVE  KeepsServers(list, Swap(list, i, j))
<1> DEFINE D == 1 .. Len(list)
           p == [k \in D |-> IF k = j THEN i ELSE IF k = i THEN j ELSE k]
<1>1. p \in Bijection(D, D)
  <2>1. p \in [D -> D]
    OBVIOUS
  <2>2. \A k, l \in D : p[k] = p[l] => k = l
    OBVIOUS
  <2>3. \A k \in D : \E l \in D : p[l] = k
    <3> TAKE k \in D
    <3>1. p[p[k]] = k /\ p[k] \in D
      OBVIOUS
    <3> QED BY <3>1
  <2> QED BY ZenonT(30), <2>1, <2>2, <2>3 DEF Bijection, Injection, IsInjective, Surjection
<1>2. Swap(list, i, j) = [k \in D |-> list[p[k]]]
  BY LenProperties DEF Swap
<1> HIDE DEF p
<1> QED BY <1>1, <1>2, RearrangedKeeps

\* And the bubble pass.
LEMMA BubblePassKeeps ==
  ASSUME NEW list \in Seq(ServerInfo)
  PROVE  KeepsServers(list, BubblePass(list))
<1> DEFINE p == [i \in 1 .. Len(list) |-> BubbleSource(list, i)]
<1>1. \A j \in 1 .. Len(list) : list[j].rtt \in Int
  <2>1. \A j \in 1 .. Len(list) : list[j] \in ServerInfo
    BY ElementOfSeq
  <2> QED BY SMTT(60), <2>1, ServersInfoAssumption DEF ServerInfo, Rtts
<1>2. p \in Bijection(1 .. Len(list), 1 .. Len(list))
  BY <1>1, BubbleSourceBijection
<1>3. BubblePass(list) = [i \in 1 .. Len(list) |-> list[p[i]]]
  BY DEF BubblePass
<1> HIDE DEF p
<1> QED BY <1>2, <1>3, RearrangedKeeps

\* An average of two latencies is a latency.
LEMMA AveragesAreRtts ==
  ASSUME NEW a \in Rtts, NEW b \in Rtts
  PROVE  Averages(a, b) \subseteq Rtts
BY ServersInfoAssumption DEF Averages, Rtts, MinOf, MaxOf

\* estimatorUpdate loses and duplicates no server.
LEMMA EstimatorKeeps ==
  ASSUME NEW list \in Seq(ServerInfo), list # <<>>,
         NEW cur \in Candidates(Len(list)), NEW new \in EstimatorUpdate(list, cur)
  PROVE  KeepsServers(list, new)
<1>1. Len(list) \in Nat \ {0}
  BY EmptySeq
<1>2. ActiveCount(Len(list)) \in 1 .. Len(list)
  BY <1>1, ActiveCountBounds
<1>3. cur \in 1 .. Len(list)
  BY <1>2 DEF Candidates
<1>4. KeepsServers(list, list)
  BY DEF KeepsServers
<1>5. CASE ActiveCount(Len(list)) = Len(list)
  BY <1>4, <1>5 DEF EstimatorUpdate
<1>6. CASE ActiveCount(Len(list)) # Len(list)
  <2>1. PICK cand \in ActiveCount(Len(list)) + 1 .. Len(list) : new \in EstimatorSteps(list, cur, cand)
    BY <1>6 DEF EstimatorUpdate
  <2>2. cand \in 1 .. Len(list)
    BY <1>2
  <2>3. list[cand].rtt \in Rtts
    <3>1. list[cand] \in ServerInfo
      BY <2>2, ElementOfSeq
    <3> QED BY <3>1 DEF ServerInfo
  <2>4. KeepsServers(list, WithRtt(list, cur, list[cand].rtt))
    BY <1>3, <2>3, WithRttKeeps
  <2>5. KeepsServers(list, BubblePass(Swap(list, cand, cur)))
    BY <1>3, <2>2, SwapKeeps, BubblePassKeeps DEF KeepsServers
  <2>6. \A avg \in Averages(list[cand].rtt, list[cand].rtt \div 2) :
          KeepsServers(list, BubblePass(WithRtt(list, cand, avg)))
    <3> TAKE avg \in Averages(list[cand].rtt, list[cand].rtt \div 2)
    <3>1. list[cand].rtt \div 2 \in Rtts
      BY SMTT(60), <2>3, ServersInfoAssumption DEF Rtts
    <3>2. avg \in Rtts
      BY <2>3, <3>1, AveragesAreRtts
    <3> QED BY <2>2, <3>2, WithRttKeeps, BubblePassKeeps DEF KeepsServers
  <2> QED BY <1>4, <2>1, <2>4, <2>5, <2>6 DEF EstimatorSteps
<1> QED BY <1>5, <1>6

-----------------------------------------------------------------------------
(***************************************************************************)
(* The inductive invariant.  A goroutine that has found its name absent    *)
(* must still find it absent when it appends: no other goroutine of the    *)
(* refresh has that name, and a query only ever refreshes live servers.    *)
(***************************************************************************)
Consistent ==
  /\ wanted # <<>>
  /\ UniqueNames(registered) /\ UniqueNames(inner) /\ UniqueNames(snapshot)
  /\ NamesOf(inner) \subseteq NamesOf(registered)
  /\ NamesOf(snapshot) \subseteq NamesOf(registered)
  /\ \A i \in 1 .. Len(snapshot) :
       /\ task[i].pc = "append" => snapshot[i].name \notin NamesOf(inner)
       /\ task[i].pc \in {"register", "done"} => snapshot[i].name \in NamesOf(inner)
  /\ \A q \in Queries :
       /\ query[q].pc # "append"
       /\ query[q].pc # "idle" => query[q].name \in NamesOf(inner)
  /\ resolverReady => inner # <<>>
  /\ inner # <<>> /\ ignoreTimestamp
       => \E i \in 1 .. Len(snapshot) : task[i].pc \in {"register", "done"}

IndInv == TypeOK /\ Consistent

\* What each step establishes: the invariant, and that no live server is lost.
StepOK == IndInv' /\ NamesOf(inner) \subseteq NamesOf(inner')

-----------------------------------------------------------------------------
\* A list with servers is not empty, and conversely.
LEMMA EmptyOrNot ==
  ASSUME NEW S, NEW list \in Seq(S)
  PROVE  list # <<>> <=> NamesOf(list) # {}
<1>1. list = <<>> <=> Len(list) = 0
  BY EmptySeq
<1>2. Len(list) \in Nat
  BY LenProperties
<1> QED BY <1>1, <1>2 DEF NamesOf

\* The placeholder of an idle query is well typed: a server is configured.
LEMMA IdleQueryType == IdleQuery \in Query
<1>1. InitialServers[1] \in RegisteredServer
  <2>1. Len(InitialServers) \in Nat \ {0}
    BY ServersInfoAssumption, EmptySeq
  <2> QED BY SMTT(60), <2>1, ServersInfoAssumption, ElementOfSeq
<1>2. Names # {} /\ Stamps # {}
  BY <1>1 DEF RegisteredServer
<1>3. (CHOOSE n \in Names : TRUE) \in Names /\ (CHOOSE x \in Stamps : TRUE) \in Stamps
  BY <1>2
<1>4. 0 \in Rtts
  BY ServersInfoAssumption DEF Rtts
<1> QED BY <1>3, <1>4 DEF IdleQuery, Query

\* At startup nothing is live, and the strengthened invariant holds.
THEOREM InitInv == Init => IndInv
<1> SUFFICES ASSUME Init PROVE IndInv
  OBVIOUS
<1> USE DEF Init
<1>1. InitialServers \in Seq(RegisteredServer) /\ Len(InitialServers) \in Nat
  BY ServersInfoAssumption, LenProperties
<1>2. Range(InitialServers) \subseteq RegisteredServer
  BY SMTT(60), <1>1, LenProperties DEF Range
<1>3. registered \in Seq(RegisteredServer)
  <2>1. PICK n \in 1 .. Len(InitialServers) : registered \in [1 .. n -> Range(InitialServers)]
    OBVIOUS
  <2>2. n \in Nat /\ registered \in [1 .. n -> RegisteredServer]
    BY SMTT(60), <1>1, <1>2, <2>1
  <2> QED BY SMTT(60), <2>2, SeqDef
<1>4. Len(<<>>) = 0
  BY EmptySeq
<1>5. TypeOK
  <2>1. task \in [1 .. Len(snapshot) -> Task]
    BY <1>4
  <2>2. query \in [Queries -> Query]
    BY IdleQueryType
  <2>3. updater \in NotStarted .. Len(wanted)
    BY <1>1 DEF NotStarted
  <2>4. updates \in 0 .. MaxUpdates
    BY ServersInfoAssumption
  <2>5. inner \in Seq(ServerInfo) /\ snapshot \in Seq(RegisteredServer)
    BY EmptySeq
  <2> QED BY ZenonT(30), <1>1, <1>3, <2>1, <2>2, <2>3, <2>4, <2>5, ServersInfoAssumption DEF TypeOK
<1>6. Consistent
  <2>1. NamesOf(inner) = {} /\ NamesOf(snapshot) = {}
    BY SMTT(60), <1>4 DEF NamesOf
  <2>2. UniqueNames(inner) /\ UniqueNames(snapshot)
    BY SMTT(60), <1>4 DEF UniqueNames
  <2>3. \A q \in Queries : query[q].pc = "idle"
    BY DEF IdleQuery
  <2> QED BY SMTT(60), <1>4, <2>1, <2>2, <2>3, ServersInfoAssumption DEF Consistent
<1> QED BY <1>5, <1>6 DEF IndInv

-----------------------------------------------------------------------------
\* Steps of a refresh goroutine that leave the lists alone.
LEMMA TaskMovesInv ==
  ASSUME IndInv, NEW i \in 1 .. Len(snapshot), task[i].pc \in {"waiting", "fetching", "install"},
         NEW pc \in {"fetching", "install", "failed", "append"}, NEW rtt \in Rtts,
         SetTask(i, pc, rtt),
         pc = "append" => snapshot[i].name \notin NamesOf(inner),
         UNCHANGED <<wanted, registered, inner, snapshot, updater, query, resolverReady,
                     ignoreTimestamp, updates>>
  PROVE  StepOK
<1> USE DEF IndInv, StepOK
<1>1. [pc |-> pc, rtt |-> rtt] \in Task
  BY DEF Task, RefreshPcs
<1>2. task' \in [1 .. Len(snapshot) -> Task]
  BY <1>1 DEF SetTask, TypeOK
<1>3. TypeOK'
  BY <1>2 DEF TypeOK
<1>4. /\ task'[i].pc = pc
      /\ \A j \in 1 .. Len(snapshot) : j # i => task'[j] = task[j]
  BY DEF SetTask, TypeOK
<1>5. \A j \in 1 .. Len(snapshot) :
        /\ task'[j].pc = "append" => snapshot[j].name \notin NamesOf(inner)
        /\ task'[j].pc \in {"register", "done"} => snapshot[j].name \in NamesOf(inner)
  BY <1>4 DEF Consistent
<1>6. ASSUME inner # <<>> /\ ignoreTimestamp
      PROVE  \E j \in 1 .. Len(snapshot) : task'[j].pc \in {"register", "done"}
  <2>1. PICK j \in 1 .. Len(snapshot) : task[j].pc \in {"register", "done"}
    BY <1>6 DEF Consistent
  <2> QED BY <1>4, <2>1
<1>7. Consistent'
  BY ZenonT(30), <1>5, <1>6 DEF Consistent
<1> QED BY <1>3, <1>7

\* Steps of a query: they keep the live servers and the table.
LEMMA QueryMovesInv ==
  ASSUME IndInv, KeepsServers(inner, inner'), query' \in [Queries -> Query],
         \A q \in Queries :
           /\ query'[q].pc # "append"
           /\ query'[q].pc # "idle" => query'[q].name \in NamesOf(inner),
         UNCHANGED unchangedByQueries
  PROVE  StepOK
<1> USE DEF IndInv, StepOK, unchangedByQueries
<1>1. TypeOK'
  BY DEF TypeOK, KeepsServers
<1>2. NamesOf(inner)' = NamesOf(inner) /\ UniqueNames(inner)'
  BY DEF KeepsServers, Consistent
<1>3. (inner # <<>>)' <=> inner # <<>>
  <2>1. inner \in Seq(ServerInfo) /\ inner' \in Seq(ServerInfo)
    BY DEF TypeOK, KeepsServers
  <2> QED BY <1>2, <2>1, EmptyOrNot
<1>4. Consistent'
  BY <1>2, <1>3 DEF Consistent
<1> QED BY <1>1, <1>2, <1>4

\* What noticeFailure and noticeSuccess can leave.
LEMMA SampledKeeps ==
  ASSUME IndInv, NEW q \in Queries, query[q].pc # "idle", NEW sample \in Rtts,
         NEW new \in Sampled(inner, q, sample)
  PROVE  KeepsServers(inner, new)
<1> USE DEF IndInv, StepOK
<1>1. inner \in Seq(ServerInfo)
  BY DEF TypeOK
<1>2. KeepsServers(inner, inner)
  BY <1>1 DEF KeepsServers
<1>3. CASE query[q].current
  <2> DEFINE k == PositionOf(inner, query[q].name)
  <2>1. query[q].name \in NamesOf(inner)
    BY DEF Consistent
  <2>2. k \in 1 .. Len(inner)
    BY <1>1, <2>1, PositionFound
  <2>3. PICK avg \in Averages(inner[k].rtt, sample) : new = WithRtt(inner, k, avg)
    BY <1>3 DEF Sampled
  <2> HIDE DEF k
  <2>4. inner[k] \in ServerInfo
    BY <1>1, <2>2, ElementOfSeq
  <2>5. inner[k].rtt \in Rtts
    BY <2>4 DEF ServerInfo
  <2>6. avg \in Rtts
    BY <2>3, <2>5, AveragesAreRtts
  <2> QED BY ZenonT(30), <1>1, <2>2, <2>3, <2>6, WithRttKeeps
<1>4. CASE ~query[q].current
  BY <1>2, <1>4 DEF Sampled
<1> QED BY <1>3, <1>4

\* getOne rearranges the live servers at most.
LEMMA GetOneInv == ASSUME IndInv, NEW q \in Queries, GetOne(q) PROVE StepOK
<1> USE DEF IndInv, StepOK
<1>0. PICK candidate \in Candidates(Len(inner)) :
        \E list \in IF LbEstimator THEN EstimatorUpdate(inner, candidate) ELSE {inner} :
          /\ inner' = list
          /\ query' = [query EXCEPT ![q] = [@ EXCEPT !.pc = "using", !.current = TRUE,
                                                    !.name = list[candidate].name]]
  BY ZenonT(30) DEF GetOne
<1>1. PICK list \in IF LbEstimator THEN EstimatorUpdate(inner, candidate) ELSE {inner} :
        /\ inner' = list
        /\ query' = [query EXCEPT ![q] = [@ EXCEPT !.pc = "using", !.current = TRUE,
                                                  !.name = list[candidate].name]]
  BY ZenonT(30), <1>0
<1>2. inner \in Seq(ServerInfo) /\ inner # <<>>
  BY DEF TypeOK, GetOne
<1>3. KeepsServers(inner, inner)
  BY <1>2 DEF KeepsServers
<1>4. KeepsServers(inner, inner')
  BY <1>1, <1>2, <1>3, EstimatorKeeps
<1>5. candidate \in 1 .. Len(inner)
  <2>1. Len(inner) \in Nat \ {0}
    BY <1>2, EmptySeq
  <2> QED BY SMTT(60), <1>1, <2>1, ActiveCountBounds DEF Candidates
<1>6. list[candidate] \in ServerInfo /\ list[candidate].name \in NamesOf(inner)
  <2>1. list \in Seq(ServerInfo) /\ candidate \in 1 .. Len(list) /\ NamesOf(list) = NamesOf(inner)
    BY <1>1, <1>4, <1>5 DEF KeepsServers
  <2>2. list[candidate] \in ServerInfo
    BY <2>1, ElementOfSeq
  <2>3. list[candidate].name \in NamesOf(list)
    BY <2>1 DEF NamesOf
  <2> QED BY <2>1, <2>2, <2>3
<1>7. list[candidate].name \in Names
  BY <1>6 DEF ServerInfo
<1>8. query' \in [Queries -> Query]
  BY ZenonT(30), <1>1, <1>7 DEF TypeOK, Query
<1>9. \A r \in Queries :
        /\ query'[r].pc # "append"
        /\ query'[r].pc # "idle" => query'[r].name \in NamesOf(inner)
  BY <1>1, <1>6 DEF TypeOK, Consistent
<1> QED BY ZenonT(30), <1>4, <1>8, <1>9, QueryMovesInv DEF GetOne

\* A query that returns is idle again.
LEMMA QueryEndsInv ==
  ASSUME IndInv, NEW q \in Queries, KeepsServers(inner, inner'),
         query' = [query EXCEPT ![q] = IdleQuery], UNCHANGED unchangedByQueries
  PROVE  StepOK
<1> USE DEF IndInv, StepOK
<1>1. query' \in [Queries -> Query]
  BY IdleQueryType DEF TypeOK
<1>2. \A r \in Queries :
        /\ query'[r].pc # "append"
        /\ query'[r].pc # "idle" => query'[r].name \in NamesOf(inner)
  BY DEF TypeOK, Consistent, IdleQuery
<1> QED BY <1>1, <1>2, QueryMovesInv

\* noticeSuccess changes one average.
LEMMA QuerySucceedsInv == ASSUME IndInv, NEW q \in Queries, QuerySucceeds(q) PROVE StepOK
<1>1. inner' = inner \/ \E elapsed \in 1 .. MaxRtt - 1 : inner' \in Sampled(inner, q, elapsed)
  BY DEF QuerySucceeds
<1>2. KeepsServers(inner, inner)
  BY DEF KeepsServers, IndInv, TypeOK
<1>3. 1 .. MaxRtt - 1 \subseteq Rtts
  BY ServersInfoAssumption DEF Rtts
<1>4. query[q].pc # "idle"
  BY DEF QuerySucceeds
<1>5. KeepsServers(inner, inner')
  BY <1>1, <1>2, <1>3, <1>4, SampledKeeps
<1> QED BY ZenonT(30), <1>5, QueryEndsInv DEF QuerySucceeds

\* noticeFailure changes one average.
LEMMA QueryFailsInv == ASSUME IndInv, NEW q \in Queries, QueryFails(q) PROVE StepOK
<1>1. MaxRtt \in Rtts
  BY ServersInfoAssumption DEF Rtts
<1>2. KeepsServers(inner, inner')
  BY <1>1, SampledKeeps DEF QueryFails
<1> QED BY ZenonT(30), <1>2, QueryEndsInv DEF QueryFails

\* A key update only picks the stamp it refreshes with.
LEMMA KeyUpdateInv == ASSUME IndInv, NEW q \in Queries, KeyUpdate(q) PROVE StepOK
<1> USE DEF IndInv, StepOK
<1>1. PICK stamp : /\ stamp = registered[PositionOf(registered, query[q].name)].stamp
                      \/ stamp \in Stamps
                   /\ query' = [query EXCEPT ![q] = [@ EXCEPT !.pc = "fetching", !.stamp = stamp]]
  BY ZenonT(30) DEF KeyUpdate
<1>2. stamp \in Stamps
  <2>1. registered \in Seq(RegisteredServer) /\ query[q].name \in NamesOf(registered)
    BY DEF TypeOK, KeyUpdate
  <2>2. PositionOf(registered, query[q].name) \in 1 .. Len(registered)
    BY <2>1, PositionFound
  <2>3. registered[PositionOf(registered, query[q].name)] \in RegisteredServer
    BY <2>1, <2>2, ElementOfSeq
  <2> QED BY <1>1, <2>3 DEF RegisteredServer
<1>3. query' \in [Queries -> Query]
  BY ZenonT(30), <1>1, <1>2 DEF TypeOK, Query, RefreshPcs
<1>4. \A r \in Queries :
        /\ query'[r].pc # "append"
        /\ query'[r].pc # "idle" => query'[r].name \in NamesOf(inner)
  BY <1>1 DEF TypeOK, Consistent, KeyUpdate
<1>5. KeepsServers(inner, inner') /\ UNCHANGED unchangedByQueries
  BY DEF KeyUpdate, KeepsServers, TypeOK
<1> QED BY <1>3, <1>4, <1>5, QueryMovesInv

\* The fetch of a key update leaves the lists alone.
LEMMA KeyFetchInv == ASSUME IndInv, NEW q \in Queries, KeyFetch(q) PROVE StepOK
<1> USE DEF IndInv, StepOK
<1>1. PICK rtt \in Rtts : query' = [query EXCEPT ![q] = [@ EXCEPT !.pc = "install", !.rtt = rtt]]
  BY ZenonT(30) DEF KeyFetch
<1>2. query' \in [Queries -> Query]
  BY ZenonT(30), <1>1 DEF TypeOK, Query, RefreshPcs
<1>3. \A r \in Queries :
        /\ query'[r].pc # "append"
        /\ query'[r].pc # "idle" => query'[r].name \in NamesOf(inner)
  BY <1>1 DEF TypeOK, Consistent, KeyFetch
<1>4. KeepsServers(inner, inner') /\ UNCHANGED unchangedByQueries
  BY DEF KeyFetch, KeepsServers, TypeOK
<1> QED BY <1>2, <1>3, <1>4, QueryMovesInv

\* So does one that fails, but for an average.
LEMMA KeyFetchFailsInv == ASSUME IndInv, NEW q \in Queries, KeyFetchFails(q) PROVE StepOK
<1> USE DEF IndInv, StepOK
<1>1. MaxRtt \in Rtts
  BY ServersInfoAssumption DEF Rtts
<1>2. KeepsServers(inner, inner')
  BY <1>1, SampledKeeps DEF KeyFetchFails
<1>3. query' \in [Queries -> Query]
  <2>1. query[q].name \in Names /\ query[q].current \in BOOLEAN
    BY DEF TypeOK, Query
  <2>2. [IdleQuery EXCEPT !.pc = "ending", !.name = query[q].name, !.current = query[q].current]
          \in Query
    BY ZenonT(30), <2>1, IdleQueryType DEF Query
  <2> QED BY <2>2 DEF TypeOK, KeyFetchFails
<1>4. \A r \in Queries :
        /\ query'[r].pc # "append"
        /\ query'[r].pc # "idle" => query'[r].name \in NamesOf(inner)
  BY DEF TypeOK, Consistent, KeyFetchFails, IdleQuery
<1> QED BY <1>2, <1>3, <1>4, QueryMovesInv DEF KeyFetchFails

\* A fresh object of a live server.
LEMMA NewServerType ==
  ASSUME NEW name \in Names, NEW stamp \in Stamps, NEW rtt \in Rtts
  PROVE  NewServer(name, stamp, rtt) \in ServerInfo /\ NewServer(name, stamp, rtt).name = name
BY DEF NewServer, ServerInfo

\* Marking the queries whose object is replaced keeps their names and states.
LEMMA OutdatedKeeps ==
  ASSUME NEW queries \in [Queries -> Query], NEW name
  PROVE  /\ Outdated(queries, name) \in [Queries -> Query]
         /\ \A r \in Queries : /\ Outdated(queries, name)[r].pc = queries[r].pc
                               /\ Outdated(queries, name)[r].name = queries[r].name
BY ZenonT(30) DEF Outdated, Query

\* The server a query uses is still live: its object is replaced, in place.
LEMMA KeyInstallInv == ASSUME IndInv, NEW q \in Queries, KeyInstall(q) PROVE StepOK
<1> USE DEF IndInv, StepOK
<1> DEFINE server  == NewServer(query[q].name, query[q].stamp, query[q].rtt)
           ending  == [IdleQuery EXCEPT !.pc = "ending", !.name = query[q].name]
           queries == [query EXCEPT ![q] = ending]
<1>1. inner \in Seq(ServerInfo) /\ query \in [Queries -> Query] /\ query[q] \in Query
  BY DEF TypeOK
<1>2. query[q].name \in NamesOf(inner)
  BY DEF Consistent, KeyInstall
<1>3. server \in ServerInfo /\ server.name = query[q].name
  BY <1>1, NewServerType DEF Query
<1>4. inner' = Put(inner, server) /\ query' = Outdated(queries, query[q].name)
  BY <1>2 DEF KeyInstall
<1>5. ending \in Query /\ ending.pc = "ending" /\ ending.name = query[q].name
  BY ZenonT(30), <1>1, IdleQueryType DEF Query
<1> HIDE DEF server, ending
<1>6. queries \in [Queries -> Query]
  BY <1>1, <1>5
<1>7. KeepsServers(inner, inner')
  <2>1. PositionOf(inner, query[q].name) \in 1 .. Len(inner)
    BY <1>1, <1>2, PositionFound
  <2>2. Len(inner') = Len(inner)
    BY SMTT(60), <1>1, <1>2, <1>3, <1>4, <2>1, ExceptSeq DEF Put
  <2>3. /\ Put(inner, server) \in Seq(ServerInfo)
        /\ NamesOf(Put(inner, server)) = NamesOf(inner) \cup {server.name}
        /\ UniqueNames(inner) => UniqueNames(Put(inner, server))
    BY <1>1, <1>3, PutKeeps
  <2>4. NamesOf(inner) \cup {server.name} = NamesOf(inner)
    BY ZenonT(30), <1>2, <1>3
  <2> QED BY <1>4, <2>2, <2>3, <2>4 DEF KeepsServers
<1>8. \A r \in Queries : queries[r].pc # "append" /\ (queries[r].pc # "idle" => queries[r].name \in NamesOf(inner))
  BY <1>1, <1>2, <1>5 DEF Consistent
<1> HIDE DEF queries
<1>9. query' \in [Queries -> Query]
  BY ZenonT(30), <1>4, <1>6, OutdatedKeeps
<1>10. \A r \in Queries :
         /\ query'[r].pc # "append"
         /\ query'[r].pc # "idle" => query'[r].name \in NamesOf(inner)
  BY ZenonT(30), <1>4, <1>6, <1>8, OutdatedKeeps
<1> QED BY <1>7, <1>9, <1>10, QueryMovesInv DEF KeyInstall

-----------------------------------------------------------------------------
\* refresh copies the list of registered servers.
LEMMA RefreshStartInv == ASSUME IndInv, RefreshStart PROVE StepOK
<1> USE DEF IndInv, StepOK, RefreshStart
<1>1. registered \in Seq(RegisteredServer) /\ snapshot' = registered
  BY DEF TypeOK
<1>2. [pc |-> "waiting", rtt |-> 0] \in Task
  BY SMTT(60), ServersInfoAssumption DEF Task, Rtts
<1>3. task' \in [1 .. Len(snapshot') -> Task]
  BY <1>1, <1>2
<1>4. TypeOK'
  BY ZenonT(30), <1>1, <1>3 DEF TypeOK
<1>5. inner = <<>> \/ ~ignoreTimestamp
  <2>1. Len(snapshot) = 0
    BY EmptySeq
  <2> QED BY SMTT(60), <2>1 DEF Consistent
<1>6. \A i \in 1 .. Len(snapshot') : task'[i].pc = "waiting"
  BY ZenonT(30), <1>1
<1>7. Consistent'
  BY ZenonT(30), <1>1, <1>5, <1>6 DEF Consistent
<1> QED BY <1>4, <1>7

\* refreshServer replaces a live server in place, or remembers to append it.
LEMMA TaskInstallInv ==
  ASSUME IndInv, NEW i \in 1 .. Len(snapshot), TaskInstall(i) PROVE StepOK
<1> USE DEF IndInv, StepOK
<1> DEFINE name   == snapshot[i].name
           server == NewServer(name, snapshot[i].stamp, task[i].rtt)
<1>1. /\ inner \in Seq(ServerInfo) /\ query \in [Queries -> Query]
      /\ snapshot \in Seq(RegisteredServer) /\ task[i] \in Task
  BY ZenonT(30) DEF TypeOK
<1>2. snapshot[i] \in RegisteredServer
  BY <1>1, ElementOfSeq
<1>3. name \in Names /\ server \in ServerInfo /\ server.name = name
  BY ZenonT(30), <1>1, <1>2, NewServerType DEF RegisteredServer, Task
<1>4. CASE name \notin NamesOf(inner)
  <2>1. task[i].rtt \in Rtts
    BY ZenonT(30), <1>1 DEF Task
  <2>2. SetTask(i, "append", task[i].rtt)
    BY ZenonT(30), <1>4 DEF TaskInstall
  <2>3. UNCHANGED <<wanted, registered, inner, snapshot, updater, query, resolverReady,
                     ignoreTimestamp, updates>>
    BY <1>4 DEF TaskInstall
  <2>4. task[i].pc = "install"
    BY DEF TaskInstall
  <2> HIDE DEF name, IndInv, StepOK
  <2> QED BY ZenonT(30), <1>4, <2>1, <2>2, <2>3, <2>4, TaskMovesInv DEF name
<1>5. CASE name \in NamesOf(inner)
  <2>1. /\ inner' = Put(inner, server)
        /\ query' = Outdated(query, name)
        /\ SetTask(i, "done", 0)
        /\ resolverReady' = TRUE
        /\ UNCHANGED <<wanted, registered, snapshot, updater, ignoreTimestamp, updates>>
    BY ZenonT(30), <1>5 DEF TaskInstall
  <2> HIDE DEF server
  <2>2. inner' \in Seq(ServerInfo) /\ NamesOf(inner') = NamesOf(inner) /\ UniqueNames(inner')
    <3>1. /\ Put(inner, server) \in Seq(ServerInfo)
          /\ NamesOf(Put(inner, server)) = NamesOf(inner) \cup {server.name}
          /\ UniqueNames(inner) => UniqueNames(Put(inner, server))
      BY ZenonT(30), <1>1, <1>3, PutKeeps
    <3>2. NamesOf(inner) \cup {server.name} = NamesOf(inner)
      BY ZenonT(30), <1>3, <1>5
    <3> QED BY ZenonT(30), <2>1, <3>1, <3>2 DEF Consistent
  <2>3. /\ query' \in [Queries -> Query]
        /\ \A r \in Queries : query'[r].pc = query[r].pc /\ query'[r].name = query[r].name
    BY ZenonT(30), <1>1, <2>1, OutdatedKeeps
  <2>4. [pc |-> "done", rtt |-> 0] \in Task
    BY SMTT(60), ServersInfoAssumption DEF Task, Rtts
  <2>5. task' \in [1 .. Len(snapshot) -> Task]
    BY <2>1, <2>4 DEF SetTask, TypeOK
  <2>6. /\ task'[i].pc = "done"
        /\ \A j \in 1 .. Len(snapshot) : j # i => task'[j] = task[j]
    BY ZenonT(30), <2>1 DEF SetTask, TypeOK
  <2>7. TypeOK'
    BY <2>1, <2>2, <2>3, <2>5 DEF TypeOK
  <2>8. inner' # <<>>
    BY ZenonT(30), <1>5, <2>2, EmptyOrNot
  <2>9. \A j \in 1 .. Len(snapshot) :
          /\ task'[j].pc = "append" => snapshot[j].name \notin NamesOf(inner)
          /\ task'[j].pc \in {"register", "done"} => snapshot[j].name \in NamesOf(inner)
    BY ZenonT(30), <1>5, <2>6 DEF Consistent
  <2>10. Consistent'
    BY ZenonT(30), <2>1, <2>2, <2>3, <2>6, <2>8, <2>9 DEF Consistent
  <2> QED BY ZenonT(30), <2>2, <2>7, <2>10
<1> QED BY <1>4, <1>5

\* What a goroutine appends has not become live since it looked: names are
\* registered once, so no two goroutines refresh the same one.
LEMMA TaskAppendInv ==
  ASSUME IndInv, NEW i \in 1 .. Len(snapshot), TaskAppend(i) PROVE StepOK
<1> USE DEF IndInv, StepOK
<1> DEFINE name   == snapshot[i].name
           server == NewServer(name, snapshot[i].stamp, task[i].rtt)
<1>1. /\ inner \in Seq(ServerInfo)
      /\ snapshot \in Seq(RegisteredServer) /\ task[i] \in Task
  BY ZenonT(30) DEF TypeOK
<1>2. snapshot[i] \in RegisteredServer
  BY <1>1, ElementOfSeq
<1>3. server \in ServerInfo /\ server.name = name
  BY <1>1, <1>2, NewServerType DEF RegisteredServer, Task
<1>4. name \notin NamesOf(inner)
  BY DEF Consistent, TaskAppend
<1>5. /\ inner' = Append(inner, server)
      /\ SetTask(i, "register", 0)
      /\ UNCHANGED <<wanted, registered, snapshot, updater, query, resolverReady,
                     ignoreTimestamp, updates>>
  BY ZenonT(30) DEF TaskAppend
<1> HIDE DEF server
<1>6. /\ inner' \in Seq(ServerInfo) /\ inner' # <<>>
      /\ NamesOf(inner') = NamesOf(inner) \cup {name}
      /\ UniqueNames(inner')
  BY SMTT(60), <1>1, <1>3, <1>4, <1>5, AppendNew DEF Consistent
<1>7. [pc |-> "register", rtt |-> 0] \in Task
  BY SMTT(60), ServersInfoAssumption DEF Task, Rtts, RefreshPcs
<1>8. task' \in [1 .. Len(snapshot) -> Task]
  BY <1>5, <1>7 DEF SetTask, TypeOK
<1>9. /\ task'[i].pc = "register"
      /\ \A j \in 1 .. Len(snapshot) : j # i => task'[j] = task[j]
  BY <1>5 DEF SetTask, TypeOK
<1>10. TypeOK'
  BY ZenonT(30), <1>5, <1>6, <1>8 DEF TypeOK
<1>11. \A j \in 1 .. Len(snapshot) :
         /\ task'[j].pc = "append" => snapshot[j].name \notin NamesOf(inner')
         /\ task'[j].pc \in {"register", "done"} => snapshot[j].name \in NamesOf(inner')
  <2> TAKE j \in 1 .. Len(snapshot)
  <2>1. CASE j = i
    BY ZenonT(30), <1>6, <1>9, <2>1
  <2>2. CASE j # i
    <3>1. snapshot[j].name # name
      BY ZenonT(30), <2>2 DEF Consistent, UniqueNames
    <3> QED BY ZenonT(30), <1>6, <1>9, <2>2, <3>1 DEF Consistent
  <2> QED BY <2>1, <2>2
<1>12. name \in NamesOf(registered)
  <2>1. name \in NamesOf(snapshot)
    BY ZenonT(30) DEF NamesOf
  <2> QED BY <2>1 DEF Consistent
<1>13. Consistent'
  BY ZenonT(30), <1>5, <1>6, <1>9, <1>11, <1>12 DEF Consistent
<1> QED BY <1>6, <1>10, <1>13

\* Registering a server that is live leaves the names registered unique.
LEMMA TaskRegisterInv ==
  ASSUME IndInv, NEW i \in 1 .. Len(snapshot), TaskRegister(i) PROVE StepOK
<1> USE DEF IndInv, StepOK
<1>1. /\ registered \in Seq(RegisteredServer)
      /\ snapshot \in Seq(RegisteredServer)
  BY DEF TypeOK
<1>2. snapshot[i] \in RegisteredServer
  BY ZenonT(30), <1>1, ElementOfSeq
<1>3. /\ registered' = Put(registered, snapshot[i])
      /\ SetTask(i, "done", 0)
      /\ resolverReady' = TRUE
      /\ UNCHANGED <<wanted, inner, snapshot, updater, query, ignoreTimestamp, updates>>
  BY DEF TaskRegister
<1>4. /\ registered' \in Seq(RegisteredServer)
      /\ NamesOf(registered) \subseteq NamesOf(registered')
      /\ UniqueNames(registered) => UniqueNames(registered')
  BY ZenonT(30), <1>1, <1>2, <1>3, PutKeeps
<1>5. [pc |-> "done", rtt |-> 0] \in Task
  BY ServersInfoAssumption DEF Task, Rtts
<1>6. task' \in [1 .. Len(snapshot) -> Task]
  BY <1>3, <1>5 DEF SetTask, TypeOK
<1>7. /\ task'[i].pc = "done" /\ task[i].pc = "register"
      /\ \A j \in 1 .. Len(snapshot) : j # i => task'[j] = task[j]
  BY SMTT(60), <1>3 DEF SetTask, TypeOK, TaskRegister
<1>8. TypeOK'
  BY ZenonT(30), <1>3, <1>4, <1>6 DEF TypeOK
<1>9. snapshot[i].name \in NamesOf(inner)
  BY <1>7 DEF Consistent
<1>10. inner # <<>>
  BY ZenonT(30), <1>9, EmptyOrNot DEF TypeOK
<1>11. \A j \in 1 .. Len(snapshot) :
         /\ task'[j].pc = "append" => snapshot[j].name \notin NamesOf(inner)
         /\ task'[j].pc \in {"register", "done"} => snapshot[j].name \in NamesOf(inner)
  BY ZenonT(30), <1>7, <1>9 DEF Consistent
<1>12. Consistent'
  BY ZenonT(30), <1>3, <1>4, <1>7, <1>10, <1>11 DEF Consistent
<1> QED BY <1>3, <1>8, <1>12

\* The sort at the end of refresh is a permutation.
LEMMA RefreshEndInv == ASSUME IndInv, RefreshEnd PROVE StepOK
<1> USE DEF IndInv, StepOK
<1>1. PICK p \in Bijection(1 .. Len(inner), 1 .. Len(inner)) :
        inner' = [i \in 1 .. Len(inner) |-> inner[p[i]]]
  BY DEF RefreshEnd
<1>2. inner \in Seq(ServerInfo)
  BY ZenonT(30) DEF TypeOK
<1>3. KeepsServers(inner, inner')
  BY ZenonT(30), <1>1, <1>2, RearrangedKeeps
<1>4. /\ ignoreTimestamp' = (ignoreTimestamp /\ LiveServers = {})
      /\ snapshot' = <<>> /\ task' = <<>> /\ updater' = MaxOf(updater, 0)
      /\ UNCHANGED <<wanted, registered, query, resolverReady, updates>>
  BY DEF RefreshEnd
<1>5. Len(snapshot') = 0
  BY ZenonT(30), <1>4, EmptySeq
<1>6. updater' \in NotStarted .. Len(wanted)
  BY SMTT(60), <1>4, LenProperties DEF TypeOK, MaxOf, NotStarted
<1>7. TypeOK'
  <2>1. task' \in [1 .. Len(snapshot') -> Task]
    BY SMTT(60), <1>4, <1>5
  <2>2. snapshot' \in Seq(RegisteredServer)
    BY ZenonT(30), <1>4, EmptySeq
  <2>3. ignoreTimestamp' \in BOOLEAN
    BY ZenonT(30), <1>4 DEF TypeOK
  <2> QED BY ZenonT(30), <1>3, <1>4, <1>6, <2>1, <2>2, <2>3 DEF TypeOK, KeepsServers
<1>8. NamesOf(inner') = NamesOf(inner) /\ UniqueNames(inner')
  BY ZenonT(30), <1>3 DEF KeepsServers, Consistent
<1>9. inner' # <<>> <=> inner # <<>>
  BY ZenonT(30), <1>2, <1>3, <1>8, EmptyOrNot DEF KeepsServers
<1>10. inner # <<>> => ~ignoreTimestamp'
  <2> SUFFICES ASSUME inner # <<>>, ignoreTimestamp, LiveServers = {} PROVE FALSE
    BY ZenonT(30), <1>4
  <2>1. PICK i \in 1 .. Len(snapshot) : task[i].pc \in {"register", "done"}
    BY DEF Consistent
  <2>2. task[i].pc = "done"
    BY <2>1 DEF RefreshEnd, Finished
  <2> QED BY <2>1, <2>2 DEF LiveServers
<1>11. NamesOf(snapshot') = {} /\ UniqueNames(snapshot')
  BY SMTT(60), <1>5 DEF NamesOf, UniqueNames
<1>12. Consistent'
  BY SMTT(60), <1>4, <1>5, <1>8, <1>9, <1>10, <1>11 DEF Consistent
<1> QED BY ZenonT(30), <1>7, <1>8, <1>12

-----------------------------------------------------------------------------
\* A list of servers changes the wanted servers only.
LEMMA SourceEntryInv == ASSUME IndInv, SourceEntry PROVE StepOK
<1> USE DEF IndInv, StepOK
<1>1. PICK server \in RegisteredServer :
        wanted' = IF server.name \in NamesOf(wanted)
                    THEN [i \in 1 .. Len(wanted) |->
                            IF wanted[i].name = server.name THEN server ELSE wanted[i]]
                    ELSE Append(wanted, server)
  BY ZenonT(30) DEF SourceEntry
<1>2. wanted \in Seq(RegisteredServer) /\ Len(wanted) \in Nat
  BY LenProperties DEF TypeOK
<1>3. wanted' \in Seq(RegisteredServer)
  <2>1. CASE server.name \in NamesOf(wanted)
    <3>1. \A i \in 1 .. Len(wanted) : wanted[i] \in RegisteredServer
      BY <1>2, ElementOfSeq
    <3>2. wanted' \in [1 .. Len(wanted) -> RegisteredServer]
      BY <1>1, <2>1, <3>1
    <3> QED BY SMTT(60), <1>2, <3>2, SeqDef
  <2>2. CASE server.name \notin NamesOf(wanted)
    BY ZenonT(30), <1>1, <1>2, <2>2, AppendProperties
  <2> QED BY <2>1, <2>2
<1>4. updates' \in 0 .. MaxUpdates /\ updater' \in NotStarted .. Len(wanted')
  <2>1. Len(wanted') \in Nat
    BY ZenonT(30), <1>3, LenProperties
  <2> QED BY SMTT(60), <2>1, ServersInfoAssumption DEF TypeOK, SourceEntry, NotStarted
<1>5. TypeOK'
  BY <1>3, <1>4 DEF TypeOK, SourceEntry
<1>6. wanted' # <<>>
  <2>1. CASE server.name \in NamesOf(wanted)
    <3>1. wanted' \in [1 .. Len(wanted) -> RegisteredServer]
      BY ZenonT(30), <1>1, <1>2, <2>1, ElementOfSeq
    <3>2. 1 \in DOMAIN wanted'
      BY SMTT(60), <1>2, <2>1, <3>1 DEF NamesOf
    <3> QED BY SMTT(60), <3>2
  <2>2. CASE server.name \notin NamesOf(wanted)
    BY SMTT(60), <1>1, <1>2, <2>2, AppendProperties
  <2> QED BY <2>1, <2>2
<1>7. Consistent'
  BY <1>6 DEF Consistent, SourceEntry
<1> QED BY <1>5, <1>7 DEF SourceEntry

\* updateRegisteredServers turns to registration.
LEMMA UpdaterStartInv == ASSUME IndInv, UpdaterStart PROVE StepOK
<1> USE DEF IndInv, StepOK, UpdaterStart
<1>1. Len(wanted) \in Nat \ {0}
  BY EmptySeq DEF TypeOK, Consistent
<1>2. TypeOK'
  BY SMTT(60), <1>1 DEF TypeOK, NotStarted
<1>3. Consistent'
  BY DEF Consistent
<1> QED BY ZenonT(30), <1>2, <1>3

\* Registering a wanted server leaves the names registered unique.
LEMMA UpdaterRegisterInv == ASSUME IndInv, UpdaterRegister PROVE StepOK
<1> USE DEF IndInv, StepOK
<1>1. /\ registered \in Seq(RegisteredServer) /\ wanted \in Seq(RegisteredServer)
      /\ Len(wanted) \in Nat /\ updater \in 1 .. Len(wanted)
  BY SMTT(60), LenProperties DEF TypeOK, UpdaterRegister, NotStarted
<1>2. wanted[updater] \in RegisteredServer
  BY ZenonT(30), <1>1, ElementOfSeq
<1>3. /\ registered' \in Seq(RegisteredServer)
      /\ NamesOf(registered) \subseteq NamesOf(registered')
      /\ UniqueNames(registered) => UniqueNames(registered')
  BY ZenonT(30), <1>1, <1>2, PutKeeps DEF UpdaterRegister
<1>4. updater' \in NotStarted .. Len(wanted)
  BY SMTT(60), <1>1 DEF UpdaterRegister, NotStarted
<1>5. TypeOK'
  BY ZenonT(30), <1>3, <1>4 DEF TypeOK, UpdaterRegister
<1>6. Consistent'
  BY <1>3 DEF Consistent, UpdaterRegister
<1> QED BY ZenonT(30), <1>5, <1>6 DEF UpdaterRegister

\* Every step of a goroutine of refresh keeps the invariant.
LEMMA TaskStepInv ==
  ASSUME IndInv, NEW i \in 1 .. Len(snapshot), TaskStep(i) PROVE StepOK
<1>1. 0 \in Rtts
  BY SMTT(60), ServersInfoAssumption DEF Rtts
<1>2. CASE TaskLaunch(i)
  BY ZenonT(30), <1>1, <1>2, TaskMovesInv DEF TaskLaunch
<1>3. CASE TaskFetch(i)
  <2>1. PICK rtt \in Rtts : SetTask(i, "install", rtt)
    BY <1>3 DEF TaskFetch
  <2> QED BY ZenonT(30), <1>3, <2>1, TaskMovesInv DEF TaskFetch
<1>4. CASE TaskFetchFails(i)
  BY <1>1, <1>4, TaskMovesInv DEF TaskFetchFails
<1>5. CASE TaskInstall(i)
  BY <1>5, TaskInstallInv
<1>6. CASE TaskAppend(i)
  BY ZenonT(30), <1>6, TaskAppendInv
<1>7. CASE TaskRegister(i)
  BY <1>7, TaskRegisterInv
<1> QED BY ZenonT(30), <1>2, <1>3, <1>4, <1>5, <1>6, <1>7 DEF TaskStep

\* Every step of the system keeps the invariant, and loses no live server.
THEOREM NextInv == IndInv /\ [Next]_vars => StepOK
<1> SUFFICES ASSUME IndInv, [Next]_vars PROVE StepOK
  OBVIOUS
<1>1. CASE RefreshStart
  BY <1>1, RefreshStartInv
<1>2. ASSUME NEW i \in 1 .. Len(snapshot), TaskStep(i) PROVE StepOK
  BY ZenonT(30), <1>2, TaskStepInv
<1>3. CASE RefreshEnd
  BY <1>3, RefreshEndInv
<1>4. CASE SourceEntry
  BY <1>4, SourceEntryInv
<1>5. CASE UpdaterStart
  BY <1>5, UpdaterStartInv
<1>6. CASE UpdaterRegister
  BY <1>6, UpdaterRegisterInv
<1>7. ASSUME NEW q \in Queries, QueryStep(q) PROVE StepOK
  BY ZenonT(30), <1>7, GetOneInv, QuerySucceedsInv, QueryFailsInv, KeyUpdateInv, KeyFetchInv,
     KeyFetchFailsInv, KeyInstallInv DEF QueryStep
<1>8. CASE UNCHANGED vars
  BY <1>8 DEF vars, IndInv, StepOK, TypeOK, Consistent
<1> QED BY ZenonT(30), <1>1, <1>2, <1>3, <1>4, <1>5, <1>6, <1>7, <1>8 DEF Next

-----------------------------------------------------------------------------
\* The strengthened invariant always holds.
THEOREM Invariance == Spec => []IndInv
<1>1. IndInv /\ [Next]_vars => IndInv'
  BY NextInv DEF StepOK
<1> QED BY InitInv, <1>1, PTL DEF Spec

\* Whatever refreshes, updates and queries do, the state is well typed; in
\* particular no average is ever negative.
THEOREM TypeCorrect == Spec => []TypeOK
<1>1. IndInv => TypeOK
  BY ZenonT(30) DEF IndInv
<1> QED BY Invariance, <1>1, PTL

\* refreshServer never makes a server live twice, for any number of servers
\* and goroutines.
THEOREM NeverLiveTwice == Spec => []UniqueServers
<1>1. IndInv => UniqueServers
  BY ZenonT(30) DEF IndInv, Consistent, UniqueServers
<1> QED BY Invariance, <1>1, PTL

\* Every live server stays registered, once.
THEOREM AlwaysRegistered == Spec => []LiveAreRegistered
<1>1. IndInv => LiveAreRegistered
  BY ZenonT(30) DEF IndInv, Consistent, LiveAreRegistered
<1> QED BY Invariance, <1>1, PTL

\* The append branch of refreshServer is dead code when a query calls it.
THEOREM NoAppendByQueries == Spec => []QueriesNeverAppend
<1>1. IndInv => QueriesNeverAppend
  BY ZenonT(30) DEF IndInv, Consistent, QueriesNeverAppend
<1> QED BY Invariance, <1>1, PTL

\* internalResolverReady implies a live server.
THEOREM ReadyMeansLive == Spec => []ReadyOnlyWhenLive
<1>1. IndInv => ReadyOnlyWhenLive
  BY ZenonT(30) DEF IndInv, Consistent, ReadyOnlyWhenLive
<1> QED BY Invariance, <1>1, PTL

\* Between two refreshes a proxy with live servers honours timestamps.
THEOREM TimestampsAreHonoured == Spec => []TimestampsHonoured
<1>1. IndInv => TimestampsHonoured
  <2> SUFFICES ASSUME IndInv, snapshot = <<>>, inner # <<>> PROVE ~ignoreTimestamp
    BY DEF TimestampsHonoured
  <2>1. Len(snapshot) = 0
    BY EmptySeq
  <2> QED BY SMTT(60), <2>1 DEF IndInv, Consistent
<1> QED BY Invariance, <1>1, PTL

\* No operation on the list of live servers loses one.
THEOREM NoServerLost == Spec => ServersNeverLost
<1>1. IndInv /\ [Next]_vars => [NamesOf(inner) \subseteq NamesOf(inner')]_vars
  BY NextInv DEF StepOK
<1> QED BY Invariance, <1>1, PTL DEF Spec, ServersNeverLost

-----------------------------------------------------------------------------
\* One estimatorUpdate brings no server among the active ones that is slower
\* than all of those it found there.
LEMMA EstimatorNoSlower ==
  ASSUME NEW list \in Seq(ServerInfo), list # <<>>,
         NEW cur \in Candidates(Len(list)), NEW new \in EstimatorUpdate(list, cur),
         NEW j \in 1 .. ActiveCount(Len(list))
  PROVE  \E k \in 1 .. ActiveCount(Len(list)) : new[j].rtt <= list[k].rtt
<1> DEFINE active == ActiveCount(Len(list))
<1>1. Len(list) \in Nat \ {0}
  BY EmptySeq
<1>2. active \in 1 .. Len(list)
  BY <1>1, ActiveCountBounds
<1> HIDE DEF active
<1>3. cur \in 1 .. active /\ cur \in 1 .. Len(list) /\ j \in 1 .. active /\ j \in 1 .. Len(list)
  BY SMTT(60), <1>1, <1>2 DEF Candidates, active
<1>4. \A k \in 1 .. Len(list) : list[k] \in ServerInfo /\ list[k].rtt \in Rtts /\ list[k].rtt \in Int
  <2> TAKE k \in 1 .. Len(list)
  <2>1. list[k] \in ServerInfo
    BY ElementOfSeq
  <2> QED BY SMTT(60), <2>1, ServersInfoAssumption DEF ServerInfo, Rtts
<1>5. list[j].rtt <= list[j].rtt
  BY SMTT(60), <1>3, <1>4
<1>6. CASE new = list
  BY ZenonT(30), <1>3, <1>5, <1>6 DEF active
<1>7. CASE new # list
  <2>1. PICK cand \in active + 1 .. Len(list) : new \in EstimatorSteps(list, cur, cand)
    BY <1>7 DEF EstimatorUpdate, active
  <2>2. cand \in 1 .. Len(list) /\ cand \notin 1 .. active
    BY SMTT(60), <1>2, <2>1
  <2>3. ~(list[cur].rtt < 0)
    BY SMTT(60), <1>3, <1>4, ServersInfoAssumption DEF Rtts
  <2>4. ASSUME NEW mid \in Seq(ServerInfo), Len(mid) = Len(list),
               \A k \in 1 .. active : mid[k].rtt <= list[k].rtt,
               new = BubblePass(mid)
        PROVE  \E k \in 1 .. active : new[j].rtt <= list[k].rtt
    <3>1. \A k \in 1 .. Len(mid) : mid[k].rtt \in Int
      <4> TAKE k \in 1 .. Len(mid)
      <4>1. mid[k] \in ServerInfo
        BY ElementOfSeq
      <4> QED BY SMTT(60), <4>1, ServersInfoAssumption DEF ServerInfo, Rtts
    <3>2. PICK k \in 1 .. j : new[j].rtt <= mid[k].rtt
      BY ZenonT(30), <1>3, <2>4, <3>1, BubblePassNoSlower
    <3>3. k \in 1 .. active /\ k \in 1 .. Len(list)
      BY SMTT(60), <1>2, <1>3
    <3>4. KeepsServers(mid, new)
      BY ZenonT(30), <2>4, BubblePassKeeps
    <3>5. new[j] \in ServerInfo
      BY ZenonT(30), <1>3, <2>4, <3>4, ElementOfSeq DEF KeepsServers
    <3>6. new[j].rtt \in Int
      BY SMTT(60), <3>5, ServersInfoAssumption DEF ServerInfo, Rtts
    <3>7. mid[k].rtt \in Int
      BY ZenonT(30), <2>4, <3>1, <3>3
    <3>8. list[k].rtt \in Int
      BY ZenonT(30), <1>4, <3>3
    <3> QED BY SMTT(60), <2>4, <3>2, <3>3, <3>6, <3>7, <3>8
  <2>5. CASE list[cand].rtt < list[cur].rtt
    <3> DEFINE mid == Swap(list, cand, cur)
    <3>1. mid \in Seq(ServerInfo) /\ Len(mid) = Len(list)
      BY ZenonT(30), <1>3, <2>2, SwapKeeps DEF KeepsServers
    <3>2. \A k \in 1 .. active : mid[k].rtt <= list[k].rtt
      <4> TAKE k \in 1 .. active
      <4>1. k \in 1 .. Len(list) /\ k # cand
        BY SMTT(60), <1>2, <2>2
      <4>2. mid[k] = IF k = cur THEN list[cand] ELSE list[k]
        BY ZenonT(30), <1>3, <2>2, <4>1, LenProperties DEF Swap
      <4> QED BY SMTT(60), <1>3, <1>4, <2>2, <2>5, <4>1, <4>2
    <3>3. new = BubblePass(mid)
      BY ZenonT(30), <2>1, <2>3, <2>5 DEF EstimatorSteps
    <3> HIDE DEF mid
    <3> QED BY ZenonT(30), <2>4, <3>1, <3>2, <3>3 DEF active
  <2>6. CASE ~(list[cand].rtt < list[cur].rtt)
    <3>1. PICK avg \in Averages(list[cand].rtt, list[cand].rtt \div 2) :
            new = BubblePass(WithRtt(list, cand, avg))
      BY ZenonT(30), <1>7, <2>1, <2>3, <2>6 DEF EstimatorSteps
    <3> DEFINE mid == WithRtt(list, cand, avg)
    <3>2. avg \in Rtts
      <4>1. list[cand].rtt \div 2 \in Rtts
        BY SMTT(60), <1>4, <2>2, ServersInfoAssumption DEF Rtts
      <4> QED BY ZenonT(30), <1>4, <2>2, <4>1, AveragesAreRtts
    <3>3. mid \in Seq(ServerInfo) /\ Len(mid) = Len(list)
      BY ZenonT(30), <2>2, <3>2, WithRttKeeps DEF KeepsServers
    <3>4. \A k \in 1 .. active : mid[k].rtt <= list[k].rtt
      <4> TAKE k \in 1 .. active
      <4>1. k \in 1 .. Len(list) /\ k # cand
        BY SMTT(60), <1>2, <2>2
      <4>2. mid[k] = list[k]
        BY ZenonT(30), <2>2, <4>1, LenProperties DEF WithRtt
      <4> QED BY SMTT(60), <1>4, <4>1, <4>2
    <3>5. new = BubblePass(mid)
      BY ZenonT(30), <3>1
    <3> HIDE DEF mid
    <3> QED BY ZenonT(30), <2>4, <3>3, <3>4, <3>5 DEF active
  <2> QED BY <2>5, <2>6
<1> QED BY <1>6, <1>7

\* Only getOne makes a query use a server.
LEMMA OnlyGetOneStarts ==
  ASSUME IndInv, [Next]_vars, NEW q \in Queries, query[q].pc = "idle", query'[q].pc = "using"
  PROVE  GetOne(q)
<1> USE DEF IndInv
<1>1. query \in [Queries -> Query]
  BY DEF TypeOK
<1>2. query' # query
  OBVIOUS
<1>3. ~ (\E i \in 1 .. Len(snapshot) : TaskStep(i))
  <2> SUFFICES ASSUME NEW i \in 1 .. Len(snapshot), TaskStep(i) PROVE FALSE
    BY ZenonT(30)
  <2>1. TaskInstall(i)
    BY ZenonT(30), <1>2 DEF TaskStep, TaskLaunch, TaskFetch, TaskFetchFails, TaskAppend, TaskRegister
  <2>2. query' = Outdated(query, snapshot[i].name)
    BY ZenonT(30), <1>2, <2>1 DEF TaskInstall
  <2> QED BY ZenonT(30), <1>1, <2>2, OutdatedKeeps
<1>4. PICK r \in Queries : QueryStep(r)
  BY ZenonT(30), <1>2, <1>3 DEF Next, vars, RefreshStart, RefreshEnd, SourceEntry, UpdaterStart, UpdaterRegister
<1>5. CASE GetOne(r)
  <2>1. r = q
    BY ZenonT(30), <1>1, <1>5 DEF GetOne
  <2> QED BY <1>5, <2>1
<1>6. CASE QuerySucceeds(r) \/ QueryFails(r)
  BY <1>1, <1>6 DEF QuerySucceeds, QueryFails, IdleQuery
<1>7. CASE KeyUpdate(r)
  BY <1>1, <1>7 DEF KeyUpdate
<1>8. CASE KeyFetch(r)
  BY <1>1, <1>8 DEF KeyFetch
<1>9. CASE KeyFetchFails(r)
  BY ZenonT(30), <1>1, <1>9 DEF KeyFetchFails, IdleQuery
<1>10. CASE KeyInstall(r)
  <2> DEFINE ending  == [IdleQuery EXCEPT !.pc = "ending", !.name = query[r].name]
             queries == [query EXCEPT ![r] = ending]
  <2>1. query[r].name \in NamesOf(inner) /\ query[r].name \in Names
    BY <1>1, <1>10 DEF Consistent, KeyInstall, Query
  <2>2. query' = Outdated(queries, query[r].name)
    BY <1>10, <2>1 DEF KeyInstall
  <2>3. ending \in Query /\ ending.pc = "ending"
    BY ZenonT(30), <2>1, IdleQueryType DEF Query
  <2> HIDE DEF ending
  <2>4. queries \in [Queries -> Query] /\ queries[q].pc # "using"
    BY <1>1, <2>3
  <2> HIDE DEF queries
  <2> QED BY ZenonT(30), <2>2, <2>4, OutdatedKeeps
<1> QED BY ZenonT(30), <1>4, <1>5, <1>6, <1>7, <1>8, <1>9, <1>10 DEF QueryStep

\* Picking a server never makes the active servers worse, for every strategy
\* and every list of latencies.
THEOREM ActiveStayFast == Spec => ActiveNeverDegrades
<1>1. ASSUME IndInv, [Next]_vars, NEW q \in Queries, query[q].pc = "idle", query'[q].pc = "using"
      PROVE  \A r \in ActiveRtts' : \E t \in ActiveRtts : r <= t
  <2>1. GetOne(q)
    BY <1>1, OnlyGetOneStarts
  <2>2. inner \in Seq(ServerInfo) /\ inner # <<>>
    BY <1>1, <2>1 DEF IndInv, TypeOK, GetOne
  <2>3. PICK cur \in Candidates(Len(inner)) :
          inner' \in IF LbEstimator THEN EstimatorUpdate(inner, cur) ELSE {inner}
    BY <2>1 DEF GetOne
  <2>4. CASE inner' = inner
    <3>1. ActiveRtts' = ActiveRtts
      BY <2>4 DEF ActiveRtts
    <3>2. Len(inner) \in Nat \ {0}
      BY ZenonT(30), <2>2, EmptySeq
    <3>3. \A k \in 1 .. ActiveCount(Len(inner)) : inner[k].rtt \in Int
      <4> TAKE k \in 1 .. ActiveCount(Len(inner))
      <4>1. k \in 1 .. Len(inner)
        BY SMTT(60), <3>2, ActiveCountBounds
      <4>2. inner[k] \in ServerInfo
        BY ZenonT(30), <2>2, <4>1, ElementOfSeq
      <4> QED BY SMTT(60), <4>2, ServersInfoAssumption DEF ServerInfo, Rtts
    <3>4. \A r \in ActiveRtts : r <= r
      BY SMTT(60), <3>3 DEF ActiveRtts
    <3> QED BY <3>1, <3>4
  <2>5. CASE inner' \in EstimatorUpdate(inner, cur)
    <3>1. Len(inner') = Len(inner)
      BY ZenonT(30), <2>2, <2>5, EstimatorKeeps DEF KeepsServers
    <3>2. \A j \in 1 .. ActiveCount(Len(inner)) :
            \E k \in 1 .. ActiveCount(Len(inner)) : inner'[j].rtt <= inner[k].rtt
      BY <2>2, <2>5, EstimatorNoSlower
    <3>3. ActiveRtts' = {inner'[j].rtt : j \in 1 .. ActiveCount(Len(inner))}
      BY <3>1 DEF ActiveRtts
    <3> QED BY ZenonT(30), <3>2, <3>3 DEF ActiveRtts
  <2> QED BY ZenonT(30), <2>3, <2>4, <2>5
<1>2. IndInv /\ [Next]_vars
        => [(\E q \in Queries : query[q].pc = "idle" /\ query'[q].pc = "using")
              => \A r \in ActiveRtts' : \E s \in ActiveRtts : r <= s]_vars
  BY <1>1
<1> QED BY Invariance, <1>2, PTL DEF Spec, ActiveNeverDegrades
=============================================================================
