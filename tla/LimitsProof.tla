---------------------------- MODULE LimitsProof ----------------------------
(***************************************************************************)
(* The limits of the proxy hold for every value of its parameters: the     *)
(* number of clients, counted by compare-and-swap loops, the sizes of      *)
(* padded queries, the least time for which the address of a server is     *)
(* kept, however many calls look for it, and the steps that a call takes.  *)
(***************************************************************************)
EXTENDS ClientsCount, QuestionSize, XTransport, FiniteSetTheorems, SequenceTheorems, TLAPS

-----------------------------------------------------------------------------
(***************************************************************************)
(* Clients                                                                 *)
(***************************************************************************)
\* What makes CountExact inductive: a goroutine in clientsCountInc has a slot
\* to ask for and one in clientsCountDec a slot to give back, and what a loop
\* has read was below the limit, or above zero.
Loops ==
  \A w \in Workers :
    /\ pc[w] \in {"inc", "incCAS"} => Slots!NextToken(w) \notin held
    /\ pc[w] \in {"dec", "decCAS"} => Slots!LastToken(w) \in held
    /\ pc[w] = "incCAS" => seen[w] < MaxClients
    /\ pc[w] = "decCAS" => seen[w] > 0

IndInv == TypeOK /\ CountExact /\ Loops

\* There are finitely many slots to hold, so their number makes sense.
LEMMA HeldFinite == ASSUME TypeOK PROVE IsFiniteSet(held)
<1>1. IsFiniteSet({1, 2})
  <2>1. IsFiniteSet({1} \cup {2}) BY ZenonT(30), FS_Singleton, FS_Union
  <2>2. {1} \cup {2} = {1, 2} OBVIOUS
  <2> QED BY <2>1, <2>2
<1>2. IsFiniteSet(Slots!Tokens)
  BY <1>1, FS_Product, ClientsCountAssumption DEF Slots!Tokens
<1> QED BY <1>2, FS_Subset DEF TypeOK

\* A successful compare-and-swap of clientsCountInc grants one more slot.
LEMMA Granting ==
  ASSUME IndInv, NEW w \in Workers, pc[w] = "incCAS", count = seen[w]
  PROVE  /\ Cardinality(held \cup {Slots!NextToken(w)}) = count + 1
         /\ (seen[w] + 1) % Wrap = count + 1
         /\ count < MaxClients
<1>1. Slots!NextToken(w) \notin held /\ seen[w] < MaxClients BY DEF IndInv, Loops
<1>2. Cardinality(held \cup {Slots!NextToken(w)}) = Cardinality(held) + 1
  BY SMTT(30), <1>1, HeldFinite, FS_AddElement DEF IndInv
<1>3. count \in Nat /\ count < MaxClients BY <1>1, ClientsCountAssumption DEF IndInv, TypeOK
<1>4. (seen[w] + 1) % Wrap = count + 1 BY <1>3, ClientsCountAssumption
<1> QED BY <1>2, <1>3, <1>4 DEF IndInv, CountExact

\* A slot given back is one less, and the counter is not zero before.
LEMMA Releasing ==
  ASSUME IndInv, NEW w \in Workers, pc[w] \in {"dec", "decCAS"}
  PROVE  /\ Cardinality(held \ {Slots!LastToken(w)}) = count - 1
         /\ count > 0
<1>1. Slots!LastToken(w) \in held BY DEF IndInv, Loops
<1>2. Cardinality(held \ {Slots!LastToken(w)}) = Cardinality(held) - 1
  BY ZenonT(30), <1>1, HeldFinite, FS_RemoveElement DEF IndInv
<1>3. Cardinality(held) # 0 BY <1>1, HeldFinite, FS_EmptySet DEF IndInv
<1>4. count \in Nat BY ClientsCountAssumption DEF IndInv, TypeOK
<1> QED BY <1>2, <1>3, <1>4 DEF IndInv, CountExact

\* The slots a goroutine asks for and gives back are its own: the others'
\* are the same afterwards.
LEMMA OtherTokens ==
  ASSUME NEW w \in Workers, NEW v \in Workers \ {w},
         \/ held' = held \cup {Slots!NextToken(w)}
         \/ held' = held \ {Slots!LastToken(w)}
  PROVE  /\ Slots!NextToken(v)' = Slots!NextToken(v)
         /\ Slots!LastToken(v)' = Slots!LastToken(v)
         /\ Slots!NextToken(v) \in held' <=> Slots!NextToken(v) \in held
         /\ Slots!LastToken(v) \in held' <=> Slots!LastToken(v) \in held
BY DEF Slots!NextToken, Slots!LastToken

\* A proxy that has just started has no clients.
THEOREM InitInv == Init => IndInv
<1> SUFFICES ASSUME Init PROVE IndInv OBVIOUS
<1> USE DEF Init, Slots!SlotsInit
<1>1. TypeOK BY ClientsCountAssumption DEF TypeOK
<1>2. CountExact BY FS_EmptySet DEF CountExact
<1>3. Loops BY DEF Loops
<1> QED BY <1>1, <1>2, <1>3 DEF IndInv

\* Every atomic operation of the two loops preserves the invariant.
THEOREM NextInv == IndInv /\ [Next]_vars => IndInv'
<1> SUFFICES ASSUME IndInv, [Next]_vars PROVE IndInv' OBVIOUS
<1>u. CASE UNCHANGED vars
  BY <1>u DEF vars, IndInv, TypeOK, CountExact, Loops, Slots!NextToken, Slots!LastToken, Slots!Tokens
<1>n. CASE Next
  <2> PICK w \in Workers : Inc(w) \/ Dec(w) \/ Step(w) BY <1>n DEF Next
  <2>1. CASE UNCHANGED <<count, held>>
    <3>1. TypeOK'
      BY <2>1, ClientsCountAssumption DEF IndInv, TypeOK, Slots!Tokens, Inc, Dec, Step, IncLoad, IncCAS, DecLoad, DecCAS, Goto
    <3>2. CountExact' BY <2>1 DEF IndInv, CountExact
    <3>3. Loops'
      <4> SUFFICES ASSUME NEW v \in Workers
                   PROVE  /\ pc'[v] \in {"inc", "incCAS"} => Slots!NextToken(v) \notin held
                          /\ pc'[v] \in {"dec", "decCAS"} => Slots!LastToken(v) \in held
                          /\ pc'[v] = "incCAS" => seen'[v] < MaxClients
                          /\ pc'[v] = "decCAS" => seen'[v] > 0
        BY <2>1 DEF Loops, Slots!NextToken, Slots!LastToken
      <4> QED BY <2>1, ClientsCountAssumption, Releasing
              DEF IndInv, TypeOK, Loops, Inc, Dec, Step, IncLoad, IncCAS, DecLoad, DecCAS, Goto
    <3> QED BY <3>1, <3>2, <3>3 DEF IndInv
  <2>2. CASE IncCAS(w) /\ count = seen[w]
    <3>1. /\ count' = count + 1 /\ held' = held \cup {Slots!NextToken(w)}
          /\ pc' = [pc EXCEPT ![w] = "run"] /\ seen' = seen
          /\ result' = [result EXCEPT ![w] = "granted"]
          /\ Cardinality(held') = count + 1 /\ count < MaxClients
      BY <2>2, Granting DEF IncCAS, Goto
    <3>2. TypeOK'
      <4>1. Slots!NextToken(w) \in Slots!Tokens BY DEF Slots!NextToken, Slots!Tokens
      <4>2. held' \subseteq Slots!Tokens BY <3>1, <4>1 DEF IndInv, TypeOK
      <4> QED BY <3>1, <4>2, ClientsCountAssumption DEF IndInv, TypeOK, Slots!Tokens
    <3>3. CountExact' BY <3>1 DEF CountExact
    <3>4. Loops'
      <4> SUFFICES ASSUME NEW v \in Workers
                   PROVE  /\ pc'[v] \in {"inc", "incCAS"} => Slots!NextToken(v)' \notin held'
                          /\ pc'[v] \in {"dec", "decCAS"} => Slots!LastToken(v)' \in held'
                          /\ pc'[v] = "incCAS" => seen'[v] < MaxClients
                          /\ pc'[v] = "decCAS" => seen'[v] > 0
        BY DEF Loops
      <4>1. CASE v = w BY <3>1, <4>1 DEF IndInv, TypeOK
      <4>2. CASE v # w BY <3>1, <4>2, OtherTokens DEF IndInv, TypeOK, Loops
      <4> QED BY <4>1, <4>2
    <3> QED BY <3>2, <3>3, <3>4 DEF IndInv
  <2>3. CASE DecCAS(w) /\ count = seen[w]
    <3>1. /\ count' = count - 1 /\ held' = held \ {Slots!LastToken(w)}
          /\ pc' = [pc EXCEPT ![w] = "run"] /\ seen' = seen /\ result' = result
          /\ Cardinality(held') = count - 1 /\ count > 0
      BY <2>3, Releasing DEF DecCAS, Goto
    <3>2. TypeOK' BY <3>1, ClientsCountAssumption DEF IndInv, TypeOK, Slots!Tokens
    <3>3. CountExact' BY <3>1 DEF CountExact
    <3>4. Loops'
      <4> SUFFICES ASSUME NEW v \in Workers
                   PROVE  /\ pc'[v] \in {"inc", "incCAS"} => Slots!NextToken(v)' \notin held'
                          /\ pc'[v] \in {"dec", "decCAS"} => Slots!LastToken(v)' \in held'
                          /\ pc'[v] = "incCAS" => seen'[v] < MaxClients
                          /\ pc'[v] = "decCAS" => seen'[v] > 0
        BY DEF Loops
      <4>1. CASE v = w BY <3>1, <4>1 DEF IndInv, TypeOK
      <4>2. CASE v # w BY <3>1, <4>2, OtherTokens DEF IndInv, TypeOK, Loops
      <4> QED BY <4>1, <4>2
    <3> QED BY <3>2, <3>3, <3>4 DEF IndInv
  <2>4. pc[w] = "dec" => count > 0 BY ZenonT(30), Releasing
  <2> QED BY <2>1, <2>2, <2>3, <2>4 DEF Inc, Dec, Step, IncLoad, IncCAS, DecLoad, DecCAS
<1> QED BY <1>u, <1>n

\* The invariant holds in every reachable state.
THEOREM Invariance == Spec => []IndInv
BY InitInv, NextInv, PTL DEF Spec

\* The counter stays within the limit, for every interleaving (proxy.go:622-642).
THEOREM TypeCorrect == Spec => []TypeOK
<1>1. IndInv => TypeOK BY DEF IndInv
<1> QED BY <1>1, Invariance, PTL

\* The counter is always the number of slots in use.
THEOREM CountIsExact == Spec => []CountExact
<1>1. IndInv => CountExact BY DEF IndInv
<1> QED BY <1>1, Invariance, PTL

\* The zero guard of clientsCountDec (proxy.go:637) is never needed.
THEOREM ZeroGuardUnused == Spec => []DecNeverAtZero
<1>1. IndInv => DecNeverAtZero BY ZenonT(30), Releasing DEF DecNeverAtZero
<1> QED BY <1>1, Invariance, PTL

\* The pool counts its slots as this module does.
LEMMA SameCardinality == Slots!Cardinality(held) = Cardinality(held)
BY Zenon DEF Slots!Cardinality, Cardinality

\* A step of the loops acquires, refuses or releases a slot, or changes
\* nothing that the pool of slots shows.
LEMMA StepRefines ==
  ASSUME IndInv, [Next]_vars
  PROVE  [Slots!SlotsNext]_<<held, result>>
<1>u. CASE UNCHANGED vars BY <1>u DEF vars
<1>n. CASE Next
  <2> PICK w \in Workers : Inc(w) \/ Dec(w) \/ Step(w) BY <1>n DEF Next
  <2>c. count = Slots!Cardinality(held) /\ count \in Nat
    BY SameCardinality, ClientsCountAssumption DEF IndInv, CountExact, TypeOK
  <2>1. CASE Inc(w) \/ Dec(w) BY <2>1 DEF Inc, Dec
  <2>2. CASE IncLoad(w)
    <3>1. CASE count >= MaxClients
      <4>1. Slots!Refuse(w) BY <2>2, <2>c, <3>1 DEF IncLoad, Slots!Refuse
      <4> QED BY <4>1 DEF Slots!SlotsNext
    <3>2. CASE ~(count >= MaxClients) BY <2>2, <3>2 DEF IncLoad
    <3> QED BY <3>1, <3>2
  <2>3. CASE IncCAS(w)
    <3>1. CASE count = seen[w]
      <4>1. Slots!Acquire(w)
        BY <2>3, <2>c, <3>1, Granting DEF IncCAS, Slots!Acquire, Slots!Take, IndInv, Loops
      <4> QED BY <4>1 DEF Slots!SlotsNext
    <3>2. CASE count # seen[w] BY <2>3, <3>2 DEF IncCAS
    <3> QED BY <3>1, <3>2
  <2>4. CASE DecLoad(w)
    BY <2>4, Releasing DEF DecLoad
  <2>5. CASE DecCAS(w)
    <3>1. CASE count = seen[w]
      <4>1. Slots!Release(w) BY <2>5, <3>1 DEF DecCAS, Slots!Release, Slots!Give, IndInv, Loops
      <4> QED BY <4>1 DEF Slots!SlotsNext
    <3>2. CASE count # seen[w] BY <2>5, <3>2 DEF DecCAS
    <3> QED BY <3>1, <3>2
  <2> QED BY <2>1, <2>2, <2>3, <2>4, <2>5 DEF Step
<1> QED BY <1>u, <1>n

\* The compare-and-swap loops implement the pool of slots (proxy.go:622-642).
THEOREM Refinement == Spec => ImplementsSlots
<1>1. Init => Slots!SlotsInit BY DEF Init
<1>2. IndInv /\ [Next]_vars => [Slots!SlotsNext]_<<held, result>> BY StepRefines
<1> QED BY <1>1, <1>2, Invariance, PTL DEF Spec, ImplementsSlots, Slots!SlotsSpec

-----------------------------------------------------------------------------
(***************************************************************************)
(* Sizes                                                                   *)
(***************************************************************************)
\* The constants are numbers, and ordered as the code's are.
LEMMA Constants ==
  /\ Block \in Nat /\ Block > 0 /\ Initial \in Nat /\ Safe \in Nat /\ MaxSize \in Nat
  /\ QueryOverhead \in Nat /\ QueryOverhead < Safe /\ Safe <= MaxSize /\ Initial <= MaxSize
  /\ Packets \subseteq Seq(Bytes) /\ Sizes \subseteq Nat /\ Averages \subseteq Nat /\ Xpads \subseteq Nat
  BY QuestionSizeAssumption DEF QuestionSizeAssumption

\* Rounding up to whole blocks makes room for the delimiter.
LEMMA RoundingUp ==
  ASSUME NEW s \in Nat
  PROVE  RoundUp(s) \in Nat /\ RoundUp(s) >= s + 1
<1> DEFINE y == s + Block
<1>1. y \in Nat /\ Block \in Nat /\ Block > 0
  BY Constants
<1> DEFINE q == y \div Block
<1>2. q \in Nat /\ \E r \in Nat : y = Block * q + r /\ r < Block
  <2>1. y \div Block \in Nat /\ y % Block \in Nat /\ y % Block < Block
    BY <1>1
  <2>2. y = Block * (y \div Block) + (y % Block)
    BY <1>1
  <2> QED
    BY <2>1, <2>2
<1>3. RoundUp(s) = q * Block
  BY <1>1, <1>2 DEF RoundUp
<1> QED
  BY <1>1, <1>2, <1>3

\* A packet padded to a size that leaves room for the delimiter has that size,
\* and gives the packet back.
LEMMA Padding ==
  ASSUME NEW packet \in Seq(Bytes), NEW size \in Nat, Len(packet) + 1 <= size
  PROVE  /\ Pad(packet, size) \in Seq(Bytes)
         /\ Len(Pad(packet, size)) = size
         /\ Unpadded(Pad(packet, size), packet)
<1> DEFINE n == Len(packet)
           z == size - n - 1
           p == Pad(packet, size)
<1>1. n \in Nat /\ z \in Nat /\ z = Larger(z, 0)
  BY DEF Larger
<1>2. Zeros(z) \in Seq(Bytes) /\ Len(Zeros(z)) = z /\ \A k \in 1..z : Zeros(z)[k] = 0
  BY <1>1 DEF Zeros, Bytes
<1>3. <<Delimiter>> \in Seq(Bytes)
  BY DEF Bytes
<1>4. p = (packet \o <<Delimiter>>) \o Zeros(z)
  BY <1>1 DEF Pad
<1> DEFINE d == packet \o <<Delimiter>>
<1>5. /\ d \in Seq(Bytes) /\ Len(d) = n + 1 /\ d[n + 1] = Delimiter
      /\ \A k \in 1..n : d[k] = packet[k]
  BY <1>1, <1>3
<1> DEFINE e == Zeros(z)
<1> HIDE DEF d, e, z
<1>6. p = d \o e
  BY <1>4 DEF d, e
<1>a. e \in Seq(Bytes) /\ Len(e) = z /\ \A k \in 1..z : e[k] = 0
  BY <1>2 DEF e
<1>b. z \in Nat /\ n + 1 + z = size
  BY <1>1 DEF z
<1> HIDE DEF p, n
<1>7. p \in Seq(Bytes) /\ Len(p) = size
  <2>1. p \in Seq(Bytes) /\ Len(p) = Len(d) + Len(e)
    BY ZenonT(30), <1>a, <1>5, <1>6, ConcatProperties
  <2> QED
    BY <2>1, <1>1, <1>a, <1>b, <1>5
<1>8. /\ \A k \in 1..(n + 1) : p[k] = d[k]
      /\ \A k \in (n + 2)..size : p[k] = e[k - (n + 1)]
  BY SMTT(30), <1>1, <1>a, <1>b, <1>5, <1>6
<1>9. p[n + 1] = Delimiter /\ \A k \in (n + 2)..Len(p) : p[k] = 0
  BY <1>1, <1>a, <1>b, <1>5, <1>7, <1>8
<1>10. SubSeq(p, 1, n) = packet
  <2>1. SubSeq(p, 1, n) \in Seq(Bytes) /\ Len(SubSeq(p, 1, n)) = n
    <3>1. \A k \in 1..n : p[k] \in Bytes
      BY <1>1, <1>b, <1>7
    <3>2. SubSeq(p, 1, n) \in Seq(Bytes) /\ Len(SubSeq(p, 1, n)) = IF 1 <= n THEN n - 1 + 1 ELSE 0
      BY <1>1, <3>1, SubSeqProperties
    <3> QED
      BY <1>1, <3>2
  <2>2. \A k \in 1..n : SubSeq(p, 1, n)[k] = packet[k]
    BY <1>1, <1>5, <1>7, <1>8
  <2> QED
    BY <1>1, <2>1, <2>2 DEF n
<1>11. Unpadded(p, packet)
  <2>1. n + 1 \in 1..Len(p) /\ (n + 1) - 1 = n /\ (n + 1) + 1 = n + 2
    BY <1>1, <1>b, <1>7
  <2> QED
    BY <2>1, <1>9, <1>10 DEF Unpadded
<1> QED
  BY <1>7, <1>11 DEF p

-----------------------------------------------------------------------------
\* A query that can be sent over UDP leaves room in the largest packet.
Room == query.pc = "udp" => QueryOverhead + Len(query.packet) + 1 <= MaxSize

SizeInv == SizeTypeOK /\ PaddedRight /\ FailsOnlyIfTooLong /\ Room

\* What PaddedLength gives: no more than a packet, at least the estimate over
\* UDP, and over TCP enough for every query that a packet can hold.
LEMMA PaddedLengths ==
  ASSUME NEW q, q.packet \in Packets, q.blocked \in BOOLEAN, q.relay \in BOOLEAN,
         NEW proto \in {"udp", "tcp"}, NEW xpad \in Xpads, minQuestionSize \in Initial..MaxSize
  PROVE  /\ PaddedLength(q, proto, xpad) \in Nat /\ Len(q.packet) \in Nat
         /\ PaddedLength(q, proto, xpad) <= MaxSize
         /\ proto = "udp" /\ ~q.blocked => PaddedLength(q, proto, xpad) >= minQuestionSize
         /\ Fits(q, proto, xpad) => QueryOverhead + Len(q.packet) + 1 <= MaxSize
         /\ proto = "tcp" /\ QueryOverhead + Len(q.packet) + 1 <= MaxSize => Fits(q, proto, xpad)
<1> DEFINE n == Len(q.packet)
           u == Larger(minQuestionSize, QueryOverhead + n)
           t == QueryOverhead + n + xpad
           r == RoundUp(IF proto = "udp" THEN u ELSE t)
           l == PaddedLength(q, proto, xpad)
<1>1. /\ n \in Nat /\ xpad \in Nat /\ minQuestionSize \in Nat /\ minQuestionSize <= MaxSize
      /\ QueryOverhead \in Nat /\ MaxSize \in Nat /\ Safe \in Nat /\ Safe <= MaxSize
  BY Constants
<1>2. u \in Nat /\ u >= minQuestionSize /\ t \in Nat /\ t >= QueryOverhead + n
  BY <1>1 DEF Larger
<1>3. r \in Nat /\ (proto = "udp" => r >= u + 1) /\ (proto = "tcp" => r >= t + 1)
  <2>1. CASE proto = "udp"
    BY <2>1, <1>2, RoundingUp
  <2>2. CASE proto = "tcp"
    BY ZenonT(30), <2>2, <1>2, RoundingUp
  <2> QED
    BY <2>1, <2>2
<1>4. l = IF proto = "udp" /\ q.blocked THEN Safe
          ELSE IF proto = "tcp" /\ q.relay THEN MaxSize ELSE Smaller(MaxSize, r)
  BY DEF PaddedLength
<1>5. Smaller(MaxSize, r) \in Nat /\ Smaller(MaxSize, r) <= MaxSize
      /\ (r <= MaxSize => Smaller(MaxSize, r) = r) /\ (r > MaxSize => Smaller(MaxSize, r) = MaxSize)
  BY <1>1, <1>3 DEF Smaller
<1>6. Fits(q, proto, xpad) <=> QueryOverhead + n + 1 <= l
  BY DEF Fits
<1> HIDE DEF u, t, r, l, n
<1>7. l \in Nat /\ l <= MaxSize
  BY <1>1, <1>4, <1>5
<1>8. proto = "udp" /\ ~q.blocked => l >= minQuestionSize
  BY <1>1, <1>2, <1>3, <1>4, <1>5
<1>9. proto = "tcp" /\ QueryOverhead + n + 1 <= MaxSize => QueryOverhead + n + 1 <= l
  BY <1>1, <1>2, <1>3, <1>4, <1>5
<1>10. Fits(q, proto, xpad) => QueryOverhead + n + 1 <= MaxSize
  BY <1>1, <1>6, <1>7
<1> QED
  BY <1>1, <1>6, <1>7, <1>8, <1>9, <1>10 DEF l, n

\* What Encrypt gives for a query that fits.
LEMMA Encryption ==
  ASSUME NEW q, q.packet \in Packets, q.blocked \in BOOLEAN, q.relay \in BOOLEAN,
         NEW proto \in {"udp", "tcp"}, NEW xpad \in Xpads, minQuestionSize \in Initial..MaxSize,
         Fits(q, proto, xpad), query' = Encrypted(q, proto, xpad)
  PROVE  query' \in Queries /\ PaddedRight' /\ FailsOnlyIfTooLong' /\ Room'
<1> DEFINE l == PaddedLength(q, proto, xpad)
           p == Pad(q.packet, l - QueryOverhead)
<1>1. /\ l \in Nat /\ l <= MaxSize /\ Len(q.packet) \in Nat
      /\ proto = "udp" /\ ~q.blocked => l >= minQuestionSize
      /\ QueryOverhead + Len(q.packet) + 1 <= MaxSize
  BY PaddedLengths
<1>2. QueryOverhead + Len(q.packet) + 1 <= l
  BY DEF Fits
<1>3. l - QueryOverhead \in Nat /\ Len(q.packet) + 1 <= l - QueryOverhead /\ q.packet \in Seq(Bytes)
  BY <1>1, <1>2, Constants
<1>4. p \in Seq(Bytes) /\ Len(p) = l - QueryOverhead /\ Unpadded(p, q.packet)
  BY <1>3, Padding
<1>5. query' = [pc |-> proto, packet |-> q.packet, blocked |-> q.blocked, relay |-> q.relay,
                padded |-> p, size |-> l, min |-> minQuestionSize]
  BY DEF Encrypted
<1>6. minQuestionSize \in Nat
  BY Constants
<1> HIDE DEF l, p
<1>7. query' \in Queries
  BY <1>1, <1>4, <1>5, <1>6 DEF Queries
<1>8. PaddedRight'
  <2>1. Unpadded(query'.padded, query'.packet)
    BY <1>4, <1>5
  <2>2. QueryOverhead + Len(query'.padded) = query'.size /\ query'.size <= MaxSize
    BY SMTT(30), <1>1, <1>4, <1>5, Constants
  <2>3. query'.pc = "udp" /\ ~query'.blocked => query'.size >= query'.min
    BY <1>1, <1>5
  <2> QED
    BY ZenonT(30), <2>1, <2>2, <2>3 DEF PaddedRight, Unpadded
<1>9. FailsOnlyIfTooLong'
  BY <1>5 DEF FailsOnlyIfTooLong
<1>10. Room'
  BY <1>1, <1>5 DEF Room
<1> QED
  BY <1>7, <1>8, <1>9, <1>10

\* The estimate starts in its range.
THEOREM SizeInitInv == SizeInit => SizeInv
  BY Constants DEF SizeInit, SizeInv, SizeTypeOK, PaddedRight, FailsOnlyIfTooLong, Room, Idle, Queries

\* Every step keeps the estimate in its range and the question well padded.
THEOREM SizeNextInv == SizeInv /\ [SizeNext]_sizeVars => SizeInv'
<1> SUFFICES ASSUME SizeInv, [SizeNext]_sizeVars PROVE SizeInv'
  OBVIOUS
<1>1. /\ minQuestionSize \in Initial..MaxSize /\ average \in Nat /\ query \in Queries
      /\ PaddedRight /\ FailsOnlyIfTooLong /\ Room
  BY DEF SizeInv, SizeTypeOK
<1>2. ASSUME UNCHANGED query PROVE query' \in Queries /\ PaddedRight' /\ FailsOnlyIfTooLong' /\ Room'
  BY SMTT(30), <1>1, <1>2 DEF PaddedRight, FailsOnlyIfTooLong, Room, Unpadded
<1>3. ASSUME NEW p \in Packets, NEW blocked \in BOOLEAN, NEW relay \in BOOLEAN,
             NEW proto \in {"udp", "tcp"}, NEW xpad \in Xpads,
             Ask([packet |-> p, blocked |-> blocked, relay |-> relay], proto, xpad)
      PROVE  SizeInv'
  <2> DEFINE q == [packet |-> p, blocked |-> blocked, relay |-> relay]
  <2>1. q.packet \in Packets /\ q.blocked \in BOOLEAN /\ q.relay \in BOOLEAN /\ q.packet = p
    OBVIOUS
  <2>2. /\ query' = IF proto = "udp" /\ Fits(q, "udp", xpad) THEN Encrypted(q, "udp", xpad)
                    ELSE IF Fits(q, "tcp", xpad) THEN Encrypted(q, "tcp", xpad) ELSE Failed(q)
        /\ UNCHANGED <<minQuestionSize, average>>
    BY <1>3 DEF Ask
  <2> HIDE DEF q
  <2>3. query' \in Queries /\ PaddedRight' /\ FailsOnlyIfTooLong' /\ Room'
    <3>1. CASE proto = "udp" /\ Fits(q, "udp", xpad)
      BY SMTT(30), <1>1, <2>1, <2>2, <3>1, Encryption
    <3>2. CASE ~(proto = "udp" /\ Fits(q, "udp", xpad)) /\ Fits(q, "tcp", xpad)
      BY SMTT(30), <1>1, <2>1, <2>2, <3>2, Encryption
    <3>3. CASE ~(proto = "udp" /\ Fits(q, "udp", xpad)) /\ ~Fits(q, "tcp", xpad)
      <4>1. query' = [pc |-> "failed", packet |-> q.packet]
        BY <2>2, <3>3 DEF Failed
      <4>2. ~(QueryOverhead + Len(q.packet) + 1 <= MaxSize) /\ Len(q.packet) \in Nat
        BY <1>1, <2>1, <3>3, PaddedLengths
      <4> QED
        BY SMTT(30), <2>1, <4>1, <4>2, Constants DEF Queries, PaddedRight, FailsOnlyIfTooLong, Room
    <3> QED
      BY <3>1, <3>2, <3>3
  <2> QED
    BY <1>1, <2>2, <2>3 DEF SizeInv, SizeTypeOK
<1>4. ASSUME NEW xpad \in Xpads, RetryOverTCP(xpad) PROVE SizeInv'
  <2>1. query.packet \in Packets /\ query.blocked \in BOOLEAN /\ query.relay \in BOOLEAN
    BY <1>1, <1>4 DEF RetryOverTCP, Queries, Idle
  <2>2. Fits(query, "tcp", xpad)
    BY <1>1, <1>4, <2>1, PaddedLengths DEF RetryOverTCP, Room
  <2>3. query' = Encrypted(query, "tcp", xpad) /\ UNCHANGED <<minQuestionSize, average>>
    BY <1>4, <2>2 DEF RetryOverTCP
  <2>4. query' \in Queries /\ PaddedRight' /\ FailsOnlyIfTooLong' /\ Room'
    BY SMTT(30), <1>1, <2>1, <2>2, <2>3, Encryption
  <2> QED
    BY SMTT(30), <1>1, <2>3, <2>4 DEF SizeInv, SizeTypeOK
<1>5. CASE Done
  BY <1>1, <1>5 DEF Done, SizeInv, SizeTypeOK, PaddedRight, FailsOnlyIfTooLong, Room, Idle, Queries
<1>6. CASE BlindAdjust
  <2>1. minQuestionSize' \in Initial..MaxSize /\ average' \in Nat
    BY <1>1, <1>6, Constants DEF BlindAdjust
  <2> QED
    BY <1>1, <1>2, <1>6, <2>1 DEF BlindAdjust, SizeInv, SizeTypeOK
<1>7. ASSUME NEW size \in Sizes, Adjust(size) PROVE SizeInv'
  <2>1. average' \in Nat
    BY <1>7, Constants DEF Adjust, After
  <2>2. minQuestionSize' \in Initial..MaxSize
    BY <1>1, <1>7, Constants DEF Adjust, Larger
  <2> QED
    BY <1>2, <1>7, <2>1, <2>2 DEF Adjust, SizeInv, SizeTypeOK
<1>8. CASE UNCHANGED sizeVars
  BY <1>1, <1>2, <1>8 DEF sizeVars, SizeInv, SizeTypeOK
<1> QED
  BY ZenonT(30), <1>3, <1>4, <1>5, <1>6, <1>7, <1>8 DEF SizeNext

\* The invariant, for every run.
THEOREM SizeInvariance == SizeSpec => []SizeInv
  BY SizeInitInv, SizeNextInv, PTL DEF SizeSpec

\* The estimate never leaves its range.
THEOREM SizesCorrect == SizeSpec => []SizeTypeOK
  BY SizeInvariance, PTL DEF SizeInv

\* Every question is padded as it should be.
THEOREM AlwaysPaddedRight == SizeSpec => []PaddedRight
  BY SizeInvariance, PTL DEF SizeInv

\* Only the queries that no packet can hold fail.
THEOREM OnlyTooLongFail == SizeSpec => []FailsOnlyIfTooLong
  BY SizeInvariance, PTL DEF SizeInv

\* A retry over TCP never fails for lack of room.
THEOREM RetriesFit == SizeSpec => RetryFits
<1>1. SizeInv /\ [SizeNext]_sizeVars => [query.pc = "udp" => query'.pc # "failed"]_sizeVars
  <2> SUFFICES ASSUME SizeInv, SizeNext, query.pc = "udp" PROVE query'.pc # "failed"
    BY DEF sizeVars
  <2>1. query # Idle
    BY DEF Idle
  <2>2. CASE \E xpad \in Xpads : RetryOverTCP(xpad)
    <3>1. PICK xpad \in Xpads : RetryOverTCP(xpad)
      BY <2>2
    <3>2. query \in Queries /\ minQuestionSize \in Initial..MaxSize
      BY DEF SizeInv, SizeTypeOK
    <3>3. query.packet \in Packets /\ query.blocked \in BOOLEAN /\ query.relay \in BOOLEAN
      BY <3>2 DEF Queries, Idle
    <3>4. Fits(query, "tcp", xpad)
      BY <3>2, <3>3, PaddedLengths DEF SizeInv, Room
    <3> QED
      BY <3>1, <3>4 DEF RetryOverTCP, Encrypted
  <2>3. CASE Done
    BY <2>3 DEF Done, Idle
  <2>4. CASE BlindAdjust
    BY <2>4 DEF BlindAdjust
  <2>5. CASE \E size \in Sizes : Adjust(size)
    BY <2>5 DEF Adjust
  <2> QED
    BY ZenonT(30), <2>1, <2>2, <2>3, <2>4, <2>5 DEF SizeNext, Ask
<1> QED
  BY <1>1, SizeInvariance, PTL DEF SizeSpec, RetryFits

-----------------------------------------------------------------------------
(***************************************************************************)
(* The addresses of servers                                                *)
(***************************************************************************)
\* A call that looks for an address has a source to try, and one that swaps two
\* resolvers has them in its hands, at places of the list.
CallOK(c) ==
  /\ c.pc = "resolve" => c.plan # <<>>
  /\ c.pc \in {"swap", "swapped"} => Len(c.hands) = 2 /\ c.i \in 2..Len(Bootstrap)

\* The time that an address has left and the time it has had add up to the
\* minimum, at least.
KeptLongEnough ==
  entry.ip # NoAddress /\ ~entry.pinned => entry.age > MinTTL \/ entry.left + entry.age >= MinTTL

TransportInv == TransportTypeOK /\ KeptLongEnough /\ \A f \in Calls : CallOK(call[f])

\* A sequence of sources to try.
LEMMA PlanIsSequence == Plan \in Seq(Sources) /\ Plan # <<>>
<1> DEFINE first == IF ~IgnoreSystemDNS THEN <<"system">>
                    ELSE IF ready THEN <<"internal", "internal">> ELSE <<>>
           second == <<"bootstrap", "bootstrap">>
           third == IF IgnoreSystemDNS THEN <<"system">> ELSE <<>>
<1>a. <<>> \in Seq(Sources) /\ <<"system">> \in Seq(Sources)
  BY DEF Sources
<1>b. <<"internal", "internal">> \in Seq(Sources)
  BY DEF Sources
<1>c. second \in Seq(Sources) /\ Len(second) = 2
  BY DEF Sources
<1>1. first \in Seq(Sources) /\ second \in Seq(Sources) /\ third \in Seq(Sources) /\ Len(second) = 2
  BY <1>a, <1>b, <1>c
<1>2. Plan = (first \o second) \o third
  BY DEF Plan
<1> HIDE DEF first, second, third
<1>3. first \o second \in Seq(Sources) /\ Len(first \o second) = Len(first) + Len(second)
  BY Zenon, <1>1, ConcatProperties
<1>4. /\ (first \o second) \o third \in Seq(Sources)
      /\ Len((first \o second) \o third) = Len(first \o second) + Len(third)
  BY Zenon, <1>1, <1>3, ConcatProperties
<1>5. Len(first) \in Nat /\ Len(third) \in Nat
  BY <1>1
<1>6. Len((first \o second) \o third) # 0
  BY <1>1, <1>3, <1>4, <1>5
<1>7. Len(<<>>) = 0
  OBVIOUS
<1> QED BY Zenon, <1>2, <1>4, <1>6, <1>7

\* The empty sequence has any type.
LEMMA NoHands == <<>> \in Seq(Range(Bootstrap)) /\ <<>> \in Seq(Sources)
  OBVIOUS

CallPcs == {"idle", "resolve", "swap", "swapped", "save", "dial"}
Known == Addresses \cup {NoAddress}
Plans == Seq(Sources)
Places == 1..(Len(Bootstrap) + 1)
Hands == Seq(Range(Bootstrap))

\* The fields of a call, each with the set of its values.
LEMMA CallFields ==
  Call = [pc : CallPcs, stale : Known, plan : Plans, i : Places, hands : Hands, found : Found]
  BY DEF Call, CallPcs, Known, Plans, Places, Hands

\* The values of an idle call.
LEMMA IdleValues ==
  /\ CallPcs = {"idle", "resolve", "swap", "swapped", "save", "dial"}
  /\ NoAddress \in Known /\ <<>> \in Plans /\ <<>> \in Hands /\ 1 \in Places /\ Error \in Found
<1>1. Len(Bootstrap) \in Nat
  BY XTransportAssumption
<1>2. 1 \in Places
  BY <1>1 DEF Places
<1>3. NoAddress \in Known /\ <<>> \in Plans /\ <<>> \in Hands
  BY NoHands DEF Known, Plans, Hands
<1>4. Error \in Found
  BY DEF Error, Found
<1> QED BY <1>2, <1>3, <1>4 DEF CallPcs

\* A call that is idle or that has an address.
LEMMA IdleOK ==
  /\ IdleCall \in Call /\ CallOK(IdleCall) /\ IdleCall.pc = "idle"
  /\ IdleCall.plan = <<>> /\ IdleCall.i = 1 /\ IdleCall.hands = <<>>
<1>1. IdleCall \in Call
  BY CallFields, IdleValues DEF IdleCall
<1> QED BY <1>1 DEF CallOK, IdleCall

\* What resolvers say are results.
LEMMA AnswersFound ==
  ASSUME NEW ttls, ttls \subseteq TTLs \cup {SystemTTL}
  PROVE  Answers(ttls) \subseteq Found
<1> DEFINE known == Addresses \cup {NoAddress}
           times == TTLs \cup {0, SystemTTL}
<1>1. ttls \subseteq times /\ Addresses \subseteq known /\ NoAddress \in known /\ 0 \in times
  OBVIOUS
<1>2. Found = [ok : BOOLEAN, ip : known, ttl : times]
  BY Zenon DEF Found
<1> HIDE DEF known, times
<1>3. [ok : {TRUE}, ip : Addresses, ttl : ttls] \subseteq [ok : BOOLEAN, ip : known, ttl : times]
  BY Zenon, <1>1
<1>4. [ok |-> TRUE, ip |-> NoAddress, ttl |-> 0] \in [ok : BOOLEAN, ip : known, ttl : times]
  BY Zenon, <1>1
<1> QED BY Zenon, <1>2, <1>3, <1>4 DEF Answers

\* A call that has an address dials.
LEMMA DialOK ==
  LET d == [IdleCall EXCEPT !.pc = "dial"] IN d \in Call /\ CallOK(d) /\ d.pc = "dial"
<1> DEFINE d == [IdleCall EXCEPT !.pc = "dial"]
<1>1. d \in Call /\ d.pc = "dial"
  BY CallFields, IdleValues, IdleOK
<1> QED BY <1>1 DEF CallOK

\* A call that has a result saves it.
LEMMA SavingOK ==
  ASSUME NEW c \in Call, NEW r \in Found
  PROVE  Saving(c, r) \in Call /\ CallOK(Saving(c, r)) /\ Saving(c, r).pc = "save"
<1>1. Saving(c, r) \in Call /\ Saving(c, r).pc = "save"
  BY Zenon, CallFields, IdleValues, IdleOK DEF Saving
<1> QED BY <1>1 DEF CallOK

\* What is left of a sequence.
LEMMA TailOK ==
  ASSUME NEW S, NEW p \in Seq(S), p # <<>>, Len(p) # 1
  PROVE  Tail(p) \in Seq(S) /\ Tail(p) # <<>>
<1>1. Len(p) \in Nat /\ Len(p) # 0
  BY EmptySeq
<1>2. Tail(p) \in Seq(S) /\ Len(Tail(p)) = Len(p) - 1
  BY HeadTailProperties
<1>3. Len(Tail(p)) # 0
  BY <1>1, <1>2
<1>4. Len(<<>>) = 0
  OBVIOUS
<1> QED BY Zenon, <1>2, <1>3, <1>4

\* The next source, if there is one.
LEMMA NextSourceOK ==
  ASSUME NEW c \in Call, CallOK(c), c.pc = "resolve"
  PROVE  NextSource(c) \in Call /\ CallOK(NextSource(c)) /\ NextSource(c).pc # "idle"
<1>1. CASE Len(c.plan) = 1
  BY <1>1, SavingOK, IdleValues DEF NextSource
<1>2. CASE Len(c.plan) # 1
  <2>1. Tail(c.plan) \in Plans /\ Tail(c.plan) # <<>>
    BY <1>2, CallFields, TailOK DEF CallOK, Plans
  <2>2. NextSource(c) = [c EXCEPT !.plan = Tail(c.plan), !.i = 1]
    BY <1>2 DEF NextSource
  <2>3. NextSource(c) \in Call /\ NextSource(c).pc = "resolve" /\ NextSource(c).plan = Tail(c.plan)
    BY Zenon, <2>1, <2>2, CallFields, IdleValues
  <2> QED BY <2>1, <2>3 DEF CallOK
<1> QED BY <1>1, <1>2

\* A call goes on, and the others do not.
LEMMA CallMoves ==
  ASSUME TransportInv, NEW f \in Calls, NEW c \in Call, CallOK(c), Set(f, c),
         UNCHANGED <<entry, ready, resolvers>>
  PROVE  TransportInv'
  BY DEF TransportInv, TransportTypeOK, KeptLongEnough, CallOK, Set

\* What is saved in the table is kept long enough.
LEMMA SavedOK ==
  ASSUME TransportInv, NEW ip \in Known, NEW ttl \in {-1, GraceTTL, 0, SystemTTL} \cup TTLs, SaveCachedIP(ip, ttl)
  PROVE  entry' \in Entry /\ KeptLongEnough' /\ entry'.ip = ip
<1>1. MinTTL \in Nat /\ SystemTTL \in Nat /\ GraceTTL \in Nat /\ TTLs \subseteq Nat
  BY XTransportAssumption
<1>2. ttl < 0 \/ ttl \in Nat
  BY <1>1
<1> DEFINE left == IF ttl < 0 THEN 0 ELSE IF ttl < MinTTL THEN MinTTL ELSE ttl
<1>3. left \in Nat \cup {-1} /\ (~(ttl < 0) => left >= MinTTL)
  BY <1>1, <1>2
<1>4. 0 \in 0..(MinTTL + 1) /\ (ttl < 0) \in BOOLEAN
  BY SMTT(30), <1>1
<1>5. entry' = [ip |-> ip, pinned |-> ttl < 0, left |-> left, age |-> 0]
  BY DEF SaveCachedIP
<1> HIDE DEF left
<1>6. entry' \in Entry
  BY Zenon, <1>3, <1>4, <1>5 DEF Entry, Known
<1>7. entry'.ip = ip /\ entry'.pinned = (ttl < 0) /\ entry'.left = left /\ entry'.age = 0
  BY Zenon, <1>5
<1>8. left + 0 >= MinTTL \/ ttl < 0
  BY <1>1, <1>3
<1>9. KeptLongEnough'
  BY Zenon, <1>7, <1>8 DEF KeptLongEnough
<1> QED BY <1>6, <1>7, <1>9

\* The first state.
LEMMA TransportInitInv == TransportInit => TransportInv
<1> SUFFICES ASSUME TransportInit PROVE TransportInv
  OBVIOUS
<1>1. entry \in Entry
  <2>1. MinTTL \in Nat
    BY XTransportAssumption
  <2>2. -1 \in Nat \cup {-1} /\ 0 \in 0..(MinTTL + 1)
    BY <2>1
  <2> QED BY Zenon, <2>2 DEF TransportInit, Entry
<1>2. resolvers \in [1..Len(Bootstrap) -> Range(Bootstrap)]
  BY SMTT(30), XTransportAssumption, LenProperties DEF TransportInit
<1>3. call \in [Calls -> Call] /\ \A f \in Calls : CallOK(call[f])
  BY IdleOK DEF TransportInit
<1>4. KeptLongEnough
  BY Zenon DEF TransportInit, KeptLongEnough
<1> QED BY Zenon, <1>1, <1>2, <1>3, <1>4 DEF TransportInit, TransportInv, TransportTypeOK

\* A call reads the table.
LEMMA LoadStep == ASSUME TransportInv, NEW f \in Calls, Load(f) PROVE TransportInv'
<1>1. CASE entry.ip # NoAddress /\ ~Expired
  BY <1>1, DialOK, CallMoves DEF Load
<1>2. CASE ~(entry.ip # NoAddress /\ ~Expired)
  <2> DEFINE c == [IdleCall EXCEPT !.pc = "resolve", !.stale = entry.ip, !.plan = Plan]
  <2>1. entry.ip \in Known /\ Plan \in Plans /\ Plan # <<>>
    BY PlanIsSequence DEF TransportInv, TransportTypeOK, Entry, Known, Plans
  <2>2. c \in Call /\ c.pc = "resolve" /\ c.plan = Plan
    BY ZenonT(30), <2>1, CallFields, IdleValues, IdleOK
  <2>3. CallOK(c)
    BY <2>1, <2>2 DEF CallOK
  <2>4. Set(f, c) /\ UNCHANGED <<entry, ready, resolvers>>
    BY <1>2 DEF Load
  <2> HIDE DEF c
  <2> QED BY SMTT(30), <2>2, <2>3, <2>4, CallMoves
<1> QED BY <1>1, <1>2

\* The proxy itself or the system's resolver is asked.
LEMMA AskOtherStep == ASSUME TransportInv, NEW f \in Calls, AskOther(f) PROVE TransportInv'
<1>1. call[f] \in Call /\ CallOK(call[f]) /\ call[f].pc = "resolve" /\ UNCHANGED <<entry, ready, resolvers>>
  BY SMTT(30) DEF AskOther, TransportInv, TransportTypeOK
<1>2. ASSUME NEW a \in Answers(IF Head(call[f].plan) = "system" THEN {SystemTTL} ELSE TTLs),
             Set(f, Saving(call[f], a))
      PROVE  TransportInv'
  <2>1. a \in Found
    BY SMTT(30), AnswersFound
  <2> QED BY SMTT(30), <1>1, <1>2, <2>1, SavingOK, CallMoves
<1>3. CASE Set(f, NextSource(call[f]))
  BY SMTT(30), <1>1, <1>3, NextSourceOK, CallMoves
<1> QED BY <1>2, <1>3 DEF AskOther

\* A bootstrap resolver is asked.
LEMMA AskBootstrapStep == ASSUME TransportInv, NEW f \in Calls, AskBootstrap(f) PROVE TransportInv'
<1> DEFINE s == call[f]
<1>1. s \in Call /\ CallOK(s) /\ s.pc = "resolve" /\ UNCHANGED <<entry, ready, resolvers>>
  BY Zenon DEF AskBootstrap, TransportInv, TransportTypeOK
<1>2. Len(Bootstrap) \in Nat /\ Len(resolvers) = Len(Bootstrap) /\ s.i \in 1..Len(Bootstrap)
  <2>1. Len(Bootstrap) \in Nat
    BY XTransportAssumption
  <2>2. resolvers \in Seq(Range(Bootstrap)) /\ Len(resolvers) = Len(Bootstrap)
    BY SMTT(30), <2>1 DEF TransportInv, TransportTypeOK
  <2>3. s.i <= Len(resolvers)
    BY Zenon DEF AskBootstrap
  <2>4. s.i \in Places
    BY <1>1, CallFields
  <2> QED BY <2>1, <2>2, <2>3, <2>4 DEF Places
<1>3. ASSUME NEW a \in Answers(TTLs),
             IF s.i = 1 THEN Set(f, Saving(s, a))
             ELSE Set(f, [s EXCEPT !.pc = "swap", !.found = a, !.plan = <<>>,
                                   !.hands = <<resolvers[s.i], resolvers[1]>>])
      PROVE  TransportInv'
  <2>1. a \in Found
    BY AnswersFound
  <2>2. CASE s.i = 1
    BY SMTT(30), <1>1, <1>3, <2>1, <2>2, SavingOK, CallMoves
  <2>3. CASE s.i # 1
    <3> DEFINE h == <<resolvers[s.i], resolvers[1]>>
               c == [s EXCEPT !.pc = "swap", !.found = a, !.plan = <<>>, !.hands = h]
    <3>1. resolvers[s.i] \in Range(Bootstrap) /\ resolvers[1] \in Range(Bootstrap)
      BY <1>2 DEF TransportInv, TransportTypeOK
    <3>2. h \in Hands /\ Len(h) = 2
      BY <3>1 DEF Hands
    <3>3. Set(f, c)
      BY <1>3, <2>3
    <3> HIDE DEF h
    <3>4. c \in Call /\ c.pc = "swap" /\ c.hands = h /\ c.i = s.i
      BY Zenon, <1>1, <2>1, <3>2, CallFields, IdleValues
    <3>5. s.i \in 2..Len(Bootstrap)
      BY <1>2, <2>3
    <3>6. CallOK(c)
      BY <3>2, <3>4, <3>5 DEF CallOK
    <3> HIDE DEF c
    <3> QED BY SMTT(30), <1>1, <3>3, <3>4, <3>6, CallMoves
  <2> QED BY <2>2, <2>3
<1>4. CASE Set(f, [s EXCEPT !.i = @ + 1])
  <2> DEFINE c == [s EXCEPT !.i = s.i + 1]
  <2>1. s.i + 1 \in Places
    BY <1>2 DEF Places
  <2>2. c \in Call /\ c.pc = "resolve" /\ c.plan = s.plan
    BY <1>1, <2>1, CallFields
  <2>3. CallOK(c)
    BY <1>1, <2>2 DEF CallOK
  <2>4. Set(f, c)
    BY <1>4
  <2> HIDE DEF c
  <2> QED BY SMTT(30), <1>1, <2>2, <2>3, <2>4, CallMoves
<1> QED BY ZenonT(30), <1>3, <1>4 DEF AskBootstrap

\* All of them have been asked.
LEMMA BootstrapFailedStep == ASSUME TransportInv, NEW f \in Calls, BootstrapFailed(f) PROVE TransportInv'
<1>1. call[f] \in Call /\ CallOK(call[f]) /\ call[f].pc = "resolve" /\ UNCHANGED <<entry, ready, resolvers>>
  BY DEF BootstrapFailed, TransportInv, TransportTypeOK
<1> QED BY <1>1, NextSourceOK, CallMoves DEF BootstrapFailed

\* A resolver is written to the list.
LEMMA SwapStep == ASSUME TransportInv, NEW f \in Calls, Swap(f) PROVE TransportInv'
<1> DEFINE s == call[f]
<1>1. s \in Call /\ CallOK(s) /\ s.pc \in {"swap", "swapped"} /\ UNCHANGED <<entry, ready>>
  BY DEF Swap, TransportInv, TransportTypeOK
<1>2. s.hands[1] \in Range(Bootstrap) /\ s.hands[2] \in Range(Bootstrap) /\ s.i \in 2..Len(Bootstrap)
  <2>1. s.hands \in Seq(Range(Bootstrap)) /\ Len(s.hands) = 2
    BY <1>1, CallFields DEF CallOK, Hands
  <2> QED BY SMTT(30), <1>1, <2>1, ElementOfSeq DEF CallOK
<1>3. /\ \/ Set(f, [s EXCEPT !.pc = "swapped"])
         \/ Set(f, Saving(s, s.found))
      /\ \/ resolvers' = [resolvers EXCEPT ![1] = s.hands[1]]
         \/ resolvers' = [resolvers EXCEPT ![s.i] = s.hands[2]]
  BY DEF Swap
<1>4. resolvers' \in [1..Len(Bootstrap) -> Range(Bootstrap)]
  BY <1>2, <1>3 DEF TransportInv, TransportTypeOK
<1>5. PICK c \in Call : CallOK(c) /\ Set(f, c)
  <2>1. [s EXCEPT !.pc = "swapped"] \in Call /\ CallOK([s EXCEPT !.pc = "swapped"])
    <3> DEFINE c == [s EXCEPT !.pc = "swapped"]
    <3>1. c \in Call /\ c.pc = "swapped" /\ c.hands = s.hands /\ c.i = s.i
      BY SMTT(30), <1>1, CallFields, IdleValues
    <3> QED BY <1>1, <3>1 DEF CallOK
  <2>2. Saving(s, s.found) \in Call /\ CallOK(Saving(s, s.found))
    BY <1>1, CallFields, SavingOK
  <2> QED BY <1>3, <2>1, <2>2
<1>6. call' \in [Calls -> Call] /\ \A g \in Calls : CallOK(call'[g])
  BY <1>5 DEF TransportInv, TransportTypeOK, Set
<1> QED BY Zenon, <1>1, <1>4, <1>6 DEF TransportInv, TransportTypeOK, KeptLongEnough, CallOK

\* A call that has an address, or none at all, is over.
LEMMA SaveStep == ASSUME TransportInv, NEW f \in Calls, Save(f) PROVE TransportInv'
<1> DEFINE s == call[f]
<1>1. s \in Call /\ UNCHANGED <<ready, resolvers>>
  BY DEF Save, TransportInv, TransportTypeOK
<1>2. s.stale \in Known /\ s.found.ip \in Known /\ s.found.ttl \in TTLs \cup {0, SystemTTL}
  BY <1>1, CallFields DEF Known, Found
<1>3. entry' \in Entry /\ KeptLongEnough'
  <2>1. CASE SaveCachedIP(s.found.ip, s.found.ttl)
    BY Zenon, <1>2, <2>1, SavedOK
  <2>2. CASE SaveCachedIP(s.stale, GraceTTL)
    BY Zenon, <1>2, <2>2, SavedOK
  <2>3. CASE UNCHANGED entry
    BY <2>3 DEF TransportInv, TransportTypeOK, KeptLongEnough
  <2> QED BY SMTT(30), <2>1, <2>2, <2>3 DEF Save
<1>4. PICK c \in Call : CallOK(c) /\ Set(f, c)
  BY IdleOK, DialOK DEF Save
<1>5. call' \in [Calls -> Call] /\ \A g \in Calls : CallOK(call'[g])
  BY <1>4 DEF TransportInv, TransportTypeOK, Set
<1> QED BY <1>1, <1>3, <1>5 DEF TransportInv, TransportTypeOK

\* The fetch completes.
LEMMA DialStep == ASSUME TransportInv, NEW f \in Calls, Dial(f) PROVE TransportInv'
  BY IdleOK, CallMoves DEF Dial

\* A stamp pins an address.
LEMMA PinStep == ASSUME TransportInv, Pin PROVE TransportInv'
<1>1. PICK ip \in Addresses : SaveCachedIP(ip, -1)
  BY DEF Pin
<1>2. entry' \in Entry /\ KeptLongEnough'
  BY <1>1, SavedOK DEF Known
<1> QED BY <1>2 DEF Pin, TransportInv, TransportTypeOK

\* Time passes.
LEMMA TickStep == ASSUME TransportInv, Tick PROVE TransportInv'
<1> DEFINE l == IF entry.pinned \/ entry.left < 0 THEN entry.left ELSE entry.left - 1
           a == IF entry.age > MinTTL THEN entry.age ELSE entry.age + 1
<1>1. /\ entry.ip \in Known /\ entry.pinned \in BOOLEAN /\ entry.left \in Nat \cup {-1}
      /\ entry.age \in 0..(MinTTL + 1)
  BY DEF TransportInv, TransportTypeOK, Entry, Known
<1>2. entry' = [entry EXCEPT !.left = l, !.age = a]
  BY DEF Tick
<1>3. MinTTL \in Nat
  BY XTransportAssumption
<1>4. a \in 0..(MinTTL + 1)
  BY <1>1, <1>3
<1>5. l \in Nat \cup {-1}
  BY <1>1, <1>3
<1>6. ~entry.pinned => a > MinTTL \/ l + a >= MinTTL
  <2>1. SUFFICES ASSUME ~entry.pinned PROVE a > MinTTL \/ l + a >= MinTTL
    OBVIOUS
  <2>2. entry.age > MinTTL \/ entry.left + entry.age >= MinTTL
    BY <2>1 DEF TransportInv, KeptLongEnough, Tick
  <2> QED BY SMTT(30), <1>1, <1>3, <2>1, <2>2
<1> HIDE DEF l, a
<1>7. entry' \in Entry
  BY Zenon, <1>2, <1>4, <1>5 DEF TransportInv, TransportTypeOK, Entry
<1>8. entry'.pinned = entry.pinned /\ entry'.left = l /\ entry'.age = a
  BY <1>2 DEF TransportInv, TransportTypeOK, Entry
<1>9. KeptLongEnough'
  BY <1>6, <1>8 DEF KeptLongEnough
<1> QED BY <1>7, <1>9 DEF Tick, TransportInv, TransportTypeOK

\* Every step preserves the invariant.
LEMMA TransportNextInv == TransportInv /\ [TransportNext]_transportVars => TransportInv'
<1> SUFFICES ASSUME TransportInv, [TransportNext]_transportVars PROVE TransportInv'
  OBVIOUS
<1>1. CASE UNCHANGED transportVars
  BY <1>1 DEF transportVars, TransportInv, TransportTypeOK, KeptLongEnough
<1>2. ASSUME NEW f \in Calls, Load(f) \/ Resolve(f) PROVE TransportInv'
  BY SMTT(30), <1>2, LoadStep, AskOtherStep, AskBootstrapStep, BootstrapFailedStep, SwapStep, SaveStep, DialStep
  DEF Resolve
<1>3. CASE InternalResolverReady
  BY <1>3 DEF InternalResolverReady, TransportInv, TransportTypeOK, KeptLongEnough
<1> QED BY SMTT(30), <1>1, <1>2, <1>3, PinStep, TickStep DEF TransportNext

\* The invariant holds.
THEOREM TransportInvariant == TransportSpec => []TransportInv
<1>1. TransportInit => TransportInv
  BY TransportInitInv
<1>2. TransportInv /\ [TransportNext]_transportVars => TransportInv'
  BY TransportNextInv
<1> QED BY <1>1, <1>2, PTL DEF TransportSpec

\* The table, the list of resolvers and the calls have their types: the places
\* of a swap are in the list, however other calls reorder it.
THEOREM TransportTypeCorrect == TransportSpec => []TransportTypeOK
<1>1. TransportInv => TransportTypeOK
  BY DEF TransportInv
<1> QED BY <1>1, TransportInvariant, PTL

\* A call begins with Load.
LEMMA OnlyLoadBegins ==
  ASSUME TransportInv, TransportNext, NEW f \in Calls, call[f].pc = "idle", call'[f].pc # "idle"
  PROVE  Load(f)
<1>1. ASSUME NEW g \in Calls, Load(g) \/ Resolve(g) PROVE g = f
  <2>1. SUFFICES ASSUME g # f PROVE FALSE
    BY SMTT(30)
  <2>2. PICK c : call' = [call EXCEPT ![g] = c]
    BY Zenon, <1>1 DEF Load, Resolve, AskOther, AskBootstrap, BootstrapFailed, Swap, Save, Dial, Set
  <2>3. call'[f] = call[f]
    BY <2>1, <2>2 DEF TransportInv, TransportTypeOK
  <2> QED BY <2>3
<1>2. ~Resolve(f)
  BY DEF Resolve, AskOther, AskBootstrap, BootstrapFailed, Swap, Save, Dial
<1>3. ~(Pin \/ InternalResolverReady \/ Tick)
  BY DEF Pin, InternalResolverReady, Tick
<1> QED BY <1>1, <1>2, <1>3 DEF TransportNext

\* An address is not looked up again until it has been in the table for the
\* minimum, however short the records' times to live are (xtransport.go:107),
\* and one that has expired is not used without looking it up.
THEOREM KeptAtLeastMinTTL == TransportSpec => CachedAtLeastMinTTL
<1> DEFINE A == \A f \in Calls : call[f].pc = "idle" /\ call'[f].pc # "idle" =>
                  IF call'[f].pc = "resolve" THEN entry.ip = NoAddress \/ entry.age > MinTTL
                                             ELSE ~Expired
<1>1. TransportInv /\ [TransportNext]_transportVars => [A]_transportVars
  <2> SUFFICES ASSUME TransportInv, TransportNext, NEW f \in Calls,
                      call[f].pc = "idle", call'[f].pc # "idle"
               PROVE  IF call'[f].pc = "resolve" THEN entry.ip = NoAddress \/ entry.age > MinTTL
                                                 ELSE ~Expired
    OBVIOUS
  <2>1. Load(f)
    BY OnlyLoadBegins
  <2>2. CASE entry.ip # NoAddress /\ ~Expired
    <3>1. call'[f] = [IdleCall EXCEPT !.pc = "dial"]
      BY SMTT(30), <2>1, <2>2 DEF Load, Set, TransportInv, TransportTypeOK
    <3>2. call'[f].pc = "dial"
      BY <3>1, DialOK
    <3> QED BY <2>2, <3>2
  <2>3. CASE ~(entry.ip # NoAddress /\ ~Expired)
    <3>1. call'[f] = [IdleCall EXCEPT !.pc = "resolve", !.stale = entry.ip, !.plan = Plan]
      BY SMTT(30), <2>1, <2>3 DEF Load, Set, TransportInv, TransportTypeOK
    <3>2. call'[f].pc = "resolve"
      BY Zenon, <3>1 DEF IdleCall
    <3>3. CASE Expired /\ entry.ip # NoAddress
      <4>1. ~entry.pinned /\ entry.left = -1 /\ entry.age \in Nat /\ MinTTL \in Nat
        BY SMTT(30), <3>3, XTransportAssumption DEF Expired, TransportInv, TransportTypeOK, Entry
      <4>2. entry.age > MinTTL \/ -1 + entry.age >= MinTTL
        BY <3>3, <4>1 DEF TransportInv, KeptLongEnough
      <4> QED BY <3>2, <4>1, <4>2
    <3> QED BY <2>3, <3>2, <3>3
  <2> QED BY <2>2, <2>3
<1> QED BY <1>1, TransportInvariant, PTL DEF TransportSpec, CachedAtLeastMinTTL

\* A host's address is only lost to a resolver that has responded without one
\* (xtransport.go:456).
THEOREM OnlyLostToAnswers == TransportSpec => KnownStaysKnown
<1> DEFINE A == entry.ip # NoAddress /\ entry'.ip = NoAddress =>
                  \E f \in Calls : call[f].pc = "save" /\ call[f].found.ok
<1>1. TransportInv /\ [TransportNext]_transportVars => [A]_transportVars
  <2> SUFFICES ASSUME TransportInv, TransportNext, entry.ip # NoAddress, entry'.ip = NoAddress
               PROVE  \E f \in Calls : call[f].pc = "save" /\ call[f].found.ok
    OBVIOUS
  <2>1. entry' # entry
    OBVIOUS
  <2>2. ~Tick
    BY Zenon DEF Tick, TransportInv, TransportTypeOK, Entry
  <2>3. ~Pin
    BY XTransportAssumption DEF Pin, SaveCachedIP
  <2>4. PICK f \in Calls : Save(f)
    BY ZenonT(30), <2>1, <2>2, <2>3
    DEF TransportNext, InternalResolverReady, Load, Resolve, AskOther, AskBootstrap, BootstrapFailed, Swap, Dial
  <2>5. ~SaveCachedIP(call[f].stale, GraceTTL) \/ call[f].stale = NoAddress
    BY DEF SaveCachedIP
  <2>6. call[f].pc = "save" /\ call[f].found.ok
    BY <2>1, <2>4, <2>5 DEF Save
  <2> QED BY <2>6
<1> QED BY <1>1, TransportInvariant, PTL DEF TransportSpec, KnownStaysKnown

-----------------------------------------------------------------------------
\* How far a call is from its end, at a place of Fetch.
CallStage(l) ==
  CASE l = "idle" -> 0 [] l = "dial" -> 1 [] l = "save" -> 2 [] l = "swapped" -> 3 [] l = "swap" -> 4
    [] OTHER -> 5

\* A call is nearer to its end: at a later place, with fewer sources left to
\* try, or at a later resolver of the list.
Ahead(s, t) ==
  \/ CallStage(t.pc) < CallStage(s.pc)
  \/ /\ s.pc = "resolve" /\ t.pc = "resolve"
     /\ Len(t.plan) < Len(s.plan) \/ (t.plan = s.plan /\ t.i > s.i)

\* Every step of a fetch that has begun brings it nearer to its end, and no
\* other step moves it, the swaps of other fetches in the list that it goes
\* through included: no resolver that does not respond is asked for ever.  While
\* it looks for an address, it has a source to try (xtransport.go:330-463).
FetchesAdvance ==
  /\ [][\A f \in Calls : /\ Resolve(f) => Ahead(call[f], call'[f])
                         /\ call[f].pc = "idle" \/ call'[f] = call[f] \/ Ahead(call[f], call'[f])]_transportVars
  /\ []\A f \in Calls : CallOK(call[f])

\* The places of Fetch, in their order.
LEMMA LaterPlace ==
  ASSUME NEW s, NEW t,
         \/ s.pc = "resolve" /\ t.pc \in {"swap", "save"}
         \/ s.pc = "swap" /\ t.pc = "swapped"
         \/ s.pc = "swapped" /\ t.pc = "save"
         \/ s.pc = "save" /\ t.pc \in {"dial", "idle"}
         \/ s.pc = "dial" /\ t.pc = "idle"
  PROVE  Ahead(s, t)
  BY DEF Ahead, CallStage

\* The next source, or the end of the resolution.
LEMMA NextSourceAhead ==
  ASSUME NEW c \in Call, CallOK(c), c.pc = "resolve"
  PROVE  Ahead(c, NextSource(c))
<1>1. CASE Len(c.plan) = 1
  <2>1. NextSource(c).pc = "save"
    BY <1>1, SavingOK, IdleValues DEF NextSource
  <2> QED BY <2>1, LaterPlace
<1>2. CASE Len(c.plan) # 1
  <2>1. NextSource(c) = [c EXCEPT !.plan = Tail(c.plan), !.i = 1]
    BY <1>2 DEF NextSource
  <2>2. c.plan \in Plans /\ c.plan # <<>>
    BY CallFields DEF CallOK
  <2>3. NextSource(c).pc = "resolve" /\ NextSource(c).plan = Tail(c.plan)
    BY Zenon, <2>1, CallFields
  <2>4. Len(Tail(c.plan)) < Len(c.plan)
    <3>1. Len(c.plan) \in Nat /\ Len(Tail(c.plan)) = Len(c.plan) - 1
      BY <2>2, HeadTailProperties DEF Plans
    <3> QED BY <3>1
  <2> QED BY <2>3, <2>4 DEF Ahead
<1> QED BY <1>1, <1>2

\* Every step of a call brings it nearer to its end, and leaves the others.
LEMMA ResolveAhead ==
  ASSUME TransportInv, NEW f \in Calls, Resolve(f)
  PROVE  Ahead(call[f], call'[f]) /\ \A g \in Calls \ {f} : call'[g] = call[g]
<1> DEFINE s == call[f]
<1>0. call \in [Calls -> Call] /\ s \in Call /\ CallOK(s)
  BY DEF TransportInv, TransportTypeOK
<1>1. ASSUME NEW c, Set(f, c) PROVE call'[f] = c /\ \A g \in Calls \ {f} : call'[g] = call[g]
  BY <1>0, <1>1 DEF Set
<1>2. ASSUME NEW c, Set(f, c), c.pc = "save", s.pc \in {"resolve", "swapped"}
      PROVE  Ahead(call[f], call'[f])
  BY <1>1, <1>2, LaterPlace
<1>3. ASSUME Set(f, NextSource(s)), s.pc = "resolve" PROVE Ahead(call[f], call'[f])
  BY <1>0, <1>1, <1>3, NextSourceAhead
<1>4. \A a \in Found : Saving(s, a).pc = "save"
  BY <1>0, SavingOK
<1>5. \A g \in Calls \ {f} : call'[g] = call[g]
  <2>1. \E c : Set(f, c)
    BY Zenon DEF Resolve, AskOther, AskBootstrap, BootstrapFailed, Swap, Save, Dial
  <2> QED BY <1>1, <2>1
<1>6. SUFFICES Ahead(call[f], call'[f])
  BY <1>5
<1>7. CASE AskOther(f)
  <2>1. s.pc = "resolve"
    BY <1>7 DEF AskOther
  <2>2. ASSUME NEW a \in Answers(IF Head(s.plan) = "system" THEN {SystemTTL} ELSE TTLs), Set(f, Saving(s, a))
        PROVE  Ahead(call[f], call'[f])
    <3>1. a \in Found
      BY AnswersFound
    <3> QED BY <1>2, <1>4, <2>1, <2>2, <3>1
  <2> QED BY Zenon, <1>3, <1>7, <2>1, <2>2 DEF AskOther
<1>8. CASE AskBootstrap(f)
  <2>0. s.pc = "resolve"
    BY Zenon, <1>8 DEF AskBootstrap
  <2>1. s.pc = "resolve" /\ s.i \in Places /\ Len(Bootstrap) \in Nat
    BY <1>0, <2>0, CallFields, XTransportAssumption
  <2>2. ASSUME NEW a \in Answers(TTLs), Set(f, Saving(s, a)) PROVE Ahead(call[f], call'[f])
    <3>1. a \in Found
      BY AnswersFound
    <3> QED BY <1>2, <1>4, <2>1, <2>2, <3>1
  <2>3. ASSUME NEW a, NEW h, Set(f, [s EXCEPT !.pc = "swap", !.found = a, !.plan = <<>>, !.hands = h])
        PROVE  Ahead(call[f], call'[f])
    <3> DEFINE c == [s EXCEPT !.pc = "swap", !.found = a, !.plan = <<>>, !.hands = h]
    <3>1. c.pc = "swap"
      BY <1>0, CallFields
    <3>2. call'[f].pc = "swap"
      BY <1>1, <2>3, <3>1
    <3> QED BY <2>1, <3>2, LaterPlace
  <2>4. CASE Set(f, [s EXCEPT !.i = @ + 1])
    <3> DEFINE c == [s EXCEPT !.i = s.i + 1]
    <3>1. c.pc = "resolve" /\ c.plan = s.plan /\ c.i = s.i + 1
      BY <1>0, <2>1, CallFields
    <3>2. call'[f] = c
      BY <1>1, <2>4
    <3> HIDE DEF c
    <3>3. c.i > s.i
      BY <2>1, <3>1 DEF Places
    <3> QED BY Zenon, <2>1, <3>1, <3>2, <3>3 DEF Ahead
  <2> QED BY ZenonT(30), <1>8, <2>2, <2>3, <2>4 DEF AskBootstrap
<1>9. CASE BootstrapFailed(f)
  BY Zenon, <1>3, <1>9 DEF BootstrapFailed
<1>10. CASE Swap(f)
  <2>1. CASE s.pc = "swap" /\ Set(f, [s EXCEPT !.pc = "swapped"])
    <3>1. call'[f].pc = "swapped"
      BY <1>0, <1>1, <2>1, CallFields
    <3> QED BY <2>1, <3>1, LaterPlace
  <2>2. CASE s.pc = "swapped" /\ Set(f, Saving(s, s.found))
    <3>1. s.found \in Found
      BY <1>0, CallFields
    <3> QED BY Zenon, <1>2, <1>4, <2>2, <3>1
  <2> QED BY Zenon, <1>10, <2>1, <2>2 DEF Swap
<1>11. CASE Save(f)
  <2>1. s.pc = "save" /\ (Set(f, [IdleCall EXCEPT !.pc = "dial"]) \/ Set(f, IdleCall))
    BY <1>11 DEF Save
  <2>2. call'[f].pc \in {"dial", "idle"}
    BY <1>1, <2>1, DialOK, IdleOK
  <2> QED BY <2>1, <2>2, LaterPlace
<1>12. CASE Dial(f)
  BY <1>1, <1>12, IdleOK, LaterPlace DEF Dial
<1> QED BY <1>7, <1>8, <1>9, <1>10, <1>11, <1>12 DEF Resolve

\* A fetch ends, however the list of resolvers is reordered meanwhile, after a
\* bounded number of its steps.
THEOREM FetchesAdvanceTheorem == TransportSpec => FetchesAdvance
<1> DEFINE A == \A f \in Calls :
                  /\ Resolve(f) => Ahead(call[f], call'[f])
                  /\ call[f].pc = "idle" \/ call'[f] = call[f] \/ Ahead(call[f], call'[f])
           B == \A f \in Calls : CallOK(call[f])
<1>1. TransportInv => B
  BY DEF TransportInv
<1>2. TransportInv /\ [TransportNext]_transportVars => [A]_transportVars
  <2> SUFFICES ASSUME TransportInv, TransportNext, NEW f \in Calls
               PROVE  /\ Resolve(f) => Ahead(call[f], call'[f])
                      /\ call[f].pc = "idle" \/ call'[f] = call[f] \/ Ahead(call[f], call'[f])
    OBVIOUS
  <2>1. Resolve(f) => Ahead(call[f], call'[f])
    BY ResolveAhead
  <2>2. ASSUME call[f].pc # "idle", ~Resolve(f) PROVE call'[f] = call[f]
    <3>1. ASSUME NEW g \in Calls, Load(g) PROVE call'[f] = call[f]
      <4>1. g # f
        BY <2>2, <3>1 DEF Load
      <4>2. PICK c : Set(g, c)
        BY Zenon, <3>1 DEF Load
      <4> QED BY <4>1, <4>2 DEF Set, TransportInv, TransportTypeOK
    <3>2. ASSUME NEW g \in Calls, Resolve(g) PROVE call'[f] = call[f]
      BY <2>2, <3>2, ResolveAhead
    <3>3. CASE Pin \/ InternalResolverReady \/ Tick
      BY <3>3 DEF Pin, InternalResolverReady, Tick
    <3> QED BY <3>1, <3>2, <3>3 DEF TransportNext
  <2> QED BY <2>1, <2>2
<1> QED BY <1>1, <1>2, TransportInvariant, PTL DEF TransportSpec, FetchesAdvance
=============================================================================
