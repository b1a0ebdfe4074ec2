--------------------------- MODULE QueryPathProof ---------------------------
(***************************************************************************)
(* Slots, answers, truncated and stale responses, for any number of        *)
(* goroutines and of slots.  Every step of a goroutine has one of four     *)
(* shapes: its activation of processIncomingQuery goes on, it ends with    *)
(* its client, it returns to DNS64, or it starts a subquery.  Each shape   *)
(* keeps the invariant, is a step of the pool of slots or none, and brings *)
(* the query nearer to its end.                                            *)
(***************************************************************************)
EXTENDS QueryPath, FiniteSetTheorems, TLAPS

\* What the listener does by itself.
OwnLabels == {"plugins", "forward", "deliver"}

Late == {"received", "noAAAA", "dns64", "rejected", "store", "deliver"}

\* A truncated response of a DNSCrypt server came over TCP, a stale one takes
\* the place of one that an exchange ended with, and only DNS64 rejects
\* responses.
Good == {f \in Frame : /\ f.pc = "tcp" => f.proto = "tcp"
                       /\ f.pc \in {"doh", "odoh"} => f.server # "DNSCrypt"
                       /\ f.server = "DNSCrypt" /\ f.resp = "truncated" /\ f.pc \in Late
                          => f.proto = "tcp"
                       /\ f.resp = "stale" => f.pc \in Late
                       /\ f.pc \in {"noAAAA", "dns64", "rejected"} => DNS64 /\ f.key = "AAAA"}

Subquery(f) == f.client = "trampoline" /\ f.key = "A"

\* A goroutine is idle, has the activation of a client, or also a subquery.
StackInv(g) ==
  \/ stack[g] = <<>>
  \/ \E f \in Good : /\ stack[g] = <<f>> /\ answers[g] = 0
                     /\ f.pc # "dns64" /\ f.client # "trampoline"
                     /\ g = Listener => f.onlyCached /\ f.pc \in OwnLabels
  \/ \E f, s \in Good : /\ stack[g] = <<f, s>> /\ answers[g] = 0 /\ g # Listener
                        /\ f.pc = "dns64" /\ f.client # "trampoline"
                        /\ s.pc # "dns64" /\ Subquery(s)

\* The queries an expired entry must answer.
Outage(f) == /\ f.stale /\ (f.pc = "failed" \/ f.resp = "stale")
             /\ f.server # "ODoH" /\ ~(DNS64 /\ f.key = "AAAA")

Inv == /\ DOMAIN stack = Procs /\ answers \in [Procs -> {0, 1}]
       /\ \A g \in Procs : StackInv(g)
       /\ count = Cardinality(Held)
-----------------------------------------------------------------------------
(***************************************************************************)
(* How far an activation is from its end.                                  *)
(***************************************************************************)
Weight(pc) == CASE pc = "reading"                 -> 11
                [] pc = "plugins"                 -> 10
                [] pc \in {"forward", "udp"}      -> 9
                [] pc = "udpAgain"                -> 8
                [] pc \in {"tcp", "doh", "odoh"}  -> 7
                [] pc \in {"failed", "keyUpdate"} -> 6
                [] pc = "received"                -> 5
                [] pc = "noAAAA"                  -> 4
                [] pc = "dns64"                   -> 3
                [] pc \in {"rejected", "store"}   -> 2
                [] pc = "deliver"                 -> 1

Nearer(v, l) == Weight(v) < Weight(l)
-----------------------------------------------------------------------------
(***************************************************************************)
(* The shapes of a step.                                                   *)
(***************************************************************************)
Goes(g) == \E f \in Good : /\ f.pc # "dns64" /\ (Len(stack[g]) = 2 => Subquery(f))
                           /\ Len(stack[g]) = 1 => f.client # "trampoline"
                           /\ g = Listener => f.onlyCached /\ f.pc \in OwnLabels
                           /\ Nearer(f.pc, Top(g).pc)
                           /\ stack[g] # <<>> /\ Continue(g, f)

Ends(g) == /\ Len(stack[g]) = 1 /\ stack' = [stack EXCEPT ![g] = <<>>]
           /\ count' = count - Released(g)
           /\ answers' \in {answers, [answers EXCEPT ![g] = @ + 1]}
           /\ Outage(Top(g)) => answers' = [answers EXCEPT ![g] = @ + 1]

Back(g) == \E f \in Good : /\ Len(stack[g]) = 2 /\ f.pc # "dns64" /\ f.client # "trampoline"
                           /\ Nearer(f.pc, stack[g][1].pc)
                           /\ stack' = [stack EXCEPT ![g] = <<f>>]
                           /\ count' = count - 1 /\ UNCHANGED answers

Nests(g) == \E f, s \in Good : /\ Len(stack[g]) = 1 /\ g # Listener
                               /\ f.pc = "dns64" /\ f.client # "trampoline"
                               /\ s.pc = "plugins" /\ Subquery(s)
                               /\ Nearer(f.pc, Top(g).pc)
                               /\ stack' = [stack EXCEPT ![g] = <<f, s>>] /\ SlotFree
                               /\ count' = count + 1 /\ UNCHANGED answers

Shape(g) == Goes(g) \/ Ends(g) \/ Back(g) \/ Nests(g)

Starts(g) == \E f \in Good : /\ stack[g] = <<>> /\ f.pc \in {"reading", "plugins"} /\ Start(g, f)
                             /\ f.client # "trampoline"
                             /\ g = Listener => f.onlyCached /\ f.pc = "plugins" /\ UNCHANGED count
                             /\ g # Listener => SlotFree /\ count' = count + 1

\* What a step of g does to the pool of slots.
Pooled(g) == Held' = Held \/ (g \in Goroutines /\ (Pool!Take(g) \/ Pool!Give(g)))
-----------------------------------------------------------------------------
\* The activations of a goroutine, by the height of its stack.
LEMMA Heights ==
  ASSUME Inv, NEW g \in Procs
  PROVE  /\ Len(stack[g]) \in {0, 1, 2} /\ (Len(stack[g]) = 0 <=> stack[g] = <<>>)
         /\ stack[g] # <<>> => Top(g) \in Good /\ Top(g).pc # "dns64" /\ answers[g] = 0
         /\ Len(stack[g]) = 1 => stack[g] = <<Top(g)>> /\ stack[g][1] = Top(g)
                                 /\ Top(g).client # "trampoline"
         /\ Len(stack[g]) = 2 => Subquery(Top(g)) /\ stack[g][1] \in Good /\ g # Listener
                                 /\ stack[g][1].pc = "dns64" /\ stack[g][1].client # "trampoline"
                                 /\ stack[g] = <<stack[g][1], Top(g)>>
         /\ g = Listener /\ stack[g] # <<>> => Top(g).onlyCached /\ Top(g).pc \in OwnLabels
  <1>1. CASE stack[g] = <<>>
    BY <1>1
  <1>2. CASE \E f \in Good : /\ stack[g] = <<f>> /\ answers[g] = 0
                             /\ f.pc # "dns64" /\ f.client # "trampoline"
                             /\ g = Listener => f.onlyCached /\ f.pc \in OwnLabels
    BY <1>2 DEF Top
  <1>3. CASE \E f, s \in Good : /\ stack[g] = <<f, s>> /\ answers[g] = 0 /\ g # Listener
                                /\ f.pc = "dns64" /\ f.client # "trampoline"
                                /\ s.pc # "dns64" /\ Subquery(s)
    BY <1>3 DEF Top
  <1> QED BY <1>1, <1>2, <1>3 DEF Inv, StackInv

\* A slot is held for each frame of a goroutine, and there are finitely many.
LEMMA HeldFinite == IsFiniteSet(Held) /\ Cardinality(Held) \in Nat
  <1>1. IsFiniteSet({1, 2})
    <2>1. IsFiniteSet({1})
      BY ZenonT(30), FS_Singleton
    <2>2. {1, 2} = {1} \cup {2}
      OBVIOUS
    <2> QED BY <2>1, <2>2, FS_AddElement
  <1>2. IsFiniteSet(Procs)
    BY QueryPathAssumption, FS_AddElement DEF Procs
  <1>3. IsFiniteSet(Procs \X {1, 2})
    BY <1>1, <1>2, FS_Product
  <1>4. Held \subseteq Procs \X {1, 2}
    BY DEF Held, Frames
  <1> QED BY SMTT(30), <1>3, <1>4, FS_Subset, FS_CardinalityType

\* The pool counts as this module does.
LEMMA SameCardinality == Pool!Cardinality(Held) = Cardinality(Held)
  BY ZenonT(30) DEF Pool!Cardinality, Cardinality

Height(g) == Len(stack[g])

Pairs(S) == \A e \in S : \E h \in Procs : e = <<h, 1>> \/ e = <<h, 2>>

\* Two sets of pairs with the same pairs are equal.
LEMMA SamePairs ==
  ASSUME NEW A, NEW B, Pairs(A), Pairs(B),
         \A h \in Procs : (<<h, 1>> \in A <=> <<h, 1>> \in B) /\ (<<h, 2>> \in A <=> <<h, 2>> \in B)
  PROVE  A = B
  <1>1. \A e : e \in A <=> e \in B
    BY ZenonT(30) DEF Pairs
  <1> QED BY <1>1

\* Which pairs of a goroutine and a height hold slots.
LEMMA HeldPairs ==
  \A h \in Procs : /\ <<h, 1>> \in Held <=> 1 <= Height(h) /\ h # Listener
                   /\ <<h, 2>> \in Held <=> 2 <= Height(h) /\ h # Listener
                   /\ <<h, 1>> \in Held' <=> 1 <= Height(h)' /\ h # Listener
                   /\ <<h, 2>> \in Held' <=> 2 <= Height(h)' /\ h # Listener
  BY DEF Held, Frames, Height

\* There are no others.
LEMMA HeldIsPairs == Pairs(Held) /\ Pairs(Held')
  BY DEF Held, Frames, Pairs

\* The steps that leave the heights of the stacks alone, and the listener's,
\* leave the slots held alone.
LEMMA HeldSame ==
  ASSUME NEW g \in Procs, g = Listener \/ Height(g)' = Height(g),
         \A h \in Procs \ {g} : Height(h)' = Height(h)
  PROVE  Held' = Held
  <1>1. \A h \in Procs : /\ <<h, 1>> \in Held' <=> <<h, 1>> \in Held
                         /\ <<h, 2>> \in Held' <=> <<h, 2>> \in Held
    BY HeldPairs
  <1> QED BY <1>1, HeldIsPairs, SamePairs

\* A client's activation holds one slot more.
LEMMA HeldFirst ==
  ASSUME NEW g \in Procs, Height(g) = 0, Height(g)' = 1, g # Listener,
         \A h \in Procs \ {g} : Height(h)' = Height(h)
  PROVE  <<g, 1>> \notin Held /\ Held' = Held \cup {<<g, 1>>}
  <1>a. ~(1 <= Height(g)) /\ 1 <= Height(g)' /\ ~(2 <= Height(g)) /\ ~(2 <= Height(g)')
    OBVIOUS
  <1>1. <<g, 1>> \notin Held /\ <<g, 1>> \in Held'
    BY ZenonT(30), <1>a, HeldPairs
  <1>2. <<g, 2>> \in Held' <=> <<g, 2>> \in Held
    BY ZenonT(30), <1>a, HeldPairs
  <1>3. \A h \in Procs \ {g} : /\ <<h, 1>> \in Held' <=> <<h, 1>> \in Held
                               /\ <<h, 2>> \in Held' <=> <<h, 2>> \in Held
    BY HeldPairs
  <1> DEFINE after == Held \cup {<<g, 1>>}
  <1>4. \A h \in Procs : /\ <<h, 1>> \in Held' <=> <<h, 1>> \in after
                         /\ <<h, 2>> \in Held' <=> <<h, 2>> \in after
    BY <1>1, <1>2, <1>3
  <1>5. Pairs(after) /\ Pairs(Held')
    BY HeldIsPairs DEF Pairs
  <1> HIDE DEF after
  <1>6. Held' = after
    BY SMTT(30), <1>4, <1>5, SamePairs
  <1> QED BY <1>1, <1>6 DEF after

\* So does a subquery's.
LEMMA HeldSecond ==
  ASSUME NEW g \in Procs, Height(g) = 1, Height(g)' = 2, g # Listener,
         \A h \in Procs \ {g} : Height(h)' = Height(h)
  PROVE  <<g, 1>> \in Held /\ <<g, 2>> \notin Held /\ Held' = Held \cup {<<g, 2>>}
  <1>a. ~(2 <= Height(g)) /\ 2 <= Height(g)' /\ 1 <= Height(g) /\ 1 <= Height(g)'
    OBVIOUS
  <1>1. <<g, 2>> \notin Held /\ <<g, 2>> \in Held'
    BY ZenonT(30), <1>a, HeldPairs
  <1>2. <<g, 1>> \in Held' /\ <<g, 1>> \in Held
    BY ZenonT(30), <1>a, HeldPairs
  <1>3. \A h \in Procs \ {g} : /\ <<h, 1>> \in Held' <=> <<h, 1>> \in Held
                               /\ <<h, 2>> \in Held' <=> <<h, 2>> \in Held
    BY HeldPairs
  <1> DEFINE after == Held \cup {<<g, 2>>}
  <1>4. \A h \in Procs : /\ <<h, 1>> \in Held' <=> <<h, 1>> \in after
                         /\ <<h, 2>> \in Held' <=> <<h, 2>> \in after
    BY <1>1, <1>2, <1>3
  <1>5. Pairs(after) /\ Pairs(Held')
    BY HeldIsPairs DEF Pairs
  <1> HIDE DEF after
  <1>6. Held' = after
    BY <1>4, <1>5, SamePairs
  <1> QED BY <1>1, <1>2, <1>6 DEF after

\* When the client's activation is gone, its slot is not held.
LEMMA FreedFirst ==
  ASSUME NEW g \in Procs, Height(g) = 1, Height(g)' = 0, g # Listener,
         \A h \in Procs \ {g} : Height(h)' = Height(h)
  PROVE  <<g, 1>> \in Held /\ <<g, 2>> \notin Held /\ Held' = Held \ {<<g, 1>>}
  <1>a. 1 <= Height(g) /\ ~(1 <= Height(g)') /\ ~(2 <= Height(g)) /\ ~(2 <= Height(g)')
    OBVIOUS
  <1>1. <<g, 1>> \in Held /\ <<g, 1>> \notin Held'
    BY ZenonT(30), <1>a, HeldPairs
  <1>2. <<g, 2>> \notin Held' /\ <<g, 2>> \notin Held
    BY ZenonT(30), <1>a, HeldPairs
  <1>3. \A h \in Procs \ {g} : /\ <<h, 1>> \in Held' <=> <<h, 1>> \in Held
                               /\ <<h, 2>> \in Held' <=> <<h, 2>> \in Held
    BY HeldPairs
  <1> DEFINE after == Held \ {<<g, 1>>}
  <1>4. \A h \in Procs : /\ <<h, 1>> \in Held' <=> <<h, 1>> \in after
                         /\ <<h, 2>> \in Held' <=> <<h, 2>> \in after
    BY <1>1, <1>2, <1>3
  <1>5. Pairs(after) /\ Pairs(Held')
    BY HeldIsPairs DEF Pairs
  <1> HIDE DEF after
  <1>6. Held' = after
    BY SMTT(30), <1>4, <1>5, SamePairs
  <1> QED BY <1>1, <1>2, <1>6 DEF after

\* Nor is a subquery's.
LEMMA FreedSecond ==
  ASSUME NEW g \in Procs, Height(g) = 2, Height(g)' = 1, g # Listener,
         \A h \in Procs \ {g} : Height(h)' = Height(h)
  PROVE  <<g, 2>> \in Held /\ Held' = Held \ {<<g, 2>>}
  <1>a. 2 <= Height(g) /\ ~(2 <= Height(g)') /\ 1 <= Height(g) /\ 1 <= Height(g)'
    OBVIOUS
  <1>1. <<g, 2>> \in Held /\ <<g, 2>> \notin Held'
    BY ZenonT(30), <1>a, HeldPairs
  <1>2. <<g, 1>> \in Held' <=> <<g, 1>> \in Held
    BY ZenonT(30), <1>a, HeldPairs
  <1>3. \A h \in Procs \ {g} : /\ <<h, 1>> \in Held' <=> <<h, 1>> \in Held
                               /\ <<h, 2>> \in Held' <=> <<h, 2>> \in Held
    BY HeldPairs
  <1> DEFINE after == Held \ {<<g, 2>>}
  <1>4. \A h \in Procs : /\ <<h, 1>> \in Held' <=> <<h, 1>> \in after
                         /\ <<h, 2>> \in Held' <=> <<h, 2>> \in after
    BY <1>1, <1>2, <1>3
  <1>5. Pairs(after) /\ Pairs(Held')
    BY HeldIsPairs DEF Pairs
  <1> HIDE DEF after
  <1>6. Held' = after
    BY <1>4, <1>5, SamePairs
  <1> QED BY SMTT(30), <1>1, <1>6 DEF after

\* A stack that is replaced leaves the others as they are.
LEMMA Replaced ==
  ASSUME Inv, NEW g \in Procs, NEW s, stack' = [stack EXCEPT ![g] = s]
  PROVE  DOMAIN stack' = Procs /\ stack'[g] = s /\ \A h \in Procs \ {g} : stack'[h] = stack[h]
  BY DEF Inv

\* The invariant of the other goroutines, and of g if its stack is well formed.
LEMMA Others ==
  ASSUME Inv, NEW g \in Procs, answers' \in [Procs -> {0, 1}], StackInv(g)',
         \A h \in Procs \ {g} : stack'[h] = stack[h] /\ answers'[h] = answers[h]
  PROVE  \A h \in Procs : StackInv(h)'
  <1> SUFFICES ASSUME NEW h \in Procs, h # g PROVE StackInv(h)'
    OBVIOUS
  <1>1. StackInv(h) /\ stack'[h] = stack[h] /\ answers'[h] = answers[h]
    BY DEF Inv
  <1> QED BY <1>1 DEF StackInv

\* What an activation that goes on does to the stack of its goroutine.
LEMMA ContinueLemma ==
  ASSUME Inv, NEW g \in Procs, stack[g] # <<>>, NEW f, Continue(g, f)
  PROVE  /\ DOMAIN stack' = Procs /\ \A h \in Procs \ {g} : stack'[h] = stack[h]
         /\ \/ Len(stack[g]) = 1 /\ stack[g] = <<Top(g)>> /\ stack'[g] = <<f>>
            \/ Len(stack[g]) = 2 /\ stack[g] = <<stack[g][1], Top(g)>>
               /\ stack'[g] = <<stack[g][1], f>>
  <1> DEFINE s == [stack[g] EXCEPT ![Len(stack[g])] = f]
  <1>1. stack' = [stack EXCEPT ![g] = s]
    BY SMTT(30) DEF Continue
  <1>2. \/ Len(stack[g]) = 1 /\ s = <<f>>
        \/ Len(stack[g]) = 2 /\ s = <<stack[g][1], f>>
    <2>1. CASE \E e \in Good : stack[g] = <<e>>
      BY <2>1
    <2>2. CASE \E e, t \in Good : stack[g] = <<e, t>>
      BY SMTT(30), <2>2
    <2> QED BY ZenonT(30), <2>1, <2>2 DEF Inv, StackInv
  <1> HIDE DEF s
  <1>3. DOMAIN stack' = Procs /\ stack'[g] = s /\ \A h \in Procs \ {g} : stack'[h] = stack[h]
    BY ZenonT(30), <1>1, Replaced
  <1> QED BY <1>2, <1>3, Heights

\* An activation that goes on keeps its slot.
LEMMA GoesLemma ==
  ASSUME Inv, NEW g \in Procs, Goes(g) PROVE Inv' /\ Pooled(g)
  <1>1. PICK f \in Good : /\ f.pc # "dns64" /\ (Len(stack[g]) = 2 => Subquery(f))
                          /\ Len(stack[g]) = 1 => f.client # "trampoline"
                          /\ g = Listener => f.onlyCached /\ f.pc \in OwnLabels
                          /\ stack[g] # <<>> /\ Continue(g, f)
    BY DEF Goes
  <1>2. count' = count /\ answers' = answers /\ answers[g] = 0
    BY <1>1, Heights DEF Continue
  <1>3. /\ DOMAIN stack' = Procs /\ \A h \in Procs \ {g} : stack'[h] = stack[h]
        /\ \/ Len(stack[g]) = 1 /\ stack'[g] = <<f>>
           \/ Len(stack[g]) = 2 /\ stack'[g] = <<stack[g][1], f>>
    BY ZenonT(30), <1>1, ContinueLemma
  <1>4. Len(stack'[g]) = Len(stack[g])
    <2>1. Len(<<f>>) = 1 /\ Len(<<stack[g][1], f>>) = 2
      OBVIOUS
    <2> QED BY ZenonT(30), <1>3, <2>1
  <1>5. Held' = Held
    BY SMTT(30), <1>3, <1>4, HeldSame DEF Height
  <1>6. StackInv(g)'
    <2>1. CASE Len(stack[g]) = 1 /\ stack'[g] = <<f>>
      BY SMTT(30), <1>1, <1>2, <2>1 DEF StackInv
    <2>2. CASE Len(stack[g]) = 2 /\ stack'[g] = <<stack[g][1], f>>
      <3> DEFINE e == stack[g][1]
      <3>1. e \in Good /\ g # Listener /\ e.pc = "dns64" /\ e.client # "trampoline"
        BY <2>2, Heights
      <3>2. stack'[g] = <<e, f>> /\ answers'[g] = 0 /\ Subquery(f) /\ f.pc # "dns64"
        BY <1>1, <1>2, <2>2
      <3> HIDE DEF e
      <3> QED BY ZenonT(30), <3>1, <3>2 DEF StackInv
    <2> QED BY <1>3, <2>1, <2>2
  <1>7. \A h \in Procs : StackInv(h)'
    BY SMTT(30), <1>2, <1>3, <1>6, Others DEF Inv
  <1>8. Inv'
    BY SMTT(30), <1>2, <1>3, <1>5, <1>7 DEF Inv
  <1> QED BY <1>5, <1>8 DEF Pooled

\* An activation that ends gives its slot back, if it had one.
LEMMA EndsLemma ==
  ASSUME Inv, NEW g \in Procs, Ends(g) PROVE Inv' /\ Pooled(g)
  <1>1. Len(stack[g]) = 1 /\ answers[g] = 0 /\ answers \in [Procs -> {0, 1}]
        /\ stack' = [stack EXCEPT ![g] = <<>>]
    BY Heights DEF Ends, Inv
  <1>2. answers' \in [Procs -> {0, 1}] /\ \A h \in Procs \ {g} : answers'[h] = answers[h]
    BY <1>1 DEF Ends
  <1>3. DOMAIN stack' = Procs /\ stack'[g] = <<>> /\ \A h \in Procs \ {g} : stack'[h] = stack[h]
    BY ZenonT(30), <1>1, Replaced
  <1>4. \A h \in Procs : StackInv(h)'
    BY <1>2, <1>3, Others DEF StackInv
  <1>5. CASE g = Listener
    <2>1. Held' = Held /\ count' = count - 0 /\ count \in Nat
      BY <1>1, <1>3, <1>5, HeldSame, HeldFinite DEF Height, Ends, Released, Inv
    <2>2. Inv'
      BY <1>2, <1>3, <1>4, <2>1 DEF Inv
    <2> QED BY <2>1, <2>2 DEF Pooled
  <1>6. CASE g # Listener
    <2>1. /\ <<g, 1>> \in Held /\ <<g, 2>> \notin Held /\ Held' = Held \ {<<g, 1>>}
          /\ count' = count - 1
      BY SMTT(30), <1>1, <1>3, <1>6, FreedFirst DEF Height, Ends, Released
    <2>2. count' = Cardinality(Held')
      BY ZenonT(30), <2>1, HeldFinite, FS_RemoveElement DEF Inv
    <2>3. Inv'
      BY SMTT(30), <1>2, <1>3, <1>4, <2>2 DEF Inv
    <2>4. Pool!Give(g) /\ g \in Goroutines
      BY ZenonT(30), <1>6, <2>1 DEF Pool!Give, Pool!LastToken, Procs
    <2> QED BY <2>3, <2>4 DEF Pooled
  <1> QED BY ZenonT(30), <1>5, <1>6

\* A subquery that ends gives its own slot back.
LEMMA BackLemma ==
  ASSUME Inv, NEW g \in Procs, Back(g) PROVE Inv' /\ Pooled(g)
  <1>1. PICK f \in Good : /\ Len(stack[g]) = 2 /\ f.pc # "dns64" /\ f.client # "trampoline"
                          /\ stack' = [stack EXCEPT ![g] = <<f>>]
                          /\ count' = count - 1 /\ answers' = answers
    BY ZenonT(30) DEF Back
  <1>2. g # Listener /\ answers[g] = 0
    BY <1>1, Heights
  <1>3. DOMAIN stack' = Procs /\ stack'[g] = <<f>> /\ \A h \in Procs \ {g} : stack'[h] = stack[h]
    BY ZenonT(30), <1>1, Replaced
  <1>4. <<g, 2>> \in Held /\ Held' = Held \ {<<g, 2>>}
    BY <1>1, <1>2, <1>3, FreedSecond DEF Height
  <1>5. StackInv(g)'
    BY <1>1, <1>2, <1>3 DEF StackInv
  <1>6. \A h \in Procs : StackInv(h)'
    BY <1>1, <1>3, <1>5, Others DEF Inv
  <1>7. count' = Cardinality(Held')
    BY ZenonT(30), <1>1, <1>4, HeldFinite, FS_RemoveElement DEF Inv
  <1>8. Inv'
    BY <1>1, <1>3, <1>6, <1>7 DEF Inv
  <1>9. Pool!Give(g) /\ g \in Goroutines
    BY ZenonT(30), <1>2, <1>4 DEF Pool!Give, Pool!LastToken, Procs
  <1> QED BY <1>8, <1>9 DEF Pooled

\* A subquery takes a slot beside its caller's.
LEMMA NestsLemma ==
  ASSUME Inv, NEW g \in Procs, Nests(g) PROVE Inv' /\ Pooled(g)
  <1>1. PICK f, s \in Good : /\ Len(stack[g]) = 1 /\ g # Listener
                             /\ f.pc = "dns64" /\ f.client # "trampoline"
                             /\ s.pc = "plugins" /\ Subquery(s)
                             /\ stack' = [stack EXCEPT ![g] = <<f, s>>]
                             /\ SlotFree /\ count' = count + 1 /\ answers' = answers
    BY ZenonT(30) DEF Nests
  <1>2. answers[g] = 0
    BY <1>1, Heights
  <1>3. DOMAIN stack' = Procs /\ stack'[g] = <<f, s>> /\ \A h \in Procs \ {g} : stack'[h] = stack[h]
    BY ZenonT(30), <1>1, Replaced
  <1>4. <<g, 1>> \in Held /\ <<g, 2>> \notin Held /\ Held' = Held \cup {<<g, 2>>}
    BY <1>1, <1>2, <1>3, HeldSecond DEF Height
  <1>5. StackInv(g)'
    BY <1>1, <1>2, <1>3 DEF StackInv
  <1>6. \A h \in Procs : StackInv(h)'
    BY <1>1, <1>3, <1>5, Others DEF Inv
  <1>7. count' = Cardinality(Held')
    BY ZenonT(30), <1>1, <1>4, HeldFinite, FS_AddElement DEF Inv
  <1>8. Inv'
    BY <1>1, <1>3, <1>6, <1>7 DEF Inv
  <1>9. Pool!Take(g) /\ g \in Goroutines
    BY ZenonT(30), <1>1, <1>4, SameCardinality DEF Pool!Take, Pool!NextToken, Procs, SlotFree, Inv
  <1> QED BY <1>8, <1>9 DEF Pooled

\* An accepted client takes a slot, and a query the listener serves takes none.
LEMMA StartsLemma ==
  ASSUME Inv, NEW g \in Procs, Starts(g) PROVE Inv' /\ Pooled(g)
  <1>1. PICK f \in Good : /\ stack[g] = <<>> /\ f.pc \in {"reading", "plugins"} /\ Start(g, f)
                          /\ f.client # "trampoline"
                          /\ g = Listener => f.onlyCached /\ f.pc = "plugins" /\ UNCHANGED count
                          /\ g # Listener => SlotFree /\ count' = count + 1
    BY DEF Starts
  <1>2. /\ Len(stack[g]) = 0 /\ stack' = [stack EXCEPT ![g] = <<f>>]
        /\ answers' = [answers EXCEPT ![g] = 0]
    BY <1>1 DEF Start
  <1>3. /\ answers' \in [Procs -> {0, 1}] /\ answers'[g] = 0
        /\ \A h \in Procs \ {g} : answers'[h] = answers[h]
    BY <1>2 DEF Inv
  <1>4. DOMAIN stack' = Procs /\ stack'[g] = <<f>> /\ \A h \in Procs \ {g} : stack'[h] = stack[h]
    BY ZenonT(30), <1>2, Replaced
  <1>5. StackInv(g)'
    BY <1>1, <1>3, <1>4 DEF StackInv, OwnLabels
  <1>6. \A h \in Procs : StackInv(h)'
    BY <1>3, <1>4, <1>5, Others
  <1>7. CASE g = Listener
    <2>1. Held' = Held /\ count' = count
      BY SMTT(30), <1>1, <1>2, <1>4, <1>7, HeldSame DEF Height
    <2>2. Inv'
      BY <1>3, <1>4, <1>6, <2>1 DEF Inv
    <2> QED BY <2>1, <2>2 DEF Pooled
  <1>8. CASE g # Listener
    <2>1. <<g, 1>> \notin Held /\ Held' = Held \cup {<<g, 1>>} /\ count' = count + 1
      BY SMTT(30), <1>1, <1>2, <1>4, <1>8, HeldFirst DEF Height
    <2>2. count' = Cardinality(Held')
      BY ZenonT(30), <2>1, HeldFinite, FS_AddElement DEF Inv
    <2>3. Inv'
      BY SMTT(30), <1>3, <1>4, <1>6, <2>2 DEF Inv
    <2>4. Pool!Take(g) /\ g \in Goroutines
      BY ZenonT(30), <1>1, <1>8, <2>1, SameCardinality
         DEF Pool!Take, Pool!NextToken, Procs, SlotFree, Inv
    <2> QED BY <2>3, <2>4 DEF Pooled
  <1> QED BY ZenonT(30), <1>7, <1>8
-----------------------------------------------------------------------------
(***************************************************************************)
(* Frames with some of their fields changed.                               *)
(***************************************************************************)
Labels == {"reading", "plugins", "forward", "udp", "udpAgain", "tcp", "doh", "odoh", "keyUpdate",
           "failed", "received", "noAAAA", "dns64", "rejected", "store", "deliver"}

(***************************************************************************)
(* Fields of a frame are changed, and no other.                            *)
(***************************************************************************)
\* The label.
LEMMA SetPc ==
  ASSUME NEW f \in Frame, NEW v \in Labels
  PROVE  LET n == [f EXCEPT !.pc = v] IN
         /\ n \in Frame /\ n.pc = v
         /\ n.client = f.client /\ n.key = f.key /\ n.onlyCached = f.onlyCached /\ n.server = f.server
         /\ n.proto = f.proto /\ n.stale = f.stale /\ n.resp = f.resp
  BY DEF Frame, Labels

\* The response.
LEMMA SetResp ==
  ASSUME NEW f \in Frame, NEW v \in Responses
  PROVE  LET n == [f EXCEPT !.resp = v] IN
         /\ n \in Frame /\ n.resp = v
         /\ n.client = f.client /\ n.key = f.key /\ n.onlyCached = f.onlyCached /\ n.pc = f.pc
         /\ n.server = f.server /\ n.proto = f.proto /\ n.stale = f.stale
  BY DEF Frame, Labels

\* The transport.
LEMMA SetProto ==
  ASSUME NEW f \in Frame, NEW v \in {"udp", "tcp"}
  PROVE  LET n == [f EXCEPT !.proto = v] IN
         /\ n \in Frame /\ n.proto = v
         /\ n.client = f.client /\ n.key = f.key /\ n.onlyCached = f.onlyCached /\ n.pc = f.pc
         /\ n.server = f.server /\ n.stale = f.stale /\ n.resp = f.resp
  BY DEF Frame, Labels

\* The server.
LEMMA SetServer ==
  ASSUME NEW f \in Frame, NEW v \in {"none", "DNSCrypt", "DoH", "ODoH"}
  PROVE  LET n == [f EXCEPT !.server = v] IN
         /\ n \in Frame /\ n.server = v
         /\ n.client = f.client /\ n.key = f.key /\ n.onlyCached = f.onlyCached /\ n.pc = f.pc
         /\ n.proto = f.proto /\ n.stale = f.stale /\ n.resp = f.resp
  BY DEF Frame, Labels

\* Whether an expired entry was found.
LEMMA SetStale ==
  ASSUME NEW f \in Frame, NEW entry
  PROVE  LET n == [f EXCEPT !.stale = (entry = "expired")] IN
         /\ n \in Frame /\ n.client = f.client /\ n.key = f.key /\ n.onlyCached = f.onlyCached
         /\ n.pc = f.pc /\ n.server = f.server /\ n.proto = f.proto /\ n.resp = f.resp
  BY ZenonT(30) DEF Frame

WithPcResp(f, v, r) == [f EXCEPT !.pc = v, !.resp = r]

\* The label and the response.
LEMMA SetPcResp ==
  ASSUME NEW f \in Frame, NEW v \in Labels, NEW r \in Responses
  PROVE  LET n == WithPcResp(f, v, r) IN
         /\ n \in Frame /\ n.pc = v /\ n.resp = r
         /\ n.client = f.client /\ n.key = f.key /\ n.onlyCached = f.onlyCached
         /\ n.server = f.server /\ n.proto = f.proto
  <1> DEFINE m == [f EXCEPT !.pc = v]
  <1>1. WithPcResp(f, v, r) = [m EXCEPT !.resp = r]
    BY DEF WithPcResp
  <1>2. /\ m \in Frame /\ m.pc = v /\ m.client = f.client /\ m.key = f.key
        /\ m.onlyCached = f.onlyCached /\ m.server = f.server /\ m.proto = f.proto
    BY SetPc
  <1> HIDE DEF m
  <1> QED BY <1>1, <1>2, SetResp

\* The label and the transport.
LEMMA SetPcProto ==
  ASSUME NEW f \in Frame, NEW v \in Labels, NEW r \in {"udp", "tcp"}
  PROVE  LET n == [f EXCEPT !.pc = v, !.proto = r] IN
         /\ n \in Frame /\ n.pc = v /\ n.proto = r
         /\ n.client = f.client /\ n.key = f.key /\ n.onlyCached = f.onlyCached
         /\ n.server = f.server /\ n.resp = f.resp
  <1> DEFINE m == [f EXCEPT !.pc = v]
  <1>1. [f EXCEPT !.pc = v, !.proto = r] = [m EXCEPT !.proto = r]
    OBVIOUS
  <1>2. /\ m \in Frame /\ m.pc = v /\ m.client = f.client /\ m.key = f.key
        /\ m.onlyCached = f.onlyCached /\ m.server = f.server /\ m.resp = f.resp
    BY SetPc
  <1> HIDE DEF m
  <1>3. LET n == [m EXCEPT !.proto = r] IN
        /\ n \in Frame /\ n.proto = r /\ n.pc = m.pc /\ n.client = m.client /\ n.key = m.key
        /\ n.onlyCached = m.onlyCached /\ n.server = m.server /\ n.resp = m.resp
    BY ZenonT(30), <1>2, SetProto
  <1> QED BY <1>1, <1>2, <1>3

WithServer(f, v, entry) == [f EXCEPT !.server = v, !.stale = entry = "expired"]

\* The server and what was found in the cache.
LEMMA SetServerStale ==
  ASSUME NEW f \in Frame, NEW v \in {"none", "DNSCrypt", "DoH", "ODoH"}, NEW entry
  PROVE  LET n == WithServer(f, v, entry) IN
         /\ n \in Frame /\ n.server = v /\ n.pc = f.pc /\ n.resp = f.resp
         /\ n.client = f.client /\ n.key = f.key /\ n.onlyCached = f.onlyCached /\ n.proto = f.proto
  <1> DEFINE m == [f EXCEPT !.server = v]
  <1>1. WithServer(f, v, entry) = [m EXCEPT !.stale = (entry = "expired")]
    BY DEF WithServer
  <1>2. /\ m \in Frame /\ m.server = v /\ m.client = f.client /\ m.key = f.key /\ m.pc = f.pc
        /\ m.onlyCached = f.onlyCached /\ m.resp = f.resp /\ m.proto = f.proto
    BY ZenonT(30), SetServer
  <1> HIDE DEF m
  <1> QED BY <1>1, <1>2, SetStale

-----------------------------------------------------------------------------
(***************************************************************************)
(* Every step has a shape.                                                 *)
(***************************************************************************)

\* The moves of an activation take it nearer to its end.
LEMMA Moves ==
  /\ Nearer("plugins", "reading") /\ Nearer("forward", "plugins") /\ Nearer("deliver", "plugins")
  /\ Nearer("deliver", "forward") /\ \A v \in {"udp", "tcp", "doh", "odoh"} : Nearer(v, "plugins")
  /\ \A l \in {"udp", "udpAgain", "tcp", "doh", "odoh"} :
       Nearer("received", l) /\ Nearer("failed", l)
  /\ Nearer("udpAgain", "udp") /\ Nearer("tcp", "udp") /\ Nearer("tcp", "udpAgain")
  /\ Nearer("keyUpdate", "odoh") /\ Nearer("received", "failed")
  /\ \A v \in {"noAAAA", "store", "deliver"} : Nearer(v, "received")
  /\ \A v \in {"dns64", "rejected"} : Nearer(v, "noAAAA")
  /\ \A v \in {"rejected", "store"} : Nearer(v, "dns64")
  /\ Nearer("deliver", "store")
  BY DEF Nearer, Weight

\* A return ends the client's activation, or goes back to DNS64.
LEMMA ReturnLemma ==
  ASSUME Inv, NEW g \in Procs, stack[g] # <<>>, NEW resp, Return(g, resp),
         Outage(Top(g)) /\ Len(stack[g]) = 1 => Top(g).client = "local_doh" /\ resp # "nil"
  PROVE  Shape(g)
  <1>1. CASE Len(stack[g]) = 2 /\ ReturnToDNS64(g, resp) /\ UNCHANGED answers
    <2> DEFINE caller == stack[g][1]
    <2>1. /\ caller \in Good /\ caller \in Frame /\ caller.pc = "dns64" /\ caller.resp \in Responses
          /\ caller.client # "trampoline"
      <3>1. caller \in Good /\ caller.pc = "dns64" /\ caller.client # "trampoline"
        BY <1>1, Heights
      <3> QED BY <3>1 DEF Good, Frame
    <2>2. PICK r \in {caller.resp, "stale"}, pc \in {"rejected", "store"} :
            stack' = [stack EXCEPT ![g] = <<[caller EXCEPT !.pc = pc, !.resp = r]>>]
      BY ZenonT(30), <1>1 DEF ReturnToDNS64
    <2> DEFINE f == WithPcResp(caller, pc, r)
    <2>3. r \in Responses /\ pc \in Labels
      BY <2>1 DEF Responses, Labels
    <2> HIDE DEF caller
    <2>4. /\ f \in Frame /\ f.pc = pc /\ f.resp = r
          /\ f.server = caller.server /\ f.proto = caller.proto
          /\ f.key = caller.key /\ f.client = caller.client
      BY <2>1, <2>3, SetPcResp
    <2>a. Nearer(f.pc, stack[g][1].pc)
      BY ZenonT(30), <2>1, <2>4, Moves DEF caller
    <2>5. count' = count - 1 /\ stack' = [stack EXCEPT ![g] = <<f>>]
      BY ZenonT(30), <1>1, <2>2 DEF ReturnToDNS64, WithPcResp
    <2> HIDE DEF f
    <2>6. f \in Good
      BY <2>1, <2>4 DEF Good, Late
    <2>7. f.pc # "dns64" /\ f.client # "trampoline"
      BY <2>1, <2>4
    <2> QED BY ZenonT(30), <1>1, <2>5, <2>6, <2>7, <2>a DEF Back, Shape
  <1>2. CASE Len(stack[g]) = 1
    <2>1. /\ stack' = [stack EXCEPT ![g] = <<>>] /\ count' = count - Released(g)
          /\ answers' = [answers EXCEPT ![g] = IF Top(g).client = "local_doh" /\ resp # "nil"
                                                 THEN @ + 1 ELSE @]
      BY <1>2 DEF Return
    <2>2. answers \in [Procs -> {0, 1}]
      BY DEF Inv
    <2>3. answers' = answers \/ answers' = [answers EXCEPT ![g] = @ + 1]
      BY ZenonT(30), <2>1, <2>2
    <2>4. Outage(Top(g)) => answers' = [answers EXCEPT ![g] = @ + 1]
      BY ZenonT(30), <1>2, <2>1
    <2> QED BY ZenonT(30), <1>2, <2>1, <2>3, <2>4 DEF Ends, Shape
  <1> QED BY <1>1, <1>2 DEF Return

\* The top of a stack goes on as the same query of the same client.
LEMMA MoveLemma ==
  ASSUME Inv, NEW g \in Procs, stack[g] # <<>>, NEW f \in Good, f.pc # "dns64",
         f.key = Top(g).key, f.client = Top(g).client, f.onlyCached = Top(g).onlyCached,
         g = Listener => f.pc \in OwnLabels, Nearer(f.pc, Top(g).pc), Continue(g, f)
  PROVE  Shape(g)
  <1>1. Len(stack[g]) = 2 => Subquery(f)
    BY Heights DEF Subquery
  <1>2. g = Listener => f.onlyCached
    BY Heights
  <1>3. Len(stack[g]) = 1 => f.client # "trampoline"
    BY Heights
  <1> QED BY <1>1, <1>2, <1>3 DEF Goes, Shape

\* A running goroutine has an activation, the listener runs its own labels,
\* and a response is not stale before the end of an exchange.
LEMMA RunningLemma ==
  ASSUME Inv, NEW g \in Procs, NEW l, Running(g, l)
  PROVE  /\ stack[g] # <<>> /\ Top(g) \in Good /\ Top(g) \in Frame /\ Top(g).pc = l
         /\ l \notin OwnLabels => g # Listener
         /\ l \notin Late => Top(g).resp # "stale"
         /\ l \notin Late /\ l # "failed" => ~Outage(Top(g))
  <1>1. stack[g] # <<>> /\ Top(g) \in Good /\ Top(g).pc = l
    BY Heights DEF Running
  <1>2. Top(g) \in Frame /\ (l \notin Late => Top(g).resp # "stale")
    BY <1>1 DEF Good
  <1>3. l \notin OwnLabels => g # Listener
    BY <1>1, Heights
  <1>4. l \notin Late /\ l # "failed" => ~Outage(Top(g))
    BY ZenonT(30), <1>1, <1>2 DEF Outage
  <1> QED BY ZenonT(30), <1>1, <1>2, <1>3, <1>4

\* The label changes to one where nothing is expected of the response.
LEMMA PcLemma ==
  ASSUME Inv, NEW g \in Procs, stack[g] # <<>>, NEW f \in Good, NEW v \in Labels \ {"dns64", "tcp"},
         f.key = Top(g).key, f.client = Top(g).client, f.onlyCached = Top(g).onlyCached,
         v \in Late => f.pc \in Late, v \in {"doh", "odoh"} => f.server # "DNSCrypt",
         f.resp = "stale" => v \in Late, v \in {"noAAAA", "rejected"} => DNS64 /\ f.key = "AAAA",
         g = Listener => v \in OwnLabels, Nearer(v, Top(g).pc),
         Continue(g, [f EXCEPT !.pc = v])
  PROVE  Shape(g)
  <1> DEFINE n == [f EXCEPT !.pc = v]
  <1>1. f \in Frame
    BY DEF Good
  <1>2. /\ n \in Frame /\ n.pc = v /\ n.key = f.key /\ n.client = f.client
        /\ n.onlyCached = f.onlyCached /\ n.server = f.server /\ n.proto = f.proto /\ n.resp = f.resp
    BY SMTT(30), <1>1, SetPc
  <1> HIDE DEF n
  <1>3. n \in Good
    BY <1>2 DEF Good
  <1>4. Continue(g, n)
    BY DEF n
  <1> QED BY <1>2, <1>3, <1>4, MoveLemma

\* The label and the response change, and a truncated response is that of an
\* exchange over TCP or of another protocol.
LEMMA PcRespLemma ==
  ASSUME Inv, NEW g \in Procs, stack[g] # <<>>, NEW f \in Good, 
         NEW v \in Labels \ {"noAAAA", "dns64", "rejected", "tcp", "doh", "odoh"}, NEW r \in Responses,
         r = "stale" => v \in Late,
         f.key = Top(g).key, f.client = Top(g).client, f.onlyCached = Top(g).onlyCached,
         r = "truncated" => f.proto = "tcp" \/ f.server # "DNSCrypt", g = Listener => v \in OwnLabels,
         Nearer(v, Top(g).pc), Continue(g, [f EXCEPT !.pc = v, !.resp = r])
  PROVE  Shape(g)
  <1> DEFINE n == WithPcResp(f, v, r)
  <1>1. f \in Frame
    BY DEF Good
  <1>2. /\ n \in Frame /\ n.pc = v /\ n.key = f.key /\ n.client = f.client
        /\ n.onlyCached = f.onlyCached /\ n.server = f.server /\ n.proto = f.proto /\ n.resp = r
    BY <1>1, SetPcResp
  <1> HIDE DEF n
  <1>3. n \in Good
    BY <1>2 DEF Good
  <1>4. Continue(g, n)
    BY DEF n, WithPcResp
  <1> QED BY SMTT(30), <1>2, <1>3, <1>4, MoveLemma

\* The query is sent over TCP.
LEMMA TCPLemma ==
  ASSUME Inv, NEW g \in Procs, stack[g] # <<>>, NEW f \in Frame, g # Listener, f.resp # "stale",
         f.key = Top(g).key, f.client = Top(g).client, f.onlyCached = Top(g).onlyCached,
         Nearer("tcp", Top(g).pc), Continue(g, [f EXCEPT !.pc = "tcp", !.proto = "tcp"])
  PROVE  Shape(g)
  <1> DEFINE n == [f EXCEPT !.pc = "tcp", !.proto = "tcp"]
  <1>1. "tcp" \in Labels
    BY SMTT(30) DEF Labels
  <1>2. /\ n \in Frame /\ n.pc = "tcp" /\ n.key = f.key /\ n.client = f.client
        /\ n.onlyCached = f.onlyCached /\ n.proto = "tcp" /\ n.resp = f.resp
    BY ZenonT(30), <1>1, SetPcProto
  <1> HIDE DEF n
  <1>3. n \in Good
    BY <1>2 DEF Good
  <1>4. Continue(g, n)
    BY DEF n
  <1> QED BY SMTT(30), <1>2, <1>3, <1>4, MoveLemma

\* A query is read, or the connection ends.
LEMMA ReadShape == ASSUME Inv, NEW g \in Procs, Read(g) PROVE Shape(g)
  <1>a. "reading" \notin OwnLabels \cup Late \cup {"failed"} /\ Running(g, "reading")
    BY DEF OwnLabels, Late, Read
  <1>1. /\ stack[g] # <<>> /\ Top(g) \in Good /\ g # Listener /\ Top(g).pc = "reading"
        /\ Top(g).resp # "stale" /\ ~Outage(Top(g))
    BY <1>a, RunningLemma
  <1>2. CASE Continue(g, [Top(g) EXCEPT !.pc = "plugins"])
    <2>1. "plugins" \in Labels \ {"dns64", "tcp"} /\ "plugins" \notin Late
          /\ "plugins" \notin {"doh", "odoh"} /\ "plugins" \notin {"noAAAA", "rejected"}
      BY DEF Labels, Late
    <2> QED BY ZenonT(30), <1>1, <1>2, <2>1, Moves, PcLemma
  <1> QED BY ZenonT(30), <1>1, <1>2, ReturnLemma DEF Read

\* A plugin answers.
LEMMA SynthesizeShape == ASSUME Inv, NEW g \in Procs, Synthesize(g) PROVE Shape(g)
  <1>1. stack[g] # <<>> /\ Top(g) \in Good /\ Top(g).pc = "plugins"
    BY RunningLemma DEF Synthesize
  <1>2. Continue(g, [Top(g) EXCEPT !.pc = "deliver", !.resp = "synth"])
    BY DEF Synthesize
  <1>3. /\ "deliver" \in (Labels \ {"noAAAA", "dns64", "rejected", "tcp", "doh", "odoh"}) \cap OwnLabels
        /\ "synth" \in Responses
    BY SMTT(30) DEF Labels, OwnLabels, Responses
  <1> QED BY ZenonT(30), <1>1, <1>2, <1>3, Moves, PcRespLemma

\* The cache answers.
LEMMA CacheHitShape == ASSUME Inv, NEW g \in Procs, CacheHit(g) PROVE Shape(g)
  <1>1. stack[g] # <<>> /\ Top(g) \in Good /\ Top(g).pc = "plugins"
    BY RunningLemma DEF CacheHit
  <1>2. PICK r \in {"cached", "recycled"} : Continue(g, [Top(g) EXCEPT !.pc = "deliver", !.resp = r])
    BY ZenonT(30) DEF CacheHit
  <1>3. /\ "deliver" \in Labels \ {"noAAAA", "dns64", "rejected", "tcp", "doh", "odoh"}
        /\ "deliver" \in OwnLabels /\ r \in Responses /\ r # "truncated" /\ r # "stale"
    BY DEF Labels, OwnLabels, Responses
  <1> QED BY ZenonT(30), <1>1, <1>2, <1>3, Moves, PcRespLemma

\* A forwarding rule takes the query.
LEMMA ForwardStartShape == ASSUME Inv, NEW g \in Procs, ForwardStart(g) PROVE Shape(g)
  <1>a. "plugins" \notin Late /\ Running(g, "plugins")
    BY DEF Late, ForwardStart
  <1>1. stack[g] # <<>> /\ Top(g) \in Good /\ Top(g).pc = "plugins" /\ Top(g).resp # "stale"
    BY <1>a, RunningLemma
  <1>2. Continue(g, [Top(g) EXCEPT !.pc = "forward"])
    BY DEF ForwardStart
  <1>3. "forward" \in Labels \ {"dns64", "tcp"} /\ "forward" \in OwnLabels /\ "forward" \notin Late
        /\ "forward" \notin {"doh", "odoh"} /\ "forward" \notin {"noAAAA", "rejected"}
    BY DEF Labels, OwnLabels, Late
  <1> QED BY ZenonT(30), <1>1, <1>2, <1>3, Moves, PcLemma

\* The forwarder answers, or does not.
LEMMA ForwardShape == ASSUME Inv, NEW g \in Procs, Forward(g) PROVE Shape(g)
  <1>a. "forward" \notin Late \cup {"failed"} /\ Running(g, "forward")
    BY DEF Late, Forward
  <1>1. stack[g] # <<>> /\ Top(g) \in Good /\ Top(g).pc = "forward" /\ ~Outage(Top(g))
    BY <1>a, RunningLemma
  <1>2. CASE Continue(g, [Top(g) EXCEPT !.pc = "deliver", !.resp = "synth"])
    <2>1. /\ "deliver" \in (Labels \ {"noAAAA", "dns64", "rejected", "tcp", "doh", "odoh"}) \cap OwnLabels
          /\ "synth" \in Responses
      BY DEF Labels, OwnLabels, Responses
    <2> QED BY ZenonT(30), <1>1, <1>2, <2>1, Moves, PcRespLemma
  <1> QED BY ZenonT(30), <1>1, <1>2, ReturnLemma DEF Forward

\* A server is asked, but never by the listener.
LEMMA MissShape == ASSUME Inv, NEW g \in Procs, Miss(g) PROVE Shape(g)
  <1>a. "plugins" \notin Late \cup {"failed"}
    BY DEF Late
  <1>b. Running(g, "plugins")
    BY ZenonT(30) DEF Miss
  <1>1. /\ stack[g] # <<>> /\ Top(g) \in Good /\ Top(g).pc = "plugins"
        /\ Top(g).resp # "stale" /\ ~Outage(Top(g))
    BY <1>a, <1>b, RunningLemma
  <1>2. CASE Top(g).onlyCached
    BY ZenonT(30), <1>1, <1>2, ReturnLemma DEF Miss
  <1>3. CASE ~Top(g).onlyCached /\ Return(g, "nil")
    BY ZenonT(30), <1>1, <1>3, ReturnLemma
  <1>4. CASE ~Top(g).onlyCached /\ ~Return(g, "nil")
    <2>1. g # Listener
      BY SMTT(30), <1>1, <1>4, Heights
    <2>2. Top(g) \in Frame
      BY SMTT(30), <1>1 DEF Good
    <2> DEFINE F(server) == WithServer(Top(g), server, cache[Top(g).key])
    <2>3. PICK server \in Servers :
            \/ server = "DNSCrypt" /\ \E e \in Encrypted(F(server)) : Continue(g, e)
            \/ server = "DoH" /\ Continue(g, [F(server) EXCEPT !.pc = "doh"])
            \/ server = "ODoH" /\ Continue(g, [F(server) EXCEPT !.pc = "odoh"])
      BY ZenonT(30), <1>4 DEF Miss, WithServer
    <2> DEFINE f == F(server)
    <2>4. /\ f \in Frame /\ f.pc = "plugins" /\ f.client = Top(g).client /\ f.server = server
          /\ f.resp # "stale" /\ f.key = Top(g).key /\ f.onlyCached = Top(g).onlyCached
      <3>1. server \in {"none", "DNSCrypt", "DoH", "ODoH"}
        BY SMTT(30), QueryPathAssumption
      <3> QED BY SMTT(30), <1>1, <2>2, <3>1, SetServerStale
    <2>5. \/ server = "DNSCrypt" /\ \E e \in Encrypted(f) : Continue(g, e)
          \/ server = "DoH" /\ Continue(g, [f EXCEPT !.pc = "doh"])
          \/ server = "ODoH" /\ Continue(g, [f EXCEPT !.pc = "odoh"])
      BY SMTT(30), <2>3
    <2> HIDE DEF f
    <2>6. f \in Good
      BY <2>4 DEF Good, Late
    <2>7. \/ Continue(g, [f EXCEPT !.pc = "tcp", !.proto = "tcp"])
          \/ \E v \in {"udp", "doh", "odoh"} : /\ v \in {"doh", "odoh"} => server # "DNSCrypt"
                                               /\ Continue(g, [f EXCEPT !.pc = v])
      BY SMTT(30), <2>5 DEF Encrypted
    <2>8. CASE Continue(g, [f EXCEPT !.pc = "tcp", !.proto = "tcp"])
      BY ZenonT(30), <1>1, <2>1, <2>4, <2>8, Moves, TCPLemma
    <2>9. ASSUME NEW v \in {"udp", "doh", "odoh"}, v \in {"doh", "odoh"} => server # "DNSCrypt",
                 Continue(g, [f EXCEPT !.pc = v])
          PROVE  Shape(g)
      <3>1. v \in Labels \ {"dns64", "tcp"} /\ v \notin Late /\ v \notin {"noAAAA", "rejected"}
        BY SMTT(30) DEF Labels, Late
      <3>2. Nearer(v, Top(g).pc)
        BY <1>1, Moves
      <3> QED BY SMTT(30), <1>1, <2>1, <2>4, <2>6, <2>9, <3>1, <3>2, PcLemma
    <2> QED BY SMTT(30), <2>7, <2>8, <2>9
  <1> QED BY SMTT(30), <1>2, <1>3, <1>4

\* A response or a failure ends an exchange, but a truncated response over UDP
\* does not.
LEMMA AnsweredLemma ==
  ASSUME Inv, NEW g \in Procs, stack[g] # <<>>, g # Listener,
         NEW r \in Answered(Top(g)) \cup Failed(Top(g)), Continue(g, r),
         Top(g).pc \in {"udp", "udpAgain", "tcp", "doh", "odoh"},
         r.resp = "truncated" => Top(g).proto = "tcp" \/ Top(g).server # "DNSCrypt"
  PROVE  Shape(g)
  <1>1. Top(g) \in Good /\ Top(g) \in Frame
    BY SMTT(30), Heights DEF Good
  <1>2. PICK v \in {"received", "failed"}, x \in FromServer \cup {"nil", "bad"} :
          r = [Top(g) EXCEPT !.pc = v, !.resp = x]
    BY ZenonT(30) DEF Answered, Failed
  <1>3. v \in Labels \ {"noAAAA", "dns64", "rejected", "tcp", "doh", "odoh"} /\ x \in Responses /\ x # "stale"
    BY DEF Labels, Responses, FromServer
  <1>4. r = WithPcResp(Top(g), v, x)
    BY SMTT(30), <1>2 DEF WithPcResp
  <1>5. r.resp = x
    BY SMTT(30), <1>1, <1>3, <1>4, SetPcResp
  <1>6. Nearer(v, Top(g).pc)
    BY Moves
  <1> QED BY ZenonT(30), <1>1, <1>2, <1>3, <1>5, <1>6, PcRespLemma

\* A stale response takes the place of another.
LEMMA StaleLemma ==
  ASSUME Inv, NEW g \in Procs, stack[g] # <<>>, g # Listener, Top(g).pc \in {"doh", "failed"},
         Continue(g, [Top(g) EXCEPT !.pc = "received", !.resp = "stale"])
  PROVE  Shape(g)
  <1>1. Top(g) \in Good
    BY Heights
  <1>2. /\ "received" \in Labels \ {"noAAAA", "dns64", "rejected", "tcp", "doh", "odoh"}
        /\ "stale" \in Responses /\ "received" \in Late
    BY DEF Labels, Responses, Late
  <1>3. Nearer("received", Top(g).pc)
    BY Moves
  <1> QED BY ZenonT(30), <1>1, <1>2, <1>3, PcRespLemma

\* An exchange over UDP.
LEMMA ExchangeUDPShape == ASSUME Inv, NEW g \in Procs, ExchangeUDP(g) PROVE Shape(g)
  <1>1. /\ stack[g] # <<>> /\ g # Listener /\ Top(g) \in Good /\ Top(g) \in Frame
        /\ Top(g).pc \in {"udp", "udpAgain"} /\ Top(g).resp # "stale" /\ ~Outage(Top(g))
    <2>1. PICK l \in {"udp", "udpAgain"} : Running(g, l)
      BY ZenonT(30) DEF ExchangeUDP
    <2>2. l \notin OwnLabels \cup Late \cup {"failed"}
      BY DEF OwnLabels, Late
    <2> QED BY <2>1, <2>2, RunningLemma
  <1>2. ASSUME NEW f \in Frame, f.key = Top(g).key, f.client = Top(g).client, f.resp # "stale",
               f.onlyCached = Top(g).onlyCached, RetryOverTCP(g, f)
        PROVE  Shape(g)
    <2>1. Nearer("tcp", Top(g).pc)
      BY <1>1, Moves
    <2> QED BY ZenonT(30), <1>1, <1>2, <2>1, TCPLemma, ReturnLemma DEF RetryOverTCP
  <1>3. ASSUME NEW r \in Answered(Top(g)), RetryOverTCP(g, r) PROVE Shape(g)
    <2>1. PICK x \in FromServer : r = WithPcResp(Top(g), "received", x)
      BY ZenonT(30) DEF Answered, WithPcResp
    <2>2. "received" \in Labels /\ x \in Responses /\ x # "stale"
      BY SMTT(30) DEF Labels, Responses, FromServer
    <2>3. /\ r \in Frame /\ r.resp # "stale" /\ r.key = Top(g).key /\ r.client = Top(g).client
          /\ r.onlyCached = Top(g).onlyCached
      BY SMTT(30), <1>1, <2>1, <2>2, SetPcResp
    <2> QED BY SMTT(30), <1>2, <1>3, <2>3
  <1>4. ASSUME NEW r \in Answered(Top(g)), Continue(g, r), r.resp # "truncated" PROVE Shape(g)
    BY SMTT(30), <1>1, <1>4, AnsweredLemma
  <1>5. ASSUME NEW r \in Failed(Top(g)), Continue(g, r) PROVE Shape(g)
    <2>1. PICK x \in {"nil", "bad"} : r = WithPcResp(Top(g), "failed", x)
      BY DEF Failed, WithPcResp
    <2>2. "failed" \in Labels /\ x \in Responses
      BY SMTT(30) DEF Labels, Responses, FromServer
    <2>3. r.resp # "truncated"
      BY SMTT(30), <1>1, <2>1, <2>2, SetPcResp
    <2> QED BY SMTT(30), <1>1, <1>5, <2>3, AnsweredLemma
  <1>6. CASE Top(g).pc = "udp" /\ Continue(g, [Top(g) EXCEPT !.pc = "udpAgain"])
    <2>1. "udpAgain" \in Labels \ {"dns64", "tcp"} /\ "udpAgain" \notin Late
          /\ "udpAgain" \notin {"doh", "odoh"} /\ "udpAgain" \notin {"noAAAA", "rejected"}
      BY SMTT(30) DEF Labels, Late
    <2> QED BY ZenonT(30), <1>1, <1>6, <2>1, Moves, PcLemma
  <1>7. CASE RetryOverTCP(g, Top(g))
    BY SMTT(30), <1>1, <1>2, <1>7
  <1> QED BY SMTT(30), <1>3, <1>4, <1>5, <1>6, <1>7 DEF ExchangeUDP

\* An exchange over TCP.
LEMMA ExchangeTCPShape == ASSUME Inv, NEW g \in Procs, ExchangeTCP(g) PROVE Shape(g)
  <1>1. stack[g] # <<>> /\ g # Listener /\ Top(g) \in Good /\ Top(g).pc = "tcp"
    BY SMTT(30), RunningLemma DEF ExchangeTCP, OwnLabels
  <1>2. Top(g).proto = "tcp"
    BY <1>1 DEF Good
  <1> QED BY SMTT(30), <1>1, <1>2, AnsweredLemma DEF ExchangeTCP

\* An exchange over HTTPS.
LEMMA ExchangeDoHShape == ASSUME Inv, NEW g \in Procs, ExchangeDoH(g) PROVE Shape(g)
  <1>1. /\ stack[g] # <<>> /\ g # Listener /\ Top(g) \in Good /\ Top(g).server # "DNSCrypt"
        /\ Top(g).pc = "doh" /\ Top(g).resp # "stale"
    <2>1. Running(g, "doh")
      BY SMTT(30) DEF ExchangeDoH
    <2> QED BY <2>1, RunningLemma DEF OwnLabels, Late, Good
  <1>2. ASSUME NEW r \in Answered(Top(g)), Continue(g, r) PROVE Shape(g)
    BY SMTT(30), <1>1, <1>2, AnsweredLemma
  <1>3. CASE Continue(g, [Top(g) EXCEPT !.pc = "failed"])
    <2>1. "failed" \in Labels \ {"dns64", "tcp"} /\ "failed" \notin Late \cup {"doh", "odoh", "noAAAA", "rejected"}
      BY SMTT(30) DEF Labels, Late
    <2>2. Nearer("failed", Top(g).pc)
      BY <1>1, Moves
    <2> QED BY SMTT(30), <1>1, <1>3, <2>1, <2>2, PcLemma
  <1>4. CASE Continue(g, [Top(g) EXCEPT !.pc = "received", !.resp = "stale"])
    BY ZenonT(30), <1>1, <1>4, StaleLemma
  <1> QED BY SMTT(30), <1>2, <1>3, <1>4 DEF ExchangeDoH

\* An exchange through a relay.
LEMMA ExchangeODoHShape == ASSUME Inv, NEW g \in Procs, ExchangeODoH(g) PROVE Shape(g)
  <1>1. /\ stack[g] # <<>> /\ g # Listener /\ Top(g) \in Good /\ Top(g).server # "DNSCrypt"
        /\ Top(g).pc = "odoh" /\ Top(g).resp # "stale"
    <2>1. Running(g, "odoh")
      BY SMTT(30) DEF ExchangeODoH
    <2> QED BY <2>1, RunningLemma DEF OwnLabels, Late, Good
  <1>2. ASSUME NEW r \in Answered(Top(g)), Continue(g, r) PROVE Shape(g)
    BY <1>1, <1>2, AnsweredLemma
  <1>3. ASSUME NEW v \in {"failed", "keyUpdate"}, Continue(g, [Top(g) EXCEPT !.pc = v])
        PROVE  Shape(g)
    <2>1. v \in Labels \ {"dns64", "tcp"} /\ v \notin Late \cup {"doh", "odoh", "noAAAA", "rejected"}
      BY DEF Labels, Late
    <2>2. Nearer(v, Top(g).pc)
      BY <1>1, Moves
    <2> QED BY SMTT(30), <1>1, <1>3, <2>1, <2>2, PcLemma
  <1> QED BY SMTT(30), <1>2, <1>3 DEF ExchangeODoH

\* The key of a target is fetched again, and the query is lost.
LEMMA KeyUpdateShape == ASSUME Inv, NEW g \in Procs, KeyUpdate(g) PROVE Shape(g)
  <1>1. "keyUpdate" \notin Late \cup {"failed"} /\ Running(g, "keyUpdate") /\ Return(g, "nil")
    BY DEF Late, KeyUpdate
  <1>2. stack[g] # <<>> /\ ~Outage(Top(g))
    BY <1>1, RunningLemma
  <1> QED BY ZenonT(30), <1>1, <1>2, ReturnLemma

\* A stale response takes the place of a failed exchange's.
LEMMA ServeStaleShape == ASSUME Inv, NEW g \in Procs, ServeStale(g) PROVE Shape(g)
  <1>1. stack[g] # <<>> /\ g # Listener /\ Top(g) \in Good /\ Top(g).pc = "failed"
    BY SMTT(30), RunningLemma DEF ServeStale, OwnLabels
  <1>2. CASE Continue(g, [Top(g) EXCEPT !.pc = "received", !.resp = "stale"])
    BY ZenonT(30), <1>1, <1>2, StaleLemma
  <1>3. CASE ~(Top(g).stale /\ Top(g).server # "ODoH") /\ Return(g, Top(g).resp)
    <2>1. ~Outage(Top(g))
      BY ZenonT(30), <1>3 DEF Outage
    <2> QED BY ZenonT(30), <1>1, <1>3, <2>1, ReturnLemma
  <1> QED BY ZenonT(30), <1>2, <1>3 DEF ServeStale

\* The response plugins.
LEMMA ReceivedShape == ASSUME Inv, NEW g \in Procs, Received(g) PROVE Shape(g)
  <1>1. /\ stack[g] # <<>> /\ g # Listener
        /\ Top(g) \in Good /\ Top(g) \in Frame /\ Top(g).pc = "received"
    BY RunningLemma DEF Received, OwnLabels
  <1>2. ASSUME NEW v \in {"deliver", "store", "noAAAA"},
               v = "noAAAA" => DNS64 /\ Top(g).key = "AAAA",
               Continue(g, [Top(g) EXCEPT !.pc = v])
        PROVE  Shape(g)
    <2>1. /\ v \in Labels \ {"dns64", "tcp"} /\ v \notin {"doh", "odoh", "rejected"} /\ v \in Late
          /\ "received" \in Late
      BY SMTT(30) DEF Labels, Late
    <2>2. Nearer(v, Top(g).pc)
      BY <1>1, Moves
    <2> QED BY ZenonT(30), <1>1, <1>2, <2>1, <2>2, PcLemma
  <1>3. CASE Continue(g, [Top(g) EXCEPT !.pc = "deliver", !.resp = "synth"])
    <2>1. /\ "deliver" \in Labels \ {"noAAAA", "dns64", "rejected", "tcp", "doh", "odoh"}
          /\ "synth" \in Responses
      BY DEF Labels, Responses
    <2>2. Nearer("deliver", Top(g).pc)
      BY <1>1, Moves
    <2> QED BY ZenonT(30), <1>1, <1>3, <2>1, <2>2, PcRespLemma
  <1>4. CASE Top(g).resp = "bad" /\ Return(g, "bad")
    <2>1. Top(g).resp # "stale" /\ Top(g).pc # "failed"
      BY SMTT(30), <1>1, <1>4
    <2>2. ~Outage(Top(g))
      BY ZenonT(30), <2>1 DEF Outage
    <2> QED BY ZenonT(30), <1>1, <1>4, <2>2, ReturnLemma
  <1> QED BY SMTT(30), <1>2, <1>3, <1>4 DEF Received

\* DNS64 takes another slot, or fails.
LEMMA DNS64StartShape == ASSUME Inv, NEW g \in Procs, DNS64Start(g) PROVE Shape(g)
  <1>1. /\ stack[g] # <<>> /\ g # Listener
        /\ Top(g) \in Good /\ Top(g) \in Frame /\ Top(g).pc = "noAAAA"
    BY RunningLemma DEF DNS64Start, OwnLabels
  <1>2. DNS64 /\ Top(g).key = "AAAA"
    BY <1>1 DEF Good
  <1>3. CASE SlotFree
    <2>1. Len(stack[g]) = 1 /\ stack[g][1] = Top(g) /\ Top(g).client # "trampoline"
      BY <1>1, <1>2, Heights DEF Subquery
    <2> DEFINE f == [Top(g) EXCEPT !.pc = "dns64"]
               s == NewFrame("trampoline", "A", FALSE, "plugins")
    <2>2. stack' = [stack EXCEPT ![g] = <<f, s>>] /\ count' = count + 1 /\ answers' = answers
      BY ZenonT(30), <1>3, <2>1 DEF DNS64Start
    <2>3. f \in Frame /\ f.pc = "dns64" /\ f.server = Top(g).server /\ f.proto = Top(g).proto
          /\ f.resp = Top(g).resp /\ f.key = Top(g).key /\ f.client = Top(g).client
      BY ZenonT(30), <1>1, SetPc DEF Labels
    <2>4. s \in Good /\ s.pc = "plugins" /\ Subquery(s)
      BY QueryPathAssumption DEF NewFrame, Frame, Good, Responses, FromServer, Late, Keys,
         Subquery
    <2> HIDE DEF f, s
    <2>5. f \in Good
      BY <1>1, <1>2, <2>3 DEF Good, Late
    <2>6. Nearer(f.pc, Top(g).pc) /\ f.client # "trampoline"
      BY <1>1, <2>1, <2>3, Moves
    <2> QED BY ZenonT(30), <1>1, <1>3, <2>1, <2>2, <2>3, <2>4, <2>5, <2>6 DEF Nests, Shape
  <1>4. CASE ~SlotFree
    <2>1. Continue(g, [Top(g) EXCEPT !.pc = "rejected"])
      BY ZenonT(30), <1>4 DEF DNS64Start
    <2>2. /\ "rejected" \in Labels \ {"dns64", "tcp"} /\ "rejected" \notin {"doh", "odoh"}
          /\ "rejected" \in Late /\ "noAAAA" \in Late
      BY SMTT(30) DEF Labels, Late
    <2>3. Nearer("rejected", Top(g).pc)
      BY <1>1, Moves
    <2> QED BY ZenonT(30), <1>1, <1>2, <2>1, <2>2, <2>3, PcLemma
  <1> QED BY SMTT(30), <1>3, <1>4

\* A response plugin fails.
LEMMA RejectedShape == ASSUME Inv, NEW g \in Procs, Rejected(g) PROVE Shape(g)
  <1>1. Running(g, "rejected") /\ Return(g, Top(g).resp)
    BY DEF Rejected
  <1>2. stack[g] # <<>> /\ Top(g) \in Good /\ Top(g).pc = "rejected"
    BY <1>1, RunningLemma
  <1>3. DNS64 /\ Top(g).key = "AAAA"
    BY <1>2 DEF Good
  <1>4. ~Outage(Top(g))
    BY ZenonT(30), <1>3 DEF Outage
  <1> QED BY ZenonT(30), <1>1, <1>2, <1>4, ReturnLemma

\* The response is cached.
LEMMA StoreShape == ASSUME Inv, NEW g \in Procs, Store(g) PROVE Shape(g)
  <1>1. stack[g] # <<>> /\ g # Listener /\ Top(g) \in Good /\ Top(g).pc = "store"
    BY RunningLemma DEF Store, OwnLabels
  <1>2. Continue(g, [Top(g) EXCEPT !.pc = "deliver"])
    BY DEF Store
  <1>3. /\ "deliver" \in Labels \ {"dns64", "tcp"} /\ "deliver" \notin {"doh", "odoh", "noAAAA", "rejected"}
        /\ "store" \in Late /\ "deliver" \in Late
    BY DEF Labels, Late
  <1> QED BY ZenonT(30), <1>1, <1>2, <1>3, Moves, PcLemma

\* The response is sent to the client, or returned.
LEMMA DeliverShape == ASSUME Inv, NEW g \in Procs, Deliver(g) PROVE Shape(g)
  <1>1. stack[g] # <<>> /\ Top(g).pc = "deliver"
    BY SMTT(30), RunningLemma DEF Deliver
  <1>2. ASSUME Top(g).client \in {"udp", "tcp"}, stack' = [stack EXCEPT ![g] = <<>>],
               count' = count - Released(g), answers' = [answers EXCEPT ![g] = @ + 1]
        PROVE  Shape(g)
    <2>1. Len(stack[g]) = 1
      BY SMTT(30), <1>1, <1>2, Heights DEF Subquery
    <2> QED BY ZenonT(30), <1>2, <2>1 DEF Ends, Shape
  <1>3. CASE Top(g).resp = "truncated" /\ Return(g, "nil")
    <2>1. Top(g).resp # "stale" /\ Top(g).pc # "failed"
      BY SMTT(30), <1>1, <1>3
    <2>2. ~Outage(Top(g))
      BY ZenonT(30), <2>1 DEF Outage
    <2> QED BY ZenonT(30), <1>1, <1>3, <2>2, ReturnLemma
  <1>4. CASE Top(g).client \in {"local_doh", "trampoline"} /\ Return(g, Top(g).resp)
    <2>1. ASSUME Outage(Top(g)), Len(stack[g]) = 1
          PROVE  Top(g).client = "local_doh" /\ Top(g).resp # "nil"
      <3>1. Top(g).client # "trampoline"
        BY SMTT(30), <2>1, Heights
      <3>2. Top(g).resp = "stale" \/ Top(g).pc = "failed"
        BY ZenonT(30), <2>1 DEF Outage
      <3> QED BY SMTT(30), <1>1, <1>4, <3>1, <3>2
    <2> QED BY ZenonT(30), <1>1, <1>4, <2>1, ReturnLemma
  <1> QED BY ZenonT(30), <1>2, <1>3, <1>4 DEF Deliver

\* Every step of a goroutine has a shape.
LEMMA ShapeLemma == ASSUME Inv, NEW g \in Procs, Step(g) PROVE Shape(g)
  BY ZenonT(30), ReadShape, SynthesizeShape, CacheHitShape, ForwardStartShape, ForwardShape,
     MissShape, ExchangeUDPShape, ExchangeTCPShape, ExchangeDoHShape, ExchangeODoHShape,
     KeyUpdateShape, ServeStaleShape, ReceivedShape, DNS64StartShape, RejectedShape, StoreShape,
     DeliverShape
     DEF Step
-----------------------------------------------------------------------------
\* The program starts with no query.
LEMMA InitLemma == Init => Inv
  <1> SUFFICES ASSUME Init PROVE Inv
    OBVIOUS
  <1>1. stack = [g \in Procs |-> <<>>] /\ count = 0 /\ answers = [g \in Procs |-> 0]
    BY DEF Init
  <1>2. \A g \in Procs : StackInv(g)
    BY <1>1 DEF StackInv
  <1>3. Held = {}
    BY <1>1 DEF Held, Frames
  <1> QED BY SMTT(30), <1>1, <1>2, <1>3, FS_EmptySet DEF Inv

\* A query arrives.
LEMMA ArrivalLemma ==
  ASSUME Inv, NEW key \in Keys
  PROVE  /\ UDPListener(key) => \E g \in Procs : Starts(g)
         /\ \A g \in Goroutines, client \in Accepted :
              Accept(g, client, key) => g \in Procs /\ Starts(g)
  <1>1. ASSUME UDPListener(key) PROVE \E g \in Procs : Starts(g)
    <2>1. CASE SlotFree
      <3>1. PICK g \in Goroutines \ Silent :
              stack[g] = <<>> /\ Start(g, NewFrame("udp", key, FALSE, "plugins"))
        BY ZenonT(30), <1>1, <2>1 DEF UDPListener
      <3>2. count' = count + 1 /\ g \in Procs /\ g # Listener
        BY SMTT(30), <1>1, <2>1, QueryPathAssumption DEF UDPListener, Procs
      <3> DEFINE f == NewFrame("udp", key, FALSE, "plugins")
      <3>3. f \in Good /\ f.pc = "plugins" /\ f.client # "trampoline"
        BY QueryPathAssumption DEF NewFrame, Frame, Good, Responses, FromServer, Late
      <3> HIDE DEF f
      <3> QED BY ZenonT(30), <2>1, <3>1, <3>2, <3>3 DEF Starts, f
    <2>2. CASE ~SlotFree
      <3> DEFINE f == NewFrame("udp", key, TRUE, "plugins")
      <3>1. stack[Listener] = <<>> /\ Start(Listener, f) /\ count' = count /\ Listener \in Procs
        BY ZenonT(30), <1>1, <2>2 DEF UDPListener, Procs
      <3>2. f \in Good /\ f.pc = "plugins" /\ f.onlyCached /\ f.client # "trampoline"
        BY SMTT(30), QueryPathAssumption DEF NewFrame, Frame, Good, Responses, FromServer, Late
      <3> HIDE DEF f
      <3> QED BY SMTT(30), <3>1, <3>2 DEF Starts
    <2> QED BY SMTT(30), <2>1, <2>2
  <1>2. ASSUME NEW g \in Goroutines, NEW client \in Accepted, Accept(g, client, key)
        PROVE  g \in Procs /\ Starts(g)
    <2> DEFINE f == NewFrame(client, key, FALSE, "reading")
    <2>1. /\ stack[g] = <<>> /\ Start(g, f) /\ SlotFree /\ count' = count + 1
          /\ g \in Procs /\ g # Listener /\ client \in {"udp", "tcp", "local_doh"}
      BY ZenonT(30), <1>2, QueryPathAssumption DEF Accept, Procs
    <2>2. f \in Good /\ f.pc = "reading" /\ f.client # "trampoline"
      BY <2>1, QueryPathAssumption DEF NewFrame, Frame, Good, Responses, FromServer, Late
    <2> HIDE DEF f
    <2> QED BY <2>1, <2>2 DEF Starts
  <1> QED BY ZenonT(30), <1>1, <1>2

Idles == UNCHANGED <<count, stack, answers>>

\* A step is that of one goroutine, or only changes the cache.
LEMMA NextLemma ==
  ASSUME Inv, [Next]_vars PROVE Idles \/ \E g \in Procs : Shape(g) \/ Starts(g)
  <1>1. ASSUME NEW g \in Procs, Step(g) PROVE Shape(g)
    BY <1>1, ShapeLemma
  <1>2. ASSUME NEW key \in Keys, Expire(key) PROVE Idles
    BY <1>2 DEF Expire, Idles
  <1>3. CASE UNCHANGED vars
    BY <1>3 DEF vars, Idles
  <1>4. ASSUME NEW key \in Keys, UDPListener(key) PROVE \E g \in Procs : Starts(g)
    BY ZenonT(30), <1>4, ArrivalLemma
  <1>5. ASSUME NEW g \in Goroutines, NEW client \in Accepted, NEW key \in Keys, Accept(g, client, key)
        PROVE  g \in Procs /\ Starts(g)
    BY ZenonT(30), <1>5, ArrivalLemma
  <1> QED BY ZenonT(30), <1>1, <1>2, <1>3, <1>4, <1>5 DEF Next

\* Every step keeps the invariant, and is a step of the pool.
LEMMA StepLemma == Inv /\ [Next]_vars => Inv' /\ (Held' = Held \/ \E g \in Procs : Pooled(g))
  <1> SUFFICES ASSUME Inv, [Next]_vars PROVE Inv' /\ (Held' = Held \/ \E g \in Procs : Pooled(g))
    OBVIOUS
  <1>1. ASSUME NEW g \in Procs, Shape(g) \/ Starts(g) PROVE Inv' /\ Pooled(g)
    BY ZenonT(30), <1>1, GoesLemma, EndsLemma, BackLemma, NestsLemma, StartsLemma DEF Shape
  <1>2. CASE Idles
    <2>1. Held' = Held
      BY SMTT(30), <1>2 DEF Idles, Held, Frames
    <2>2. Inv'
      BY SMTT(30), <1>2, <2>1 DEF Idles, Inv, StackInv
    <2> QED BY <2>1, <2>2
  <1> QED BY ZenonT(30), <1>1, <1>2, NextLemma

\* The invariant holds of every behaviour.
THEOREM Invariance == Spec => []Inv
  BY InitLemma, StepLemma, PTL DEF Spec

\* For any number of goroutines and of slots, every activation of
\* processIncomingQuery but the listener's holds exactly one slot
\* (proxy.go:622-642).
THEOREM SlotsExactTheorem == Spec => []SlotsExact
  <1>1. Inv => SlotsExact
    BY SMTT(30) DEF Inv, SlotsExact, Held
  <1> QED BY <1>1, Invariance, PTL

\* For any number of goroutines and of slots, queries and subqueries take and
\* give back the slots of the pool that the loops of ClientsCount implement
\* (proxy.go:622-642).
THEOREM PoolTheorem == Spec => ImplementsPool
  <1>1. Init => Held = {}
    BY DEF Init, Held, Frames
  <1>2. Inv /\ [Next]_vars => [\E w \in Goroutines : Pool!Take(w) \/ Pool!Give(w)]_Held
    BY ZenonT(30), StepLemma DEF Pooled
  <1> QED BY <1>1, <1>2, Invariance, PTL DEF Spec, ImplementsPool, Pool!PoolSpec

\* No more slots are taken than there are.
LEMMA WithinLimit ==
  ASSUME Inv, count <= MaxClients, [Next]_vars PROVE count' <= MaxClients
  <1>1. count \in Nat /\ MaxClients \in Nat
    BY HeldFinite, QueryPathAssumption DEF Inv
  <1>2. CASE Idles
    BY <1>2 DEF Idles
  <1>3. ASSUME NEW g \in Procs, Goes(g) PROVE count' = count
    BY ZenonT(30), <1>3 DEF Goes, Continue
  <1>4. ASSUME NEW g \in Procs, Ends(g) \/ Back(g) PROVE count' = count - 1 \/ count' = count - 0
    BY ZenonT(30), <1>4 DEF Ends, Back, Released
  <1>5. ASSUME NEW g \in Procs, Nests(g) \/ Starts(g)
        PROVE  count' = count \/ (SlotFree /\ count' = count + 1)
    BY ZenonT(30), <1>5 DEF Nests, Starts
  <1>6. ASSUME NEW g \in Procs, Shape(g) \/ Starts(g) PROVE count' <= MaxClients
    <2>1. \/ count' = count \/ count' = count - 1 \/ count' = count - 0
          \/ SlotFree /\ count' = count + 1
      BY ZenonT(30), <1>3, <1>4, <1>5, <1>6 DEF Shape
    <2> QED BY <1>1, <2>1 DEF SlotFree
  <1> QED BY ZenonT(30), <1>2, <1>6, NextLemma

CacheOK == cache \in [Keys -> CacheStates]

\* The cache holds entries of known states.
LEMMA CacheStep ==
  ASSUME Inv, CacheOK, [Next]_vars PROVE CacheOK'
  <1>1. ASSUME NEW g \in Procs, Store(g) PROVE CacheOK'
    <2>1. CASE UNCHANGED cache
      BY <2>1 DEF CacheOK
    <2>2. CASE \E state \in {"fresh", "recycled"} : cache' \in Stored(Top(g).key, state)
      <3>1. PICK state \in {"fresh", "recycled"} : cache' \in Stored(Top(g).key, state)
        BY <2>2
      <3> DEFINE with == [cache EXCEPT ![Top(g).key] = state]
      <3>2. with \in [Keys -> CacheStates]
        BY DEF CacheOK, CacheStates
      <3>3. cache' = with \/ \E k \in Keys : cache' = [with EXCEPT ![k] = "none"]
        BY ZenonT(30), <3>1 DEF Stored
      <3> HIDE DEF with
      <3> QED BY <3>2, <3>3 DEF CacheOK, CacheStates
    <2> QED BY ZenonT(30), <1>1, <2>1, <2>2 DEF Store
  <1>2. ASSUME NEW key \in Keys, Expire(key) PROVE CacheOK'
    BY <1>2 DEF Expire, CacheOK, CacheStates
  <1>3. ASSUME NEW g \in Procs, Step(g), ~Store(g) PROVE UNCHANGED cache
    BY ZenonT(30), <1>3 DEF Step, Read, Synthesize, CacheHit, ForwardStart, Forward, Miss, ExchangeUDP,
       ExchangeTCP, ExchangeDoH, ExchangeODoH, KeyUpdate, ServeStale, Received, DNS64Start, Rejected,
       Deliver
  <1>4. ASSUME NEW key \in Keys, UDPListener(key) PROVE UNCHANGED cache
    BY ZenonT(30), <1>4 DEF UDPListener
  <1>5. ASSUME NEW g \in Goroutines, NEW client \in Accepted, NEW key \in Keys, Accept(g, client, key)
        PROVE  UNCHANGED cache
    BY ZenonT(30), <1>5 DEF Accept
  <1>6. CASE UNCHANGED cache
    BY <1>6 DEF CacheOK
  <1>7. CASE UNCHANGED vars
    BY <1>6, <1>7 DEF vars
  <1> QED BY ZenonT(30), <1>1, <1>2, <1>3, <1>4, <1>5, <1>6, <1>7 DEF Next

\* The counter never leaves its range (so that the zero guard of
\* clientsCountDec is not needed, proxy.go:637), every frame is well formed,
\* and only DNS64 nests activations of processIncomingQuery
\* (plugin_dns64.go:93).
THEOREM TypeTheorem == Spec => []TypeOK
  <1>1. Init => count <= MaxClients /\ CacheOK
    BY QueryPathAssumption DEF Init, CacheOK, CacheStates
  <1>2. Inv /\ count <= MaxClients /\ CacheOK /\ [Next]_vars => (count <= MaxClients)' /\ CacheOK'
    BY WithinLimit, CacheStep
  <1>3. ASSUME Inv, count <= MaxClients, CacheOK PROVE TypeOK
    <2>1. count \in 0..MaxClients
      BY <1>3, HeldFinite, QueryPathAssumption DEF Inv
    <2>2. answers \in [Procs -> Nat]
      BY <1>3 DEF Inv
    <2>3. ASSUME NEW g \in Procs
          PROVE  /\ stack[g] \in Seq(Frame) /\ Len(stack[g]) <= 2
                 /\ Len(stack[g]) = 2 <=> stack[g] # <<>> /\ stack[g][1].pc = "dns64"
      <3>1. CASE stack[g] = <<>>
        BY <3>1
      <3>2. CASE \E f \in Good : stack[g] = <<f>> /\ f.pc # "dns64"
        BY <3>2 DEF Good
      <3>3. CASE \E f, s \in Good : stack[g] = <<f, s>> /\ f.pc = "dns64"
        BY <3>3 DEF Good
      <3> QED BY ZenonT(30), <1>3, <3>1, <3>2, <3>3 DEF Inv, StackInv
    <2> QED BY ZenonT(30), <1>3, <2>1, <2>2, <2>3 DEF TypeOK, CacheOK
  <1> QED BY <1>1, <1>2, <1>3, Invariance, PTL DEF Spec

-----------------------------------------------------------------------------
(***************************************************************************)
(* Every step of a goroutine takes its query nearer to its end.            *)
(***************************************************************************)
RankOf(s) == IF s = <<>> THEN 0
             ELSE 11 * Weight(s[1].pc) + (IF Len(s) = 2 THEN Weight(s[2].pc) ELSE 0)

Rank(g) == RankOf(stack[g])

\* A query that has begun has at most 121 steps left, each step of its
\* goroutine leaves fewer, and no other step gives it more: no retry, fallback
\* or subquery goes round in circles (proxy.go:644-900, plugin_dns64.go:93).
StepsRunOut ==
  /\ []\A g \in Procs : Rank(g) \in 0..121
  /\ [][\A g \in Procs : /\ Step(g) => Rank(g)' < Rank(g)
                         /\ stack[g] # <<>> => Rank(g)' <= Rank(g)]_vars

\* Weights are numbers from 1 to 11.
LEMMA Weights == \A f \in Good : Weight(f.pc) \in 1..11
  <1>1. \A l \in Labels : Weight(l) \in 1..11
    BY DEF Labels, Weight
  <1>2. \A f \in Good : f.pc \in Labels
    BY DEF Good, Frame, Labels
  <1> QED BY ZenonT(30), <1>1, <1>2

\* The rank of a client's activation.
LEMMA RankOne == \A f \in Good : RankOf(<<f>>) = 11 * Weight(f.pc)
  <1> SUFFICES ASSUME NEW f \in Good PROVE RankOf(<<f>>) = 11 * Weight(f.pc)
    OBVIOUS
  <1>1. <<f>> # <<>> /\ <<f>>[1] = f /\ Len(<<f>>) # 2
    OBVIOUS
  <1>2. RankOf(<<f>>) = 11 * Weight(f.pc) + 0
    BY ZenonT(30), <1>1 DEF RankOf
  <1> QED BY <1>2, Weights

\* The rank of an activation and its subquery.
LEMMA RankTwo == \A f, s \in Good : RankOf(<<f, s>>) = 11 * Weight(f.pc) + Weight(s.pc)
  <1> SUFFICES ASSUME NEW f \in Good, NEW s \in Good
               PROVE  RankOf(<<f, s>>) = 11 * Weight(f.pc) + Weight(s.pc)
    OBVIOUS
  <1>1. <<f, s>> # <<>> /\ <<f, s>>[1] = f /\ <<f, s>>[2] = s /\ Len(<<f, s>>) = 2
    OBVIOUS
  <1> QED BY ZenonT(30), <1>1 DEF RankOf

\* The ranks of well-formed stacks.
LEMMA RankRange ==
  ASSUME NEW s, \/ s = <<>> \/ \E f \in Good : s = <<f>>
                \/ \E f, t \in Good : s = <<f, t>> /\ f.pc = "dns64"
  PROVE  RankOf(s) \in 0..121
  <1>1. CASE s = <<>>
    BY <1>1 DEF RankOf
  <1>2. CASE \E f \in Good : s = <<f>>
    <2>1. PICK f \in Good : s = <<f>>
      BY <1>2
    <2>2. Weight(f.pc) \in 1..11
      BY Weights
    <2>3. RankOf(s) = 11 * Weight(f.pc)
      BY <2>1, RankOne
    <2> DEFINE w == Weight(f.pc)
    <2> HIDE DEF w
    <2>4. w \in 1..11 /\ RankOf(s) = 11 * w
      BY <2>2, <2>3 DEF w
    <2> QED BY <2>4
  <1>3. CASE \E f, t \in Good : s = <<f, t>> /\ f.pc = "dns64"
    <2>1. PICK f, t \in Good : s = <<f, t>> /\ f.pc = "dns64"
      BY <1>3
    <2>2. Weight(f.pc) = 3
      BY <2>1 DEF Weight
    <2>3. Weight(t.pc) \in 1..11
      BY Weights
    <2>4. RankOf(s) = 11 * Weight(f.pc) + Weight(t.pc)
      BY <2>1, RankTwo
    <2> DEFINE w == Weight(t.pc)
    <2> HIDE DEF w
    <2>5. w \in 1..11 /\ RankOf(s) = 33 + w
      BY <2>2, <2>3, <2>4 DEF w
    <2> QED BY <2>5
  <1> QED BY <1>1, <1>2, <1>3

\* A step of a goroutine lowers its rank.
LEMMA RankStep ==
  ASSUME Inv, NEW g \in Procs, Shape(g) PROVE Rank(g)' < Rank(g)
  <1>1. CASE Goes(g)
    <2>1. PICK f \in Good : Nearer(f.pc, Top(g).pc) /\ stack[g] # <<>> /\ Continue(g, f)
      BY ZenonT(30), <1>1 DEF Goes
    <2> DEFINE t == Top(g)
               e == stack[g][1]
    <2>2. \/ Len(stack[g]) = 1 /\ stack[g] = <<t>> /\ stack'[g] = <<f>>
          \/ Len(stack[g]) = 2 /\ stack[g] = <<e, t>> /\ stack'[g] = <<e, f>>
      BY ZenonT(30), <2>1, ContinueLemma
    <2>3. t \in Good /\ (Len(stack[g]) = 2 => e \in Good)
      BY <2>1, Heights
    <2>4. Weight(f.pc) \in 1..11 /\ Weight(t.pc) \in 1..11 /\ Weight(f.pc) < Weight(t.pc)
      BY <2>1, <2>3, Weights DEF Nearer
    <2> HIDE DEF e, t
    <2>5. CASE Len(stack[g]) = 1 /\ stack[g] = <<t>> /\ stack'[g] = <<f>>
      <3>1. Rank(g)' = 11 * Weight(f.pc) /\ Rank(g) = 11 * Weight(t.pc)
        BY ZenonT(30), <2>3, <2>5, RankOne DEF Rank
      <3> QED BY <2>4, <3>1
    <2>6. CASE Len(stack[g]) = 2 /\ stack[g] = <<e, t>> /\ stack'[g] = <<e, f>>
      <3>1. /\ Rank(g)' = 11 * Weight(e.pc) + Weight(f.pc)
            /\ Rank(g) = 11 * Weight(e.pc) + Weight(t.pc)
        BY ZenonT(30), <2>3, <2>6, RankTwo DEF Rank
      <3>2. Weight(e.pc) \in 1..11
        BY <2>3, <2>6, Weights
      <3> QED BY <2>4, <3>1, <3>2
    <2> QED BY <2>2, <2>5, <2>6
  <1>2. CASE Ends(g)
    <2>1. stack'[g] = <<>> /\ Len(stack[g]) = 1
      BY ZenonT(30), <1>2, Replaced DEF Ends
    <2>2. PICK t \in Good : stack[g] = <<t>>
      BY <2>1, Heights
    <2>3. Rank(g)' = 0 /\ Rank(g) = 11 * Weight(t.pc)
      BY ZenonT(30), <2>1, <2>2, RankOne DEF Rank, RankOf
    <2>4. Weight(t.pc) \in 1..11
      BY Weights
    <2> QED BY <2>3, <2>4
  <1>3. CASE Back(g)
    <2>1. PICK f \in Good : /\ Len(stack[g]) = 2 /\ Nearer(f.pc, stack[g][1].pc)
                            /\ stack' = [stack EXCEPT ![g] = <<f>>]
      BY ZenonT(30), <1>3 DEF Back
    <2>2. PICK e, t \in Good : stack[g] = <<e, t>> /\ e = stack[g][1]
      BY <2>1, Heights
    <2>3. stack'[g] = <<f>>
      BY ZenonT(30), <2>1, Replaced
    <2>4. Rank(g)' = 11 * Weight(f.pc) /\ Rank(g) = 11 * Weight(e.pc) + Weight(t.pc)
      BY ZenonT(30), <2>2, <2>3, RankOne, RankTwo DEF Rank
    <2>5. Weight(e.pc) \in 1..11 /\ Weight(f.pc) \in 1..11 /\ Weight(t.pc) \in 1..11
          /\ Weight(f.pc) < Weight(e.pc)
      BY <2>1, <2>2, Weights DEF Nearer
    <2> QED BY <2>4, <2>5
  <1>4. CASE Nests(g)
    <2>1. PICK f, s \in Good : /\ Len(stack[g]) = 1 /\ Nearer(f.pc, Top(g).pc) /\ s.pc = "plugins"
                               /\ stack' = [stack EXCEPT ![g] = <<f, s>>]
      BY ZenonT(30), <1>4 DEF Nests
    <2>2. PICK t \in Good : stack[g] = <<t>> /\ t = Top(g)
      BY <2>1, Heights
    <2>3. stack'[g] = <<f, s>>
      BY ZenonT(30), <2>1, Replaced
    <2>4. Rank(g)' = 11 * Weight(f.pc) + Weight(s.pc) /\ Rank(g) = 11 * Weight(t.pc)
      BY ZenonT(30), <2>2, <2>3, RankOne, RankTwo DEF Rank
    <2>5. Weight(s.pc) = 10
      BY <2>1 DEF Weight
    <2>6. Weight(f.pc) \in 1..11 /\ Weight(t.pc) \in 1..11 /\ Weight(f.pc) < Weight(t.pc)
      BY <2>1, <2>2, Weights DEF Nearer
    <2> QED BY <2>4, <2>5, <2>6
  <1> QED BY ZenonT(30), <1>1, <1>2, <1>3, <1>4 DEF Shape

\* Whichever server and transport is used, whatever fails and however many
\* queries there are, no query goes round in circles: with the goroutines
\* running, this is why every query ends.
THEOREM StepsRunOutTheorem == Spec => StepsRunOut
  <1>1. Inv => \A g \in Procs : Rank(g) \in 0..121
    BY ZenonT(30), RankRange DEF Inv, StackInv, Rank
  <1>2. ASSUME Inv, [Next]_vars
        PROVE  \A g \in Procs : /\ Step(g) => Rank(g)' < Rank(g)
                                /\ stack[g] # <<>> => Rank(g)' <= Rank(g)
    <2> SUFFICES ASSUME NEW g \in Procs
                 PROVE  /\ Step(g) => Rank(g)' < Rank(g)
                        /\ stack[g] # <<>> => Rank(g)' <= Rank(g)
      OBVIOUS
    <2>1. Step(g) => Rank(g)' < Rank(g)
      BY ZenonT(30), <1>2, ShapeLemma, RankStep
    <2>2. Rank(g) \in Nat /\ Rank(g)' \in Nat
      <3>1. Rank(g) \in 0..121
        BY <1>1, <1>2
      <3>2. StackInv(g)'
        BY <1>2, StepLemma DEF Inv
      <3>3. Rank(g)' \in 0..121
        BY ZenonT(30), <3>2, RankRange DEF StackInv, Rank
      <3> QED BY <3>1, <3>3
    <2>3. ASSUME NEW h \in Procs, Shape(h) \/ Starts(h), stack[g] # <<>>
          PROVE  Rank(g)' <= Rank(g)
      <3>1. CASE h = g
        <4>1. Shape(g)
          BY ZenonT(30), <2>3, <3>1 DEF Starts
        <4>2. Rank(g)' < Rank(g)
          BY <1>2, <4>1, RankStep
        <4> QED BY <2>2, <4>2
      <3>2. CASE h # g
        <4>1. \E s : stack' = [stack EXCEPT ![h] = s]
          BY ZenonT(30), <2>3 DEF Shape, Goes, Ends, Back, Nests, Continue, Starts, Start
        <4>2. stack'[g] = stack[g]
          BY ZenonT(30), <1>2, <3>2, <4>1, Replaced
        <4>3. Rank(g)' = Rank(g)
          BY <4>2 DEF Rank
        <4> QED BY <2>2, <4>3
      <3> QED BY <3>1, <3>2
    <2>4. CASE Idles
      <3>1. Rank(g)' = Rank(g)
        BY <2>4 DEF Idles, Rank
      <3> QED BY <2>1, <2>2, <3>1
    <2> QED BY ZenonT(30), <1>2, <2>1, <2>3, <2>4, NextLemma
  <1> QED BY <1>1, <1>2, Invariance, PTL DEF Spec, StepsRunOut

\* No client gets two answers (proxy.go:872-900, local-doh.go:67-96).
THEOREM OneAnswerTheorem == Spec => []OneAnswer
  <1>1. Inv => OneAnswer
    BY DEF Inv, OneAnswer
  <1> QED BY <1>1, Invariance, PTL

\* What a DNSCrypt server truncated over UDP is asked for again over TCP
\* (proxy.go:708).
THEOREM TruncatedTheorem == Spec => []TruncatedOnlyOverTCP
  <1>1. ASSUME Inv PROVE TruncatedOnlyOverTCP
    <2> SUFFICES ASSUME NEW g \in Procs, NEW i \in {1, 2}, i <= Len(stack[g])
                 PROVE  stack[g][i] \in Good
      BY SMTT(30) DEF TruncatedOnlyOverTCP, Frames, Good, Late
    <2>1. CASE Len(stack[g]) = 1
      BY SMTT(30), <1>1, <2>1, Heights
    <2>2. CASE Len(stack[g]) = 2
      BY SMTT(30), <1>1, <2>2, Heights
    <2> QED BY SMTT(30), <1>1, <2>1, <2>2, Heights
  <1> QED BY <1>1, Invariance, PTL

\* What OutageServesStale says of one goroutine.
Ending(g) == stack[g] # <<>> /\ stack'[g] = <<>> /\ Outage(stack[g][1]) => answers'[g] = 1

\* A step of a goroutine that ends its query.
LEMMA EndingLemma ==
  ASSUME Inv, NEW g \in Procs, Shape(g) PROVE Ending(g)
  <1>1. CASE Ends(g)
    <2>1. Len(stack[g]) = 1 /\ (Outage(Top(g)) => answers' = [answers EXCEPT ![g] = @ + 1])
      BY ZenonT(30), <1>1 DEF Ends
    <2>2. stack[g][1] = Top(g) /\ answers[g] = 0 /\ answers \in [Procs -> {0, 1}]
      BY <2>1, Heights DEF Inv
    <2>3. Outage(Top(g)) => answers'[g] = 1
      BY <2>1, <2>2
    <2> QED BY ZenonT(30), <2>2, <2>3 DEF Ending
  <1>2. CASE Goes(g)
    <2>1. PICK f : stack[g] # <<>> /\ Continue(g, f)
      BY ZenonT(30), <1>2 DEF Goes
    <2>2. stack'[g] = <<f>> \/ stack'[g] = <<stack[g][1], f>>
      BY ZenonT(30), <2>1, ContinueLemma
    <2>3. stack'[g] # <<>>
      BY <2>2
    <2> QED BY ZenonT(30), <2>3 DEF Ending
  <1>3. CASE Back(g) \/ Nests(g)
    <2>1. PICK f, s : \/ stack' = [stack EXCEPT ![g] = <<f>>]
                      \/ stack' = [stack EXCEPT ![g] = <<f, s>>]
      BY ZenonT(30), <1>3 DEF Back, Nests
    <2>2. stack'[g] = <<f>> \/ stack'[g] = <<f, s>>
      BY ZenonT(30), <2>1, Replaced
    <2>3. stack'[g] # <<>>
      BY <2>2
    <2> QED BY ZenonT(30), <2>3 DEF Ending
  <1> QED BY ZenonT(30), <1>1, <1>2, <1>3 DEF Shape

\* Whatever the number of goroutines, of slots and of cache entries and
\* whichever transports and servers are used, a client whose exchange failed
\* while the cache had an expired entry gets an answer, unless DNS64 looks
\* for other records (proxy.go:727, 750).
THEOREM OutageTheorem == Spec => OutageServesStale
  <1>1. ASSUME Inv, [Next]_vars, NEW g \in Procs PROVE Ending(g)
    <2>1. CASE stack'[g] = stack[g]
      BY ZenonT(30), <2>1 DEF Ending
    <2>2. CASE Idles
      BY <2>1, <2>2 DEF Idles
    <2>3. ASSUME NEW h \in Procs, Shape(h) \/ Starts(h) PROVE Ending(g)
      <3>1. CASE h = g /\ Shape(g)
        BY ZenonT(30), <1>1, <3>1, EndingLemma
      <3>2. CASE h = g /\ Starts(g)
        BY ZenonT(30), <3>2 DEF Starts, Ending
      <3>3. CASE h # g
        <4>1. \E s : stack' = [stack EXCEPT ![h] = s]
          BY ZenonT(30), <2>3 DEF Shape, Goes, Ends, Back, Nests, Continue, Starts, Start
        <4>2. stack'[g] = stack[g]
          BY ZenonT(30), <1>1, <3>3, <4>1, Replaced
        <4> QED BY <2>1, <4>2
      <3> QED BY ZenonT(30), <2>3, <3>1, <3>2, <3>3
    <2> QED BY ZenonT(30), <1>1, <2>2, <2>3, NextLemma
  <1>2. Inv /\ [Next]_vars
        => [\A g \in Procs :
              LET f == stack[g][1] IN
              /\ stack[g] # <<>> /\ stack'[g] = <<>>
              /\ f.stale /\ (f.pc = "failed" \/ f.resp = "stale")
              /\ f.server # "ODoH" /\ ~(DNS64 /\ f.key = "AAAA")
              => answers'[g] = 1]_vars
    <2> SUFFICES ASSUME Inv, [Next]_vars, NEW g \in Procs
                 PROVE  stack[g] # <<>> /\ stack'[g] = <<>> /\ Outage(stack[g][1]) => answers'[g] = 1
      BY ZenonT(30) DEF Outage
    <2> QED BY ZenonT(30), <1>1 DEF Ending
  <1> QED BY <1>2, Invariance, PTL DEF Spec, OutageServesStale
=============================================================================
