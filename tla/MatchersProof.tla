--------------------------- MODULE MatchersProof ---------------------------
(***************************************************************************)
(* The rules for names and addresses reject what they are documented to    *)
(* reject, for all names and all patterns without classes of characters    *)
(* and escapes.                                                            *)
(*                                                                         *)
(* NamesInv says that each table has the texts of the patterns of its      *)
(* type.  What remains are facts about strings: what a glob with stars at  *)
(* its ends matches, found by induction on the number of characters that   *)
(* were compared, and where a suffix of a reversed name begins.            *)
(***************************************************************************)
EXTENDS Matchers, NaturalsInduction, WellFoundedInduction, TLAPS

\* The relation of the library's theorem on well-founded sets.
Below == {ss \in Nat \X Nat : ss[1] < ss[2]}

\* A non-empty set of natural numbers has a least element.
LEMMA LeastElement ==
  ASSUME NEW T, T \subseteq Nat, T # {}
  PROVE  \E x \in T : \A y \in T : x <= y
<1>1. IsWellFoundedOn(Below, Nat)
  BY NatLessThanWellFounded DEF OpToRel, Below
<1>2. PICK x \in T : \A y \in T : ~(<<y, x>> \in Below)
  BY <1>1, WFMin, Zenon
<1>3. \A y \in T : ~(y < x)
  BY ZenonT(30), <1>2 DEF Below
<1> QED BY <1>3

-----------------------------------------------------------------------------
(***************************************************************************)
(* What filepath.Match computes                                            *)
(***************************************************************************)
Strings == Seq(STRING)

\* The step of Reached, as a function of what was reached before.
Extended(p, s, o, k, before) ==
  IF p[k] = Star
    THEN {j \in 0..Len(s) : \E i \in before : i <= j /\ \A h \in (i + 1)..j : s[h] \notin o}
    ELSE {j \in 1..Len(s) : j - 1 \in before /\ (p[k] = s[j] \/ (p[k] = AnyChar /\ s[j] \notin o))}

Defines(f, p, s, o, m) == \A k \in 0..m : f[k] = IF k = 0 THEN {0} ELSE Extended(p, s, o, k, f[k - 1])

\* There is a function that satisfies the recursive definition, up to any m.
LEMMA ReachedExists ==
  ASSUME NEW p \in Strings, NEW s \in Strings, NEW o
  PROVE  \A m \in 0..Len(p) : \E f : f = [k \in 0..m |-> f[k]] /\ Defines(f, p, s, o, m)
<1> DEFINE Good(m) == \E f : f = [k \in 0..m |-> f[k]] /\ Defines(f, p, s, o, m)
           Missing == {m \in 0..Len(p) : ~Good(m)}
<1> SUFFICES ASSUME Missing # {} PROVE FALSE
  OBVIOUS
<1>0. Missing \subseteq Nat
  BY DEF Strings
<1> HIDE DEF Missing
<1>1. PICK m \in Missing : \A y \in Missing : m <= y
  BY ZenonT(30), <1>0, LeastElement
<1> USE DEF Missing
<1>2. m # 0
  <2> SUFFICES Good(0)
    BY Zenon, <1>1
  <2> DEFINE f == [k \in 0..0 |-> {0}]
  <2>1. f = [k \in 0..0 |-> f[k]] /\ Defines(f, p, s, o, 0)
    BY DEF Defines
  <2> QED BY <2>1
<1>3. Good(m - 1)
  BY <1>0, <1>1, <1>2
<1>4. PICK f : f = [k \in 0..(m - 1) |-> f[k]] /\ Defines(f, p, s, o, m - 1)
  BY <1>3
<1> DEFINE g == [k \in 0..m |-> IF k = m THEN Extended(p, s, o, m, f[m - 1]) ELSE f[k]]
<1>5. \A k \in 0..m : g[k] = IF k = 0 THEN {0} ELSE Extended(p, s, o, k, g[k - 1])
  <2> TAKE k \in 0..m
  <2>0. m \in Nat
    BY <1>0
  <2>1. CASE k = m
    BY <2>0, <2>1, <1>2
  <2>2. CASE k # m
    <3>1. k \in 0..(m - 1)
      BY <2>0, <2>2
    <3>2. g[k] = f[k]
      BY <2>2
    <3>3. k # 0 => g[k - 1] = f[k - 1]
      BY <3>1
    <3> QED BY Zenon, <1>4, <3>1, <3>2, <3>3 DEF Defines
  <2> QED BY <2>1, <2>2
<1>6. g = [k \in 0..m |-> g[k]]
  OBVIOUS
<1>7. Defines(g, p, s, o, m)
  BY Zenon, <1>5 DEF Defines
<1> QED BY <1>1, <1>6, <1>7

\* What Reached computes.
LEMMA ReachedIs ==
  ASSUME NEW p \in Strings, NEW s \in Strings, NEW o
  PROVE  /\ Reached(p, s, o)[0] = {0}
         /\ \A k \in 1..Len(p) : Reached(p, s, o)[k] = Extended(p, s, o, k, Reached(p, s, o)[k - 1])
<1> DEFINE R == Reached(p, s, o)
           P(f) == f = [k \in 0..Len(p) |-> IF k = 0 THEN {0} ELSE Extended(p, s, o, k, f[k - 1])]
<1>1. R = CHOOSE f : P(f)
  BY DEF Reached, Extended
<1>2. \E f : P(f)
  <2>1. PICK f : f = [k \in 0..Len(p) |-> f[k]] /\ Defines(f, p, s, o, Len(p))
    <3>1. Len(p) \in 0..Len(p)
      BY DEF Strings
    <3> QED BY Zenon, <3>1, ReachedExists
  <2>2. \A k \in 0..Len(p) : f[k] = IF k = 0 THEN {0} ELSE Extended(p, s, o, k, f[k - 1])
    BY <2>1 DEF Defines
  <2>3. P(f)
    BY Zenon, <2>1, <2>2
  <2> QED BY <2>3
<1> HIDE DEF R
<1>3. P(R)
  <2> HIDE DEF P
  <2> QED BY <1>1, <1>2
<1>4. Len(p) \in Nat
  BY DEF Strings
<1>5. R[0] = {0}
  BY <1>3, <1>4
<1>6. ASSUME NEW k \in 1..Len(p) PROVE R[k] = Extended(p, s, o, k, R[k - 1])
  <2>1. k \in 0..Len(p) /\ k # 0
    BY <1>4
  <2> QED BY <1>3, <2>1, Zenon
<1> QED BY <1>5, <1>6 DEF R

\* Whatever is reached is a length of a prefix.
LEMMA ReachedType ==
  ASSUME NEW p \in Strings, NEW s \in Strings, NEW o, NEW k \in 0..Len(p)
  PROVE  Reached(p, s, o)[k] \subseteq 0..Len(s)
<1>1. CASE k = 0
  BY <1>1, ReachedIs DEF Strings
<1>2. CASE k # 0
  <2>1. Reached(p, s, o)[k] = Extended(p, s, o, k, Reached(p, s, o)[k - 1])
    BY <1>2, ReachedIs DEF Strings
  <2> QED BY <2>1 DEF Extended, Strings
<1> QED BY <1>1, <1>2

\* The more characters wildcards stand for, the more is reached.
LEMMA ReachedMonotone ==
  ASSUME NEW p \in Strings, NEW s \in Strings, NEW o, NEW u,
         \A j \in 1..Len(s) : s[j] \in u => s[j] \in o
  PROVE  \A k \in 0..Len(p) : Reached(p, s, o)[k] \subseteq Reached(p, s, u)[k]
<1> DEFINE R == Reached(p, s, o)
           T == Reached(p, s, u)
           Missing == {k \in 0..Len(p) : ~(R[k] \subseteq T[k])}
<1> SUFFICES ASSUME Missing # {} PROVE FALSE
  OBVIOUS
<1>0. Missing \subseteq Nat /\ Len(p) \in Nat /\ Len(s) \in Nat
  BY DEF Strings
<1> HIDE DEF Missing
<1>1. PICK k \in Missing : \A y \in Missing : k <= y
  BY ZenonT(30), <1>0, LeastElement
<1>2. /\ k \in 0..Len(p) /\ ~(R[k] \subseteq T[k])
      /\ \A y \in 0..Len(p) : ~(R[y] \subseteq T[y]) => k <= y
  BY <1>1 DEF Missing
<1>3. k \in 1..Len(p)
  <2>1. R[0] = T[0]
    BY ReachedIs
  <2> HIDE DEF R, T
  <2> QED BY <1>2, <2>1
<1>4. /\ R[k] = Extended(p, s, o, k, R[k - 1])
      /\ T[k] = Extended(p, s, u, k, T[k - 1])
  BY <1>3, ReachedIs
<1>5. k - 1 \in 0..Len(p) /\ ~(k <= k - 1)
  BY <1>0, <1>3
<1>6. R[k - 1] \subseteq 0..Len(s)
  BY <1>5, ReachedType
<1> HIDE DEF R, T
<1>7. R[k - 1] \subseteq T[k - 1]
  BY <1>2, <1>5
<1>8. ASSUME NEW j \in R[k] PROVE j \in T[k]
  <2>1. CASE p[k] = Star
    <3>1. j \in 0..Len(s) /\ \E i \in R[k - 1] : i <= j /\ \A h \in (i + 1)..j : s[h] \notin o
      BY ZenonT(30), <1>4, <1>8, <2>1 DEF Extended
    <3>2. PICK i \in R[k - 1] : i <= j /\ \A h \in (i + 1)..j : s[h] \notin o
      BY <3>1
    <3>3. i \in 0..Len(s) /\ j \in 0..Len(s)
      BY <1>6, <3>1, <3>2
    <3>4. ASSUME NEW h \in (i + 1)..j PROVE s[h] \notin u
      <4>1. h \in 1..Len(s)
        BY <1>0, <3>3
      <4> QED BY <3>2, <4>1
    <3> QED BY ZenonT(30), <1>4, <1>7, <2>1, <3>2, <3>3, <3>4 DEF Extended
  <2>2. CASE p[k] # Star
    <3>1. /\ j \in 1..Len(s) /\ j - 1 \in R[k - 1]
          /\ p[k] = s[j] \/ (p[k] = AnyChar /\ s[j] \notin o)
      BY ZenonT(30), <1>4, <1>8, <2>2 DEF Extended
    <3>2. s[j] \notin o => s[j] \notin u
      BY <3>1
    <3> QED BY ZenonT(30), <1>4, <1>7, <2>2, <3>1, <3>2 DEF Extended
  <2> QED BY <2>1, <2>2
<1> QED BY <1>2, <1>8

\* Characters other than stars match themselves, one after the other.
LEMMA LiteralsForward ==
  ASSUME NEW p \in Strings, NEW s \in Strings, NEW a \in 0..Len(p), NEW i \in Reached(p, s, {})[a],
         NEW m \in Nat, a + m <= Len(p), i + m <= Len(s),
         \A j \in 1..m : p[a + j] # Star /\ p[a + j] = s[i + j]
  PROVE  i + m \in Reached(p, s, {})[a + m]
<1> DEFINE R == Reached(p, s, {})
           Missing == {j \in 0..m : i + j \notin R[a + j]}
<1> SUFFICES ASSUME Missing # {} PROVE FALSE
  OBVIOUS
<1>0. Missing \subseteq Nat /\ i \in 0..Len(s)
  BY ReachedType
<1> HIDE DEF Missing
<1>1. PICK j \in Missing : \A y \in Missing : j <= y
  BY ZenonT(30), <1>0, LeastElement
<1>a. /\ j \in 0..m /\ i + j \notin R[a + j]
      /\ \A y \in 0..m : i + y \notin R[a + y] => j <= y
  BY <1>1 DEF Missing
<1>b. i \in R[a]
  OBVIOUS
<1> HIDE DEF R
<1>2. j \in 1..m
  <2>1. CASE j = 0
    <3>1. i + j = i /\ a + j = a
      BY <1>0, <2>1
    <3> QED BY <1>a, <1>b, <3>1
  <2> QED BY <1>a, <2>1
<1>3. i + (j - 1) \in R[a + (j - 1)]
  <2>1. j - 1 \in 0..m /\ ~(j <= j - 1)
    BY <1>2
  <2> QED BY <1>a, <2>1
<1>4. R[a + j] = Extended(p, s, {}, a + j, R[a + (j - 1)])
  <2>1. a + j \in 1..Len(p) /\ (a + j) - 1 = a + (j - 1)
    BY <1>2 DEF Strings
  <2> QED BY <2>1, ReachedIs DEF R
<1>5. i + j \in 1..Len(s) /\ (i + j) - 1 = i + (j - 1)
  BY <1>0, <1>2 DEF Strings
<1>6. p[a + j] # Star /\ p[a + j] = s[i + j]
  BY <1>2
<1> QED BY <1>a, <1>3, <1>4, <1>5, <1>6 DEF Extended

\* And nothing else.
LEMMA LiteralsBackward ==
  ASSUME NEW p \in Strings, NEW s \in Strings, NEW a \in 0..Len(p), NEW m \in Nat, a + m <= Len(p),
         NEW h \in Reached(p, s, {})[a + m],
         \A j \in 1..m : p[a + j] \notin {Star, AnyChar}
  PROVE  /\ h - m \in Reached(p, s, {})[a]
         /\ \A j \in 1..m : p[a + j] = s[(h - m) + j]
<1> DEFINE R == Reached(p, s, {})
           Good(j) == /\ h - j \in R[(a + m) - j]
                      /\ \A k \in 1..j : p[((a + m) - j) + k] = s[(h - j) + k]
           Missing == {j \in 0..m : ~Good(j)}
<1>0. Missing \subseteq Nat /\ h \in 0..Len(s) /\ Len(p) \in Nat
  BY ReachedType DEF Strings
<1>1. Missing = {}
  <2> SUFFICES ASSUME Missing # {} PROVE FALSE
    OBVIOUS
  <2> HIDE DEF Missing
  <2>1. PICK j \in Missing : \A y \in Missing : j <= y
    BY ZenonT(30), <1>0, LeastElement
  <2> USE DEF Missing
  <2>2. j # 0
    BY <1>0, <2>1
  <2>3. j \in 1..m /\ Good(j - 1)
    <3>1. j \in 1..m /\ j - 1 \in 0..m /\ ~(j <= j - 1)
      BY <1>0, <2>1, <2>2
    <3> HIDE DEF Good
    <3> QED BY <2>1, <3>1
  <2> DEFINE b == (a + m) - (j - 1)
             g == h - (j - 1)
  <2>4. b \in 1..Len(p) /\ b = a + (m - (j - 1)) /\ m - (j - 1) \in 1..m /\ b - 1 = (a + m) - j
    BY <1>0, <2>3
  <2>5. g \in R[b] /\ R[b] = Extended(p, s, {}, b, R[b - 1])
    BY <2>3, <2>4, ReachedIs
  <2>6. p[b] \notin {Star, AnyChar}
    BY SMTT(30), <2>4
  <2> HIDE DEF R
  <2>7. g \in 1..Len(s) /\ g - 1 \in R[b - 1] /\ p[b] = s[g]
    BY <2>5, <2>6 DEF Extended
  <2>8. h - j \in R[(a + m) - j]
    BY <2>4, <2>7, <1>0
  <2>9. ASSUME NEW k \in 1..j PROVE p[((a + m) - j) + k] = s[(h - j) + k]
    <3>1. CASE k = 1
      <4>1. ((a + m) - j) + k = b /\ (h - j) + k = g
        BY <3>1, <1>0, <2>3
      <4> QED BY <4>1, <2>7
    <3>2. CASE k # 1
      <4>1. k - 1 \in 1..(j - 1) /\ ((a + m) - j) + k = b + (k - 1) /\ (h - j) + k = g + (k - 1)
        BY <3>2, <1>0, <2>3
      <4> QED BY Zenon, <4>1, <2>3
    <3> QED BY <3>1, <3>2
  <2> QED BY <2>1, <2>8, <2>9
<1>2. Good(m)
  BY <1>1
<1>3. (a + m) - m = a
  OBVIOUS
<1> QED BY <1>2, <1>3

\* A star reaches every length from those reached before it.
LEMMA StarReaches ==
  ASSUME NEW p \in Strings, NEW s \in Strings, NEW k \in 1..Len(p), p[k] = Star
  PROVE  Reached(p, s, {})[k] = {j \in 0..Len(s) : \E i \in Reached(p, s, {})[k - 1] : i <= j}
<1>1. Reached(p, s, {})[k] = Extended(p, s, {}, k, Reached(p, s, {})[k - 1])
  BY ReachedIs
<1> QED BY ZenonT(30), <1>1 DEF Extended

IsLiteral(c) == c \notin {Star, AnyChar}

\* A star at the end: the rest is a prefix.
LEMMA GlobOfPrefix ==
  ASSUME NEW p \in Strings, NEW s \in Strings, Len(p) > 0, p[Len(p)] = Star,
         \A k \in 1..(Len(p) - 1) : IsLiteral(p[k])
  PROVE  Fits(p, s, {}) <=> /\ Len(p) - 1 <= Len(s)
                             /\ \A j \in 1..(Len(p) - 1) : p[j] = s[j]
<1> DEFINE m == Len(p) - 1
           R == Reached(p, s, {})
<1>0. m \in Nat /\ Len(s) \in Nat /\ m \in 0..Len(p) /\ Len(p) \in 1..Len(p) /\ 0 + m = m
  BY DEF Strings
<1>1. R[Len(p)] = {j \in 0..Len(s) : \E i \in R[m] : i <= j}
  BY <1>0, StarReaches
<1>2. R[0] = {0} /\ R[m] \subseteq 0..Len(s)
  BY <1>0, ReachedIs, ReachedType
<1>3. ASSUME Fits(p, s, {})
      PROVE  m <= Len(s) /\ \A j \in 1..m : p[j] = s[j]
  <2>1. PICK i \in R[m] : i <= Len(s)
    BY <1>1, <1>3 DEF Fits
  <2>2. \A j \in 1..m : p[0 + j] \notin {Star, AnyChar}
    BY DEF IsLiteral
  <2>3. i - m \in R[0] /\ \A j \in 1..m : p[0 + j] = s[(i - m) + j]
    <3>1. 0 \in 0..Len(p) /\ 0 + m <= Len(p) /\ i \in R[0 + m]
      BY <1>0, <2>1
    <3> HIDE DEF m
    <3> QED BY <1>0, <2>2, <3>1, LiteralsBackward
  <2>4. i = m
    BY <1>0, <1>2, <2>1, <2>3
  <2>5. ASSUME NEW j \in 1..m PROVE p[j] = s[j]
    <3>1. 0 + j = j /\ (i - m) + j = j
      BY <1>0, <2>4
    <3> QED BY <2>3, <3>1
  <2> QED BY <1>0, <2>1, <2>4, <2>5
<1>4. ASSUME m <= Len(s), \A j \in 1..m : p[j] = s[j]
      PROVE  Fits(p, s, {})
  <2>1. \A j \in 1..m : p[0 + j] # Star /\ p[0 + j] = s[0 + j]
    BY <1>4 DEF IsLiteral
  <2>2. 0 + m \in R[0 + m]
    <3>1. 0 \in 0..Len(p) /\ 0 + m <= Len(p) /\ 0 + m <= Len(s) /\ 0 \in R[0]
      BY <1>0, <1>2, <1>4
    <3> HIDE DEF m
    <3> QED BY <1>0, <2>1, <3>1, LiteralsForward
  <2> QED BY <1>0, <1>1, <1>4, <2>2 DEF Fits
<1> QED BY <1>3, <1>4

\* Stars at both ends: what is between them is found somewhere.
LEMMA GlobOfSubstring ==
  ASSUME NEW p \in Strings, NEW s \in Strings, Len(p) > 1, p[1] = Star, p[Len(p)] = Star,
         \A k \in 2..(Len(p) - 1) : IsLiteral(p[k])
  PROVE  Fits(p, s, {}) <=> \E i \in 0..(Len(s) - (Len(p) - 2)) :
                               \A j \in 1..(Len(p) - 2) : p[1 + j] = s[i + j]
<1> DEFINE m == Len(p) - 2
           R == Reached(p, s, {})
<1>0. /\ m \in Nat /\ Len(s) \in Nat /\ 1 \in 0..Len(p) /\ 1 \in 1..Len(p) /\ Len(p) \in 1..Len(p)
      /\ 1 + m = Len(p) - 1 /\ 1 + m <= Len(p) /\ 1 + m \in 0..Len(p)
  BY DEF Strings
<1>1. R[Len(p)] = {j \in 0..Len(s) : \E i \in R[1 + m] : i <= j}
  BY <1>0, StarReaches
<1>2. R[1] = 0..Len(s) /\ R[1 + m] \subseteq 0..Len(s)
  <2>1. R[1] = {j \in 0..Len(s) : \E i \in R[0] : i <= j}
    BY <1>0, StarReaches
  <2>2. R[0] = {0} /\ R[1 + m] \subseteq 0..Len(s)
    BY <1>0, ReachedIs, ReachedType
  <2>3. ASSUME NEW j \in 0..Len(s) PROVE j \in R[1]
    <3>1. 0 \in R[0] /\ 0 <= j
      BY <1>0, <2>2
    <3> QED BY Zenon, <2>1, <3>1
  <2>4. R[1] = 0..Len(s)
    BY Zenon, <2>1, <2>3
  <2> QED BY Zenon, <2>2, <2>4
<1>3. ASSUME Fits(p, s, {})
      PROVE  \E i \in 0..(Len(s) - m) : \A j \in 1..m : p[1 + j] = s[i + j]
  <2>1. PICK h \in R[1 + m] : h <= Len(s)
    BY <1>1, <1>3 DEF Fits
  <2>2. \A j \in 1..m : p[1 + j] \notin {Star, AnyChar}
    BY <1>0 DEF IsLiteral
  <2>3. h - m \in R[1] /\ \A j \in 1..m : p[1 + j] = s[(h - m) + j]
    <3>1. h \in Reached(p, s, {})[1 + m]
      BY <2>1
    <3> HIDE DEF m
    <3> QED BY <1>0, <2>2, <3>1, LiteralsBackward
  <2>4. h - m \in 0..(Len(s) - m)
    BY <1>0, <1>2, <2>1, <2>3
  <2> QED BY Zenon, <2>3, <2>4
<1>4. ASSUME NEW i \in 0..(Len(s) - m), \A j \in 1..m : p[1 + j] = s[i + j]
      PROVE  Fits(p, s, {})
  <2>1. \A j \in 1..m : p[1 + j] # Star /\ p[1 + j] = s[i + j]
    BY <1>0, <1>4 DEF IsLiteral
  <2>2. i \in R[1] /\ i + m <= Len(s)
    BY <1>0, <1>2, <1>4
  <2>3. i + m \in R[1 + m]
    <3> HIDE DEF m
    <3> QED BY Zenon, <1>0, <2>1, <2>2, LiteralsForward
  <2> QED BY <1>0, <1>1, <2>2, <2>3 DEF Fits
<1> QED BY Zenon, <1>3, <1>4

\* A star at the beginning: the rest is the end of the string.
LEMMA GlobOfEnding ==
  ASSUME NEW p \in Strings, NEW s \in Strings, Len(p) > 0, p[1] = Star, Len(p) - 1 <= Len(s),
         \A k \in 2..Len(p) : IsLiteral(p[k]),
         \A j \in 1..(Len(p) - 1) : p[1 + j] = s[(Len(s) - (Len(p) - 1)) + j]
  PROVE  Fits(p, s, {})
<1> DEFINE m == Len(p) - 1
           i == Len(s) - m
           R == Reached(p, s, {})
<1>0. /\ m \in Nat /\ i \in Nat /\ i + m = Len(s) /\ 1 \in 0..Len(p) /\ 1 \in 1..Len(p) /\ 1 + m = Len(p)
      /\ 1 + m <= Len(p) /\ i + m <= Len(s)
  BY DEF Strings
<1>1. R[1] = {j \in 0..Len(s) : \E h \in R[0] : h <= j} /\ R[0] = {0}
  BY <1>0, StarReaches, ReachedIs
<1>2. i \in R[1]
  BY <1>0, <1>1 DEF Strings
<1>3. \A j \in 1..m : p[1 + j] # Star /\ p[1 + j] = s[i + j]
  BY <1>0 DEF IsLiteral
<1>4. i + m \in R[1 + m]
  <2> HIDE DEF m, i
  <2> QED BY Zenon, <1>0, <1>2, <1>3, LiteralsForward
<1> QED BY <1>0, <1>4 DEF Fits

-----------------------------------------------------------------------------
(***************************************************************************)
(* Tries and reversed names                                                *)
(***************************************************************************)

\* A part of a string.
LEMMA PartOf ==
  ASSUME NEW s \in Strings, NEW i \in Nat, NEW m \in Nat, i + m <= Len(s)
  PROVE  LET e == SubSeq(s, i + 1, i + m)
         IN  e \in Strings /\ Len(e) = m /\ \A j \in 1..m : e[j] = s[i + j]
<1>1. s \in Seq(STRING) /\ Len(s) \in Nat
  BY DEF Strings
<1> DEFINE a == i + 1
           b == i + m
<1>2. a \in 1..(Len(s) + 1) /\ b \in 0..Len(s) /\ b - a + 1 = m
  BY <1>1
<1>3. \A j \in 1..m : a + j - 1 = i + j
  OBVIOUS
<1> HIDE DEF a, b
<1>4. /\ SubSeq(s, a, b) \in Seq(STRING)
      /\ Len(SubSeq(s, a, b)) = m
      /\ \A j \in 1..m : SubSeq(s, a, b)[j] = s[a + j - 1]
  BY <1>1, <1>2
<1> QED BY <1>3, <1>4 DEF a, b, Strings

\* Strings are equal if their characters are.
LEMMA SameString ==
  ASSUME NEW a \in Strings, NEW b \in Strings
  PROVE  a = b <=> Len(a) = Len(b) /\ \A i \in 1..Len(a) : a[i] = b[i]
BY DEF Strings

\* A prefix, character by character.
LEMMA PrefixElements ==
  ASSUME NEW k \in Strings, NEW s \in Strings
  PROVE  IsPrefix(k, s) <=> Len(k) <= Len(s) /\ \A i \in 1..Len(k) : k[i] = s[i]
BY DEF IsPrefix

\* A bounded set of natural numbers has a greatest element.
LEMMA GreatestElement ==
  ASSUME NEW N \in Nat, NEW S, S \subseteq 0..N, S # {}
  PROVE  \E x \in S : \A y \in S : y <= x
<1> DEFINE T == {N - x : x \in S}
<1>1. T \subseteq Nat /\ T # {}
  <2>1. \A x \in S : N - x \in Nat
    OBVIOUS
  <2> QED BY <2>1, Zenon
<1> HIDE DEF T
<1>2. PICK t \in T : \A u \in T : t <= u
  BY ZenonT(30), <1>1, LeastElement
<1> USE DEF T
<1>3. PICK x \in S : t = N - x
  BY <1>2
<1>4. ASSUME NEW y \in S PROVE y <= x
  <2>1. t <= N - y
    BY <1>2
  <2> QED BY <1>3, <2>1
<1> QED BY Zenon, <1>4

\* The longest prefix is one of the prefixes.
LEMMA LongestIsPrefix ==
  ASSUME NEW s \in Strings, NEW keys, keys \subseteq Strings, Prefixed(s, keys) # {}
  PROVE  LongestPrefix(s, keys) \in Prefixed(s, keys)
<1> DEFINE P == Prefixed(s, keys)
           S == {Len(k) : k \in P}
<1>1. Len(s) \in Nat /\ S \subseteq 0..Len(s) /\ S # {}
  <2>1. \A k \in P : Len(k) \in 0..Len(s)
    BY DEF Prefixed, IsPrefix, Strings
  <2>2. S \subseteq 0..Len(s) /\ S # {}
    BY <2>1, Zenon
  <2> QED BY <2>2 DEF Strings
<1> HIDE DEF S
<1>2. PICK x \in S : \A y \in S : y <= x
  BY Zenon, <1>1, GreatestElement
<1> USE DEF S
<1>3. \E k \in P : \A j \in P : Len(j) <= Len(k)
  BY Zenon, <1>2
<1> HIDE DEF P
<1>4. LongestPrefix(s, keys) = CHOOSE k \in P : \A j \in P : Len(j) <= Len(k)
  BY DEF LongestPrefix, P
<1> QED BY <1>3, <1>4 DEF P

\* The only key is the longest prefix, if it is one.
LEMMA OnlyKey ==
  ASSUME NEW s \in Strings, NEW keys, keys \subseteq Strings, AtMostOne(keys),
         NEW k \in keys, IsPrefix(k, s)
  PROVE  Prefixed(s, keys) # {} /\ LongestPrefix(s, keys) = k
<1>1. Prefixed(s, keys) # {}
  BY DEF Prefixed
<1>2. LongestPrefix(s, keys) \in keys
  BY <1>1, LongestIsPrefix DEF Prefixed
<1> QED BY <1>1, <1>2 DEF AtMostOne

\* The characters of a reversed string.
LEMMA ReverseElements ==
  ASSUME NEW s \in Strings
  PROVE  /\ Reverse(s) \in Strings /\ Len(Reverse(s)) = Len(s)
         /\ \A i \in 1..Len(s) : Reverse(s)[i] = s[(Len(s) - i) + 1]
<1>0. Len(s) \in Nat /\ \A i \in 1..Len(s) : (Len(s) - i) + 1 \in 1..Len(s)
  BY DEF Strings
<1>1. \A i \in 1..Len(s) : s[(Len(s) - i) + 1] \in STRING
  BY <1>0 DEF Strings
<1> QED BY <1>0, <1>1 DEF Reverse, Strings

\* A name is in a zone if, reversed, it begins with the zone and goes on
\* with a dot.
LEMMA ZoneReversed ==
  ASSUME NEW n \in Strings, NEW t \in Strings
  PROVE  InZone(n, t) <=> IsPrefix(Reverse(t), Reverse(n)) /\ AlignedSuffix(Reverse(n), Reverse(t))
<1> DEFINE d == Len(n) - Len(t)
           Ends == d \in Nat /\ \A i \in 1..Len(t) : t[i] = n[d + i]
<1>0. Len(n) \in Nat /\ Len(t) \in Nat
  BY DEF Strings
<1>1. IsPrefix(Reverse(t), Reverse(n)) <=> Ends
  <2>1. IsPrefix(Reverse(t), Reverse(n)) <=>
          Len(t) <= Len(n) /\ \A i \in 1..Len(t) : Reverse(t)[i] = Reverse(n)[i]
    BY ReverseElements, PrefixElements
  <2>2. ASSUME Len(t) <= Len(n), \A i \in 1..Len(t) : Reverse(t)[i] = Reverse(n)[i], NEW i \in 1..Len(t)
        PROVE  t[i] = n[d + i]
    <3> DEFINE j == (Len(t) - i) + 1
    <3>1. j \in 1..Len(t) /\ j \in 1..Len(n) /\ (Len(t) - j) + 1 = i /\ (Len(n) - j) + 1 = d + i
      BY <1>0, <2>2
    <3> HIDE DEF j
    <3>2. Reverse(t)[j] = t[i] /\ Reverse(n)[j] = n[d + i]
      BY SMTT(30), <3>1, ReverseElements
    <3> QED BY <2>2, <3>1, <3>2
  <2>3. ASSUME Ends, NEW i \in 1..Len(t) PROVE Reverse(t)[i] = Reverse(n)[i]
    <3> DEFINE j == (Len(t) - i) + 1
    <3>1. i \in 1..Len(n) /\ j \in 1..Len(t) /\ d + j = (Len(n) - i) + 1
      BY <1>0, <2>3
    <3> QED BY <2>3, <3>1, ReverseElements
  <2> QED BY <1>0, <2>1, <2>2, <2>3
<1>2. ASSUME Ends
      PROVE  AlignedSuffix(Reverse(n), Reverse(t)) <=> d = 0 \/ n[d] = Dot
  <2>1. CASE d = 0
    BY <1>0, <2>1, ReverseElements DEF AlignedSuffix, Aligned
  <2>2. CASE d # 0
    <3>1. Len(t) + 1 \in 1..Len(n) /\ (Len(n) - (Len(t) + 1)) + 1 = d /\ Len(t) # Len(n)
      BY <1>0, <1>2, <2>2
    <3>2. Reverse(n)[Len(t) + 1] = n[d]
      BY <3>1, ReverseElements
    <3> QED BY <2>2, <3>1, <3>2, ReverseElements DEF AlignedSuffix, Aligned
  <2> QED BY <2>1, <2>2
<1>3. n = t <=> Ends /\ d = 0
  BY <1>0 DEF Strings
<1>4. ASSUME NEW k \in DOMAIN n
      PROVE  SubSeq(n, k + 1, Len(n)) = t <=> Ends /\ d = k
  <2> DEFINE e == SubSeq(n, k + 1, Len(n))
  <2>1. /\ k \in 1..Len(n) /\ e \in Strings /\ Len(e) = Len(n) - k
        /\ \A i \in 1..(Len(n) - k) : e[i] = n[k + i]
    BY <1>0 DEF Strings
  <2>2. e = t <=> Len(e) = Len(t) /\ \A i \in 1..Len(t) : e[i] = t[i]
    <3> HIDE DEF e
    <3> QED BY <2>1, SameString
  <2> HIDE DEF e
  <2>3. Len(e) = Len(t) <=> d = k
    BY <1>0, <2>1
  <2>4. ASSUME d = k, NEW i \in 1..Len(t) PROVE e[i] = n[d + i]
    BY <1>0, <2>1, <2>4
  <2>5. d = k => d \in Nat
    BY <2>1
  <2> QED BY SMTT(30), <2>2, <2>3, <2>4, <2>5 DEF e
<1>5. InZone(n, t) <=> Ends /\ (d = 0 \/ (d \in DOMAIN n /\ n[d] = Dot))
  BY <1>3, <1>4 DEF InZone
<1>6. Ends /\ d # 0 => d \in DOMAIN n
  BY <1>0 DEF Strings
<1> HIDE DEF Ends, d
<1> QED BY <1>1, <1>2, <1>5, <1>6

\* The parent of a name is what comes before one of its dots.
LEMMA ParentIs ==
  ASSUME NEW r \in Strings, HasParent(r)
  PROVE  \E m \in 0..(Len(r) - 1) : /\ r[m + 1] = Dot
                                     /\ Parent(r) \in Strings /\ Len(Parent(r)) = m
                                     /\ \A i \in 1..m : Parent(r)[i] = r[i]
<1> DEFINE D == {i \in DOMAIN r : r[i] = Dot}
<1>0. Len(r) \in Nat
  BY DEF Strings
<1>1. LastDot(r) \in D
  <2>1. D \subseteq 0..Len(r) /\ D # {}
    BY DEF HasParent, Strings
  <2> HIDE DEF D
  <2>2. \E x \in D : \A y \in D : y <= x
    BY Zenon, <1>0, <2>1, GreatestElement
  <2>3. \E x \in D : \A y \in D : x >= y
    BY <1>0, <2>1, <2>2
  <2>4. LastDot(r) = CHOOSE x \in D : \A y \in D : x >= y
    BY DEF LastDot, Max, D
  <2> QED BY <2>3, <2>4
<1> DEFINE m == LastDot(r) - 1
<1>2. m \in 0..(Len(r) - 1) /\ r[m + 1] = Dot
  BY <1>1 DEF Strings
<1> HIDE DEF m
<1>3. /\ Parent(r) \in Strings /\ Len(Parent(r)) = m
      /\ \A i \in 1..m : Parent(r)[i] = r[i]
  BY <1>0, <1>2 DEF Parent, m, Strings
<1> QED BY <1>2, <1>3

\* What begins the parent of a reversed name and ends at one of its dots does
\* the same in the name.
LEMMA ParentAligned ==
  ASSUME NEW r \in Strings, HasParent(r), NEW k \in Strings, IsPrefix(k, Parent(r)),
         AlignedSuffix(Parent(r), k)
  PROVE  IsPrefix(k, r) /\ AlignedSuffix(r, k)
<1>0. Len(r) \in Nat /\ Len(k) \in Nat
  BY DEF Strings
<1>1. PICK m \in 0..(Len(r) - 1) : /\ r[m + 1] = Dot
                                   /\ Parent(r) \in Strings /\ Len(Parent(r)) = m
                                   /\ \A i \in 1..m : Parent(r)[i] = r[i]
  BY ParentIs
<1>2. m \in 0..(Len(r) - 1) /\ r[m + 1] = Dot
  BY <1>1
<1>3. /\ Parent(r) \in Strings /\ Len(Parent(r)) = m
      /\ \A i \in 1..m : Parent(r)[i] = r[i]
  BY <1>1
<1>4. Len(k) <= m /\ \A i \in 1..Len(k) : k[i] = Parent(r)[i]
  BY <1>3, PrefixElements
<1>5. IsPrefix(k, r)
  <2>1. Len(k) <= Len(r) /\ \A i \in 1..Len(k) : k[i] = r[i]
    BY <1>0, <1>2, <1>3, <1>4
  <2> QED BY <2>1, PrefixElements
<1>6. CASE Len(k) = m
  BY <1>2, <1>5, <1>6 DEF AlignedSuffix, Aligned
<1>7. CASE Len(k) # m
  <2>1. Parent(r)[Len(k) + 1] = Dot
    BY <1>3, <1>7 DEF AlignedSuffix, Aligned
  <2>2. r[Len(k) + 1] = Dot
    BY <1>0, <1>2, <1>3, <1>4, <1>7, <2>1
  <2> QED BY <1>5, <2>2 DEF AlignedSuffix, Aligned
<1> QED BY <1>6, <1>7

-----------------------------------------------------------------------------
(***************************************************************************)
(* The types of patterns: what Eval looks for is what the pattern means    *)
(***************************************************************************)
Types == {"glob", "substring", "prefix", "exact", "suffix"}

\* Where the wildcards of each type are.
LEMMA PatternShape ==
  ASSUME NEW p \in Strings, p # <<>>, ~SyntaxError(p)
  PROVE  /\ Type(p) \in Types /\ Len(p) \in Nat \ {0}
         /\ Type(p) = "glob" => Wild(p)
         /\ Type(p) = "substring" => /\ Len(p) > 2 /\ p[1] = Star /\ p[Len(p)] = Star
                                     /\ \A k \in 2..(Len(p) - 1) : IsLiteral(p[k])
         /\ Type(p) = "prefix" => /\ Len(p) > 1 /\ p[Len(p)] = Star
                                  /\ \A k \in 1..(Len(p) - 1) : IsLiteral(p[k])
         /\ Type(p) = "exact" => /\ Len(p) > 1 /\ p[1] = Exact
                                 /\ \A k \in 1..Len(p) : IsLiteral(p[k])
         /\ Type(p) = "suffix" => /\ p[1] \notin {AnyChar, Exact} /\ (p[1] = Star => Len(p) > 1)
                                  /\ \A k \in 2..Len(p) : IsLiteral(p[k])
<1>0. Len(p) \in Nat /\ Len(p) # 0 /\ DOMAIN p = 1..Len(p) /\ Head(p) = p[1]
  BY DEF Strings
<1> DEFINE l == Len(p)
<1>00. l \in Nat
  BY <1>0
<1> HIDE DEF l
<1>1. Type(p) \in Types
  BY DEF Type, Types
<1>2. StartsWith(p, Star) <=> p[1] = Star
  BY <1>0 DEF StartsWith
<1>3. EndsWith(p, Star) <=> p[Len(p)] = Star
  BY DEF EndsWith, Last
<1>4. StartsWith(p, Exact) <=> p[1] = Exact
  BY SMTT(30), <1>0 DEF StartsWith
<1>5. Type(p) = "glob" <=> \E k \in 1..Len(p) : p[k] = AnyChar \/ (p[k] = Star /\ k \notin {1, Len(p)})
  BY ZenonT(30), <1>0 DEF Type, IsGlobCandidate
<1>6. Type(p) = "glob" => Wild(p)
  BY Zenon, <1>0, <1>5 DEF Wild, IsZoneStar, Star, AnyChar
<1>7. ASSUME Type(p) # "glob"
      PROVE  \A k \in 1..Len(p) : p[k] # AnyChar /\ (k \notin {1, Len(p)} => IsLiteral(p[k]))
  BY <1>5, <1>7 DEF IsLiteral
<1>8. ASSUME Type(p) = "substring"
      PROVE  Len(p) > 2 /\ p[1] = Star /\ p[Len(p)] = Star
  BY <1>0, <1>2, <1>3, <1>8 DEF Type, SyntaxError
<1>9. ASSUME Type(p) = "prefix"
      PROVE  Len(p) > 1 /\ p[Len(p)] = Star /\ p[1] # Star
  BY <1>0, <1>2, <1>3, <1>9 DEF Type, SyntaxError
<1>10. ASSUME Type(p) = "exact"
       PROVE  Len(p) > 1 /\ p[1] = Exact /\ p[Len(p)] # Star
  BY <1>0, <1>3, <1>4, <1>10 DEF Type, SyntaxError
<1>11. ASSUME Type(p) = "suffix"
       PROVE  p[1] # Exact /\ p[Len(p)] # Star
  BY <1>2, <1>3, <1>4, <1>11 DEF Type
<1>12. ASSUME Type(p) = "substring", NEW k \in 2..(Len(p) - 1) PROVE IsLiteral(p[k])
  <2>1. k \in 1..Len(p) /\ k \notin {1, Len(p)}
    <3>1. k \in 2..(l - 1)
      BY DEF l
    <3>2. k \in 1..l /\ k # 1 /\ k # l
      BY <1>00, <3>1
    <3> QED BY <3>2 DEF l
  <2> QED BY <1>7, <1>12, <2>1
<1>13. ASSUME Type(p) = "prefix", NEW k \in 1..(Len(p) - 1) PROVE IsLiteral(p[k])
  <2>1. k \in 1..Len(p) /\ k # Len(p)
    <3>1. k \in 1..(l - 1)
      BY DEF l
    <3>2. k \in 1..l /\ k # l
      BY <1>00, <3>1
    <3> QED BY <3>2 DEF l
  <2>2. p[k] # AnyChar /\ (k # 1 => IsLiteral(p[k])) /\ p[1] # Star
    BY SMTT(30), <1>7, <1>9, <1>13, <2>1
  <2> QED BY <2>2 DEF IsLiteral
<1>14. ASSUME Type(p) = "exact" PROVE \A k \in 1..Len(p) : IsLiteral(p[k])
  BY Zenon, <1>0, <1>7, <1>10, <1>14 DEF IsLiteral, Star, Exact
<1>15. ASSUME Type(p) = "suffix"
       PROVE  p[1] # AnyChar /\ (p[1] = Star => Len(p) > 1) /\ \A k \in 2..Len(p) : IsLiteral(p[k])
  <2>1. \A k \in 1..Len(p) : p[k] # AnyChar /\ (k \notin {1, Len(p)} => IsLiteral(p[k]))
    BY <1>7, <1>15
  <2>2. p[1] # AnyChar /\ (p[1] = Star => Len(p) > 1)
    <3>1. l # 0 /\ p[l] # Star
      BY <1>0, <1>11, <1>15 DEF l
    <3>2. 1 \in 1..l /\ (l # 1 => l > 1)
      BY <1>00, <3>1
    <3>3. p[1] = Star => l # 1
      BY <3>1
    <3> QED BY <2>1, <3>2, <3>3 DEF l
  <2>3. ASSUME NEW k \in 2..Len(p) PROVE IsLiteral(p[k])
    <3>1. k \in 1..Len(p) /\ k # 1
      BY <1>0
    <3>2. CASE k = Len(p)
      BY <1>11, <1>15, <2>1, <3>1, <3>2 DEF IsLiteral
    <3>3. CASE k # Len(p)
      BY <2>1, <3>1, <3>3
    <3> QED BY <3>2, <3>3
  <2> QED BY <2>2, <2>3
<1> QED BY <1>0, <1>1, <1>6, <1>8, <1>9, <1>10, <1>11, <1>12, <1>13, <1>14, <1>15

\* A string without its first character.
LEMMA TailIs ==
  ASSUME NEW s \in Strings, s # <<>>
  PROVE  /\ Tail(s) \in Strings /\ Len(Tail(s)) = Len(s) - 1
         /\ \A i \in 1..(Len(s) - 1) : Tail(s)[i] = s[1 + i]
         /\ Len(s) > 1 => Tail(s) # <<>> /\ Head(Tail(s)) = s[2]
<1>1. /\ Tail(s) \in Strings /\ Len(Tail(s)) = Len(s) - 1 /\ Len(s) \in Nat
      /\ \A i \in 1..(Len(s) - 1) : Tail(s)[i] = s[1 + i]
  BY DEF Strings
<1> DEFINE t == Tail(s)
<1> HIDE DEF t
<1>2. ASSUME Len(s) > 1 PROVE t # <<>> /\ Head(t) = s[2]
  <2>1. t \in Strings /\ Len(t) > 0
    BY <1>1, <1>2 DEF t
  <2>2. t # <<>> /\ Head(t) = t[1]
    BY <2>1 DEF Strings
  <2>3. 1 \in 1..(Len(s) - 1) /\ 1 + 1 = 2
    BY <1>1, <1>2
  <2>4. t[1] = s[2]
    BY <1>1, <2>3 DEF t
  <2> QED BY <2>2, <2>4
<1> QED BY <1>1, <1>2 DEF t

\* A pattern with wildcards other than the star of a zone.
LEMMA WildIs ==
  ASSUME NEW p \in Strings, NEW k \in 1..Len(p), p[k] = Star, k > 1
  PROVE  Wild(p)
BY DEF Wild, Strings

\* "=example.com" is the name itself.
LEMMA ExactMeans ==
  ASSUME NEW p \in Strings, p # <<>>, ~SyntaxError(p), Type(p) = "exact", NEW n \in Strings
  PROVE  Text(p) \in Strings /\ (Matches(p, n) <=> n = Text(p))
<1>1. Text(p) = Tail(p)
  BY DEF Text
<1>2. ~Wild(p)
  BY PatternShape DEF Wild, IsLiteral, Strings
<1>3. StartsWith(p, Exact)
  BY PatternShape DEF StartsWith, Strings
<1> QED BY <1>1, <1>2, <1>3 DEF Matches, Strings

\* A pattern with wildcards inside is matched as it stands.
LEMMA GlobMeans ==
  ASSUME NEW p \in Strings, p # <<>>, ~SyntaxError(p), Type(p) = "glob", NEW n \in Strings
  PROVE  /\ Text(p) \in Strings
         /\ GlobMatch(Text(p), n) => Matches(p, n)
         /\ Matches(p, n) /\ ~MeetsSlash(p, n) => GlobMatch(Text(p), n)
<1>1. Text(p) = p
  BY DEF Text
<1>2. Matches(p, n) <=> Fits(p, n, {})
  BY <1>1, PatternShape DEF Matches
<1>3. Len(p) \in 0..Len(p)
  BY DEF Strings
<1>4. GlobMatch(p, n) => Fits(p, n, {})
  <2>1. Reached(p, n, {Slash})[Len(p)] \subseteq Reached(p, n, {})[Len(p)]
    BY <1>3, ReachedMonotone
  <2> QED BY <2>1 DEF GlobMatch, Fits
<1>5. ASSUME ~MeetsSlash(p, n), Fits(p, n, {}) PROVE GlobMatch(p, n)
  <2>1. \A j \in 1..Len(n) : n[j] \notin {Slash}
    BY <1>5 DEF MeetsSlash, Strings
  <2>2. Reached(p, n, {})[Len(p)] \subseteq Reached(p, n, {Slash})[Len(p)]
    BY <1>3, <2>1, ReachedMonotone
  <2> QED BY <1>5, <2>2 DEF GlobMatch, Fits
<1> QED BY <1>1, <1>2, <1>4, <1>5

\* "example*" is what a name begins with.
LEMMA PrefixMeans ==
  ASSUME NEW p \in Strings, p # <<>>, ~SyntaxError(p), Type(p) = "prefix", NEW n \in Strings
  PROVE  Text(p) \in Strings /\ (Matches(p, n) <=> IsPrefix(Text(p), n))
<1>0. Len(p) \in Nat /\ Len(p) > 1
  BY PatternShape
<1>1. /\ Text(p) \in Strings /\ Len(Text(p)) = Len(p) - 1
      /\ \A i \in 1..(Len(p) - 1) : Text(p)[i] = p[i]
  BY <1>0 DEF Text, Front, Strings
<1>2. Matches(p, n) <=> Fits(p, n, {})
  BY <1>0, PatternShape, WildIs DEF Matches
<1>3. Fits(p, n, {}) <=> Len(p) - 1 <= Len(n) /\ \A j \in 1..(Len(p) - 1) : p[j] = n[j]
  BY <1>0, PatternShape, GlobOfPrefix
<1>4. IsPrefix(Text(p), n) <=> Len(p) - 1 <= Len(n) /\ \A j \in 1..(Len(p) - 1) : Text(p)[j] = n[j]
  BY <1>1, PrefixElements
<1> QED BY <1>1, <1>2, <1>3, <1>4

\* "*example*" is what a name has in it.
LEMMA SubstringMeans ==
  ASSUME NEW p \in Strings, p # <<>>, ~SyntaxError(p), Type(p) = "substring", NEW n \in Strings
  PROVE  Text(p) \in Strings /\ (Matches(p, n) <=> Holds(n, Text(p)))
<1> DEFINE t == Text(p)
           m == Len(p) - 2
<1>0. Len(p) \in Nat /\ Len(p) > 2 /\ Len(n) \in Nat /\ m \in Nat
  BY PatternShape DEF Strings
<1>1. /\ t \in Strings /\ Len(t) = m
      /\ \A i \in 1..m : t[i] = p[1 + i]
  BY <1>0 DEF Text, Strings
<1>2. Matches(p, n) <=> Fits(p, n, {})
  BY <1>0, PatternShape, WildIs DEF Matches
<1>3. Fits(p, n, {}) <=> \E i \in 0..(Len(n) - m) : \A j \in 1..m : p[1 + j] = n[i + j]
  <2>1. Len(p) > 1 /\ p[1] = Star /\ p[Len(p)] = Star /\ \A k \in 2..(Len(p) - 1) : IsLiteral(p[k])
    BY <1>0, PatternShape
  <2> QED BY Zenon, <2>1, GlobOfSubstring
<1> HIDE DEF t, m
<1>4. ASSUME NEW i \in 0..(Len(n) - m)
      PROVE  SubSeq(n, i + 1, i + m) = t <=> \A j \in 1..m : t[j] = n[i + j]
  <2> DEFINE e == SubSeq(n, i + 1, i + m)
  <2>1. e \in Strings /\ Len(e) = m /\ \A j \in 1..m : e[j] = n[i + j]
    <3>1. i \in Nat /\ i + m <= Len(n) /\ m \in Nat
      BY <1>0
    <3> QED BY <3>1, PartOf
  <2> HIDE DEF e
  <2>2. e = t <=> \A j \in 1..m : e[j] = t[j]
    BY SMTT(30), <1>1, <2>1, SameString
  <2> QED BY Zenon, <2>1, <2>2 DEF e
<1>5. Holds(n, t) <=> \E i \in 0..(Len(n) - m) : \A j \in 1..m : t[j] = n[i + j]
  BY Zenon, <1>1, <1>4 DEF Holds
<1>6. (\E i \in 0..(Len(n) - m) : \A j \in 1..m : t[j] = n[i + j]) <=>
      (\E i \in 0..(Len(n) - m) : \A j \in 1..m : p[1 + j] = n[i + j])
  <2>1. ASSUME NEW i
        PROVE  (\A j \in 1..m : t[j] = n[i + j]) <=> (\A j \in 1..m : p[1 + j] = n[i + j])
    BY <1>1
  <2> QED BY <2>1, Zenon
<1> QED BY <1>1, <1>2, <1>3, <1>5, <1>6 DEF t

\* A suffix stands for a zone, which is also what "*example.com" is taken for.
LEMMA SuffixMeans ==
  ASSUME NEW p \in Strings, p # <<>>, ~SyntaxError(p), Type(p) = "suffix", NEW n \in Strings
  PROVE  /\ Text(p) \in Strings
         /\ InZone(n, Text(p)) => Matches(p, n)
         /\ Matches(p, n) /\ ~AnyEnding(p) => InZone(n, Text(p))
<1> DEFINE t == Text(p)
<1>0. /\ Len(p) \in Nat \ {0} /\ Len(n) \in Nat /\ p[1] \notin {AnyChar, Exact} /\ (p[1] = Star => Len(p) > 1)
      /\ \A k \in 2..Len(p) : IsLiteral(p[k])
  BY PatternShape DEF Strings
<1>1. t = After(After(p, Star), Dot)
  BY DEF Text
<1>2. CASE ~Wild(p)
  <2>1. p[1] = Star => IsZoneStar(p)
    BY <1>0, <1>2 DEF Wild, Strings
  <2>2. CASE p[1] = Star
    <3>1. Len(p) > 1 /\ p[2] = Dot /\ Zone(p) = SubSeq(p, 3, Len(p))
      BY <2>1, <2>2 DEF IsZoneStar, Zone
    <3>2. After(p, Star) = Tail(p) /\ Tail(p) \in Strings /\ Len(Tail(p)) = Len(p) - 1
      BY <2>2 DEF After, StartsWith, Strings
    <3>3. Tail(p) # <<>> /\ Head(Tail(p)) = Dot
      BY <3>1, TailIs
    <3>4. t = Tail(Tail(p))
      BY Zenon, <1>1, <3>2, <3>3 DEF After, StartsWith
    <3>5. Tail(Tail(p)) = SubSeq(p, 3, Len(p))
      BY <1>0, <3>1 DEF Strings
    <3>6. t \in Strings
      BY Zenon, <3>2, <3>3, <3>4, TailIs
    <3>7. ~StartsWith(p, Exact)
      BY <1>0 DEF StartsWith, Strings
    <3> QED BY Zenon, <1>2, <3>1, <3>4, <3>5, <3>6, <3>7 DEF Matches
  <2>3. CASE p[1] # Star
    <3>1. After(p, Star) = p /\ ~IsZoneStar(p)
      BY <2>3 DEF After, StartsWith, IsZoneStar, Strings
    <3>2. t = After(p, Dot) /\ Zone(p) = After(p, Dot)
      BY <1>1, <3>1 DEF Zone
    <3>3. After(p, Dot) \in Strings
      BY TailIs DEF After, StartsWith
    <3>4. ~StartsWith(p, Exact)
      BY <1>0 DEF StartsWith, Strings
    <3> QED BY <1>2, <3>2, <3>3, <3>4 DEF Matches
  <2> QED BY <2>2, <2>3
<1>3. CASE Wild(p)
  <2>1. AnyEnding(p) /\ (Matches(p, n) <=> Fits(p, n, {}))
    BY <1>3 DEF AnyEnding, Matches
  <2>2. p[1] = Star /\ Len(p) > 1 /\ p[2] # Dot
    BY <1>0, <1>3 DEF Wild, IsZoneStar, IsLiteral, Strings
  <2>3. After(p, Star) = Tail(p) /\ Tail(p) # <<>> /\ Head(Tail(p)) # Dot
    <3>1. p[1] = Head(p)
      BY <1>0 DEF Strings
    <3> QED BY <2>2, <3>1, TailIs DEF After, StartsWith
  <2>4. t = Tail(p)
    BY <1>1, <2>3 DEF After, StartsWith
  <2>5. t \in Strings /\ Len(t) = Len(p) - 1 /\ \A i \in 1..(Len(p) - 1) : t[i] = p[1 + i]
    BY <2>2, <2>4 DEF Strings
  <2>6. ASSUME InZone(n, t) PROVE Fits(p, n, {})
    <3> DEFINE d == Len(n) - Len(t)
    <3>1. d \in Nat /\ \A i \in 1..Len(t) : t[i] = n[d + i]
      <4>1. CASE n = t
        BY <2>5, <4>1 DEF Strings
      <4>2. ASSUME NEW k \in DOMAIN n, SubSeq(n, k + 1, Len(n)) = t
            PROVE  d \in Nat /\ \A i \in 1..Len(t) : t[i] = n[d + i]
        <5>1. k \in 1..Len(n)
          BY DEF Strings
        <5>2. Len(t) = Len(n) - k
          BY <1>0, <4>2, <5>1 DEF Strings
        <5>3. \A i \in 1..(Len(n) - k) : SubSeq(n, k + 1, Len(n))[i] = n[k + i]
          <6> HIDE DEF t, d
          <6>1. k \in Nat /\ Len(n) - k \in Nat /\ k + (Len(n) - k) = Len(n)
            BY <1>0, <5>1
          <6>2. \A i \in 1..(Len(n) - k) : SubSeq(n, k + 1, k + (Len(n) - k))[i] = n[k + i]
            BY <6>1, PartOf
          <6> QED BY <6>1, <6>2        <5>4. d = k
          <6>1. Len(n) \in Nat /\ k \in Nat
            BY <1>0, <5>1 DEF Strings
          <6> HIDE DEF t
          <6> QED BY <5>2, <6>1
        <5>5. \A i \in 1..Len(t) : t[i] = n[k + i]
          <6> HIDE DEF t
          <6> QED BY Zenon, <4>2, <5>2, <5>3
        <5>6. k \in Nat
          BY <5>1
        <5> HIDE DEF t, d
        <5> QED BY <5>4, <5>5, <5>6, Zenon
      <4> QED BY <2>6, <4>1, <4>2 DEF InZone
    <3>2. Len(p) - 1 <= Len(n) /\ \A j \in 1..(Len(p) - 1) : p[1 + j] = n[(Len(n) - (Len(p) - 1)) + j]
      BY <1>0, <2>5, <3>1
    <3> QED BY <1>0, <2>2, <3>2, GlobOfEnding
  <2> QED BY <2>1, <2>5, <2>6
<1> QED BY <1>2, <1>3

-----------------------------------------------------------------------------
(***************************************************************************)
(* The rules for names                                                     *)
(***************************************************************************)

\* The patterns of a type that were added.
Added(type) == {p \in Patterns : Type(p) = type /\ \E k \in DOMAIN nameRules : nameRules[k].pattern = p}

Accepted == {p \in Patterns : ~SyntaxError(p)}

\* Each table has the texts of the patterns of its type.
NamesInv ==
  /\ nameRules \in Seq([pattern : Accepted, val : Vals])
  /\ DOMAIN exact = {Text(p) : p \in Added("exact")}
  /\ DOMAIN prefixes = {Text(p) : p \in Added("prefix")}
  /\ DOMAIN suffixes = {Reverse(Text(p)) : p \in Added("suffix")}
  /\ substrings \in Seq(Strings) /\ Range(substrings) = {Text(p) : p \in Added("substring")}
  /\ globs \in Seq(Strings) /\ Range(globs) = {Text(p) : p \in Added("glob")}
  /\ DOMAIN indirectVals = Range(substrings) \cup Range(globs)

\* The elements of a sequence of rules are rules.
LEMMA ElementOf ==
  ASSUME NEW S, NEW s \in Seq(S), NEW k \in DOMAIN s
  PROVE  s[k] \in S
OBVIOUS

\* A pattern that was added is one that was accepted.
LEMMA AddedAccepted ==
  ASSUME NamesInv, NEW type, NEW p \in Added(type)
  PROVE  p \in Strings /\ p # <<>> /\ ~SyntaxError(p) /\ Type(p) = type
<1>1. PICK k \in DOMAIN nameRules : nameRules[k].pattern = p
  BY DEF Added
<1>2. nameRules[k] \in [pattern : Accepted, val : Vals]
  BY Zenon, ElementOf DEF NamesInv
<1>3. p \in Accepted
  BY <1>1, <1>2
<1> QED BY <1>3, MatchersAssumption DEF MatchersAssumption, Added, Accepted, Strings

\* What is looked up are strings.
LEMMA KeysAreStrings ==
  ASSUME NamesInv
  PROVE  DOMAIN prefixes \subseteq Strings /\ DOMAIN suffixes \subseteq Strings
<1>1. ASSUME NEW p \in Added("prefix") PROVE Text(p) \in Strings
  <2>1. <<>> \in Strings
    BY DEF Strings
  <2> QED BY <2>1, AddedAccepted, PrefixMeans
<1>2. ASSUME NEW p \in Added("suffix") PROVE Reverse(Text(p)) \in Strings
  <2>1. <<>> \in Strings
    BY DEF Strings
  <2>2. Text(p) \in Strings
    BY <2>1, AddedAccepted, SuffixMeans
  <2> QED BY <2>2, ReverseElements
<1> QED BY <1>1, <1>2, Zenon DEF NamesInv

\* A rule that matches is one of those that Matching finds.
LEMMA AddedMatching ==
  ASSUME NEW type, NEW p \in Added(type), NEW n, Matches(p, n)
  PROVE  Matching(n) # {}
<1>1. PICK k \in DOMAIN nameRules : nameRules[k].pattern = p
  BY DEF Added
<1> QED BY <1>1 DEF Matching

\* Whether an outcome of Eval rejects.
LEMMA RejectValues == ~NoMatch.reject /\ \A v : Match(v).reject
BY Zenon DEF NoMatch, Match

\* EvalSuffix rejects only what begins with a key, and ends at a dot.
LEMMA SuffixFound ==
  ASSUME NEW r \in Strings, DOMAIN suffixes \subseteq Strings, EvalSuffix(r).reject
  PROVE  \E k \in DOMAIN suffixes : IsPrefix(k, r) /\ AlignedSuffix(r, k)
<1> DEFINE found == LongestPrefix(r, DOMAIN suffixes)
           above == LongestPrefix(Parent(r), DOMAIN suffixes)
<1>1. \/ Prefixed(r, DOMAIN suffixes) # {} /\ AlignedSuffix(r, found)
      \/ HasParent(r) /\ Prefixed(Parent(r), DOMAIN suffixes) # {} /\ AlignedSuffix(Parent(r), above)
  <2> HIDE DEF found, above
  <2> SUFFICES ASSUME ~(\/ Prefixed(r, DOMAIN suffixes) # {} /\ AlignedSuffix(r, found)
                        \/ HasParent(r) /\ Prefixed(Parent(r), DOMAIN suffixes) # {} /\ AlignedSuffix(Parent(r), above))
               PROVE  EvalSuffix(r) = NoMatch
    BY RejectValues
  <2> QED BY DEF EvalSuffix, found, above
<1>2. CASE Prefixed(r, DOMAIN suffixes) # {} /\ AlignedSuffix(r, found)
  BY <1>2, LongestIsPrefix DEF Prefixed
<1>3. CASE HasParent(r) /\ Prefixed(Parent(r), DOMAIN suffixes) # {} /\ AlignedSuffix(Parent(r), above)
  <2>1. Parent(r) \in Strings
    BY <1>3, ParentIs
  <2>2. above \in DOMAIN suffixes /\ IsPrefix(above, Parent(r))
    BY <1>3, <2>1, LongestIsPrefix DEF Prefixed
  <2> HIDE DEF above
  <2>3. IsPrefix(above, r) /\ AlignedSuffix(r, above)
    BY <1>3, <2>2, ParentAligned
  <2> QED BY <2>2, <2>3
<1> QED BY <1>1, <1>2, <1>3

\* What is rejected was found in one of the tables.
LEMMA RejectedFound ==
  ASSUME NEW n \in Strings, Eval(n).reject
  PROVE  \/ n \in DOMAIN exact
         \/ EvalSuffix(Reverse(n)).reject
         \/ Prefixed(n, DOMAIN prefixes) # {}
         \/ \E k \in DOMAIN substrings : Holds(n, substrings[k])
         \/ \E k \in DOMAIN globs : GlobMatch(globs[k], n)
<1> SUFFICES ASSUME /\ n \notin DOMAIN exact
                    /\ ~EvalSuffix(Reverse(n)).reject
                    /\ Prefixed(n, DOMAIN prefixes) = {}
                    /\ ~\E k \in DOMAIN substrings : Holds(n, substrings[k])
                    /\ ~\E k \in DOMAIN globs : GlobMatch(globs[k], n)
             PROVE  Eval(n) = NoMatch
  BY RejectValues
<1>1. {k \in DOMAIN substrings : Holds(n, substrings[k])} = {}
  OBVIOUS
<1>2. {k \in DOMAIN globs : GlobMatch(globs[k], n)} = {}
  OBVIOUS
<1> QED BY <1>1, <1>2, Zenon DEF Eval

\* And what one of the tables has is rejected.
LEMMA FoundRejected ==
  ASSUME NEW n \in Strings, Len(n) > 1,
         \/ n \in DOMAIN exact
         \/ EvalSuffix(Reverse(n)).reject
         \/ Prefixed(n, DOMAIN prefixes) # {}
         \/ \E k \in DOMAIN substrings : Holds(n, substrings[k])
         \/ \E k \in DOMAIN globs : GlobMatch(globs[k], n)
  PROVE  Eval(n).reject
<1> DEFINE holding == {k \in DOMAIN substrings : Holds(n, substrings[k])}
           fitting == {k \in DOMAIN globs : GlobMatch(globs[k], n)}
<1>1. \/ n \in DOMAIN exact
      \/ EvalSuffix(Reverse(n)).reject
      \/ Prefixed(n, DOMAIN prefixes) # {}
      \/ holding # {}
      \/ fitting # {}
  OBVIOUS
<1>2. ~(Len(n) < 2)
  BY SMTT(30) DEF Strings
<1>3. Eval(n) = IF Len(n) < 2 THEN NoMatch
                ELSE IF n \in DOMAIN exact THEN Match(exact[n])
                ELSE IF EvalSuffix(Reverse(n)).reject THEN EvalSuffix(Reverse(n))
                ELSE IF Prefixed(n, DOMAIN prefixes) # {} THEN Match(prefixes[LongestPrefix(n, DOMAIN prefixes)])
                ELSE IF holding # {} THEN Match(indirectVals[substrings[Min(holding)]])
                ELSE IF fitting # {} THEN Match(indirectVals[globs[Min(fitting)]])
                ELSE NoMatch
  BY DEF Eval
<1> HIDE DEF holding, fitting
<1> QED BY <1>1, <1>2, <1>3, RejectValues, Zenon

\* Rejected names match.
LEMMA NamesSoundLemma == NamesInv => NamesSound
<1> SUFFICES ASSUME NamesInv, NEW n \in Names, Eval(n).reject
             PROVE  Matching(n) # {}
  BY DEF NamesSound
<1>0. n \in Strings
  BY MatchersAssumption DEF MatchersAssumption, Strings
<1>1. CASE n \in DOMAIN exact
  <2>1. PICK p \in Added("exact") : n = Text(p)
    BY <1>1 DEF NamesInv
  <2> QED BY <1>0, <2>1, AddedAccepted, ExactMeans, AddedMatching
<1>2. CASE EvalSuffix(Reverse(n)).reject
  <2>1. PICK k \in DOMAIN suffixes : IsPrefix(k, Reverse(n)) /\ AlignedSuffix(Reverse(n), k)
    BY <1>0, <1>2, KeysAreStrings, SuffixFound, ReverseElements
  <2>2. PICK p \in Added("suffix") : k = Reverse(Text(p))
    BY <2>1 DEF NamesInv
  <2>3. Text(p) \in Strings
    BY <1>0, AddedAccepted, SuffixMeans
  <2>4. InZone(n, Text(p))
    BY <1>0, <2>1, <2>2, <2>3, ZoneReversed
  <2> QED BY <1>0, <2>4, AddedAccepted, SuffixMeans, AddedMatching
<1>3. CASE Prefixed(n, DOMAIN prefixes) # {}
  <2>1. PICK k \in DOMAIN prefixes : IsPrefix(k, n)
    BY <1>3 DEF Prefixed
  <2>2. PICK p \in Added("prefix") : k = Text(p)
    BY <2>1 DEF NamesInv
  <2> QED BY <1>0, <2>1, <2>2, AddedAccepted, PrefixMeans, AddedMatching
<1>4. ASSUME NEW k \in DOMAIN substrings, Holds(n, substrings[k]) PROVE Matching(n) # {}
  <2>1. substrings[k] \in Range(substrings)
    BY DEF Range
  <2>2. PICK p \in Added("substring") : substrings[k] = Text(p)
    BY <2>1 DEF NamesInv
  <2> QED BY <1>0, <1>4, <2>2, AddedAccepted, SubstringMeans, AddedMatching
<1>5. ASSUME NEW k \in DOMAIN globs, GlobMatch(globs[k], n) PROVE Matching(n) # {}
  <2>1. globs[k] \in Range(globs)
    BY DEF Range
  <2>2. PICK p \in Added("glob") : globs[k] = Text(p)
    BY <2>1 DEF NamesInv
  <2> QED BY <1>0, <1>5, <2>2, AddedAccepted, GlobMeans, AddedMatching
<1> QED BY <1>0, <1>1, <1>2, <1>3, <1>4, <1>5, RejectedFound

\* Names that match are rejected, with one suffix at most.
LEMMA NamesCompleteLemma == NamesInv => CompleteWithOneSuffix
<1> SUFFICES ASSUME NamesInv, AtMostOne(DOMAIN suffixes), NEW n \in Names, NEW i \in Matching(n),
                    Len(n) > 1, ~AnyEnding(nameRules[i].pattern), ~MeetsSlash(nameRules[i].pattern, n)
             PROVE  Eval(n).reject
  BY DEF CompleteWithOneSuffix
<1> DEFINE p == nameRules[i].pattern
           r == Reverse(n)
<1>0. n \in Strings /\ r \in Strings
  BY MatchersAssumption, ReverseElements DEF MatchersAssumption, Strings
<1>1. i \in DOMAIN nameRules /\ Matches(p, n) /\ ~MeetsSlash(p, n)
  BY DEF Matching
<1>2. p \in Added(Type(p))
  <2>1. nameRules[i] \in [pattern : Accepted, val : Vals]
    BY Zenon, <1>1, ElementOf DEF NamesInv
  <2>2. p \in Patterns
    BY <2>1 DEF Accepted
  <2> QED BY SMTT(30), <1>1, <2>2 DEF Added
<1>3. p \in Strings /\ p # <<>> /\ ~SyntaxError(p)
  BY <1>2, AddedAccepted
<1> HIDE DEF p, r
<1>4. CASE Type(p) = "exact"
  BY <1>0, <1>1, <1>2, <1>3, <1>4, ExactMeans, FoundRejected DEF NamesInv
<1>5. CASE Type(p) = "prefix"
  <2>1. Text(p) \in DOMAIN prefixes
    BY <1>2, <1>5 DEF NamesInv
  <2>2. IsPrefix(Text(p), n)
    BY SMTT(30), <1>0, <1>1, <1>3, <1>5, PrefixMeans
  <2> QED BY SMTT(30), <1>0, <2>1, <2>2, FoundRejected DEF Prefixed
<1>6. CASE Type(p) = "substring"
  <2>1. Text(p) \in Range(substrings)
    BY <1>2, <1>6 DEF NamesInv
  <2>2. Holds(n, Text(p))
    BY SMTT(30), <1>0, <1>1, <1>3, <1>6, SubstringMeans
  <2> QED BY SMTT(30), <1>0, <2>1, <2>2, FoundRejected DEF Range
<1>7. CASE Type(p) = "glob"
  <2>1. Text(p) \in Range(globs)
    BY <1>2, <1>7 DEF NamesInv
  <2>2. GlobMatch(Text(p), n)
    BY <1>0, <1>1, <1>3, <1>7, GlobMeans
  <2> QED BY SMTT(30), <1>0, <2>1, <2>2, FoundRejected DEF Range
<1>8. CASE Type(p) = "suffix"
  <2> DEFINE k == Reverse(Text(p))
  <2>1. k \in DOMAIN suffixes
    BY SMTT(30), <1>2, <1>8 DEF NamesInv
  <2>2. InZone(n, Text(p)) /\ Text(p) \in Strings
    BY <1>0, <1>1, <1>3, <1>8, SuffixMeans DEF p
  <2>3. IsPrefix(k, r) /\ AlignedSuffix(r, k)
    BY <1>0, <2>2, ZoneReversed DEF r
  <2> HIDE DEF k
  <2>4. Prefixed(r, DOMAIN suffixes) # {} /\ LongestPrefix(r, DOMAIN suffixes) = k
    BY <1>0, <2>1, <2>3, KeysAreStrings, OnlyKey
  <2>5. EvalSuffix(r) = Match(suffixes[k])
    BY <2>3, <2>4, Zenon DEF EvalSuffix
  <2> QED BY SMTT(30), <1>0, <2>5, RejectValues, FoundRejected DEF r
<1> QED BY <1>3, <1>4, <1>5, <1>6, <1>7, <1>8, PatternShape DEF Types

\* Storing a value adds its key.
LEMMA InsertedDomain ==
  ASSUME NEW f, NEW k, NEW v
  PROVE  /\ DOMAIN Inserted(f, k, v) = DOMAIN f \cup {k}
         /\ DOMAIN Stored(f, k, v) = DOMAIN f \cup {k}
BY DEF Inserted, Stored

\* Appending a string adds it to those of a list.
LEMMA AppendRange ==
  ASSUME NEW S, NEW s \in Seq(S), NEW x \in S
  PROVE  Append(s, x) \in Seq(S) /\ Range(Append(s, x)) = Range(s) \cup {x}
<1>1. /\ Append(s, x) \in Seq(S) /\ Len(s) \in Nat
      /\ DOMAIN s = 1..Len(s) /\ DOMAIN Append(s, x) = 1..(Len(s) + 1)
      /\ \A k \in 1..Len(s) : Append(s, x)[k] = s[k]
      /\ Append(s, x)[Len(s) + 1] = x
  OBVIOUS
<1>2. 1..(Len(s) + 1) = 1..Len(s) \cup {Len(s) + 1}
  BY <1>1
<1> HIDE <1>1
<1> DEFINE a == Append(s, x)
           l == Len(s) + 1
<1> HIDE DEF a, l
<1>3. /\ DOMAIN a = DOMAIN s \cup {l} /\ a[l] = x
      /\ \A k \in DOMAIN s : a[k] = s[k]
  BY <1>1, <1>2 DEF a, l
<1>4. Range(a) = Range(s) \cup {x}
  BY <1>3 DEF Range
<1> QED BY <1>1, <1>4 DEF a

\* Add puts the pattern among those of its type.
LEMMA AddedNext ==
  ASSUME NamesInv, NEW p \in Patterns, NEW v \in Vals, Add(p, v), NEW type
  PROVE  Added(type)' = IF type = Type(p) THEN Added(type) \cup {p} ELSE Added(type)
<1> DEFINE rule == [pattern |-> p, val |-> v]
           R == [pattern : Accepted, val : Vals]
<1>1. nameRules \in Seq(R) /\ rule \in R /\ rule.pattern = p
  BY DEF NamesInv, Add, Accepted
<1>2. nameRules' = Append(nameRules, rule)
  BY DEF Add
<1> HIDE DEF rule, R
<1>3. Range(nameRules') = Range(nameRules) \cup {rule}
  BY <1>1, <1>2, AppendRange
<1>4. /\ Added(type) = {q \in Patterns : Type(q) = type /\ \E r \in Range(nameRules) : r.pattern = q}
      /\ Added(type)' = {q \in Patterns : Type(q) = type /\ \E r \in Range(nameRules') : r.pattern = q}
  BY DEF Added, Range
<1> QED BY SMTT(30), <1>1, <1>3, <1>4

\* The texts of the patterns of a type.
LEMMA TextsNext ==
  ASSUME NamesInv, NEW p \in Patterns, NEW v \in Vals, Add(p, v), NEW type
  PROVE  /\ {Text(q) : q \in Added(type)'} = IF type = Type(p) THEN {Text(q) : q \in Added(type)} \cup {Text(p)}
                                             ELSE {Text(q) : q \in Added(type)}
         /\ {Reverse(Text(q)) : q \in Added(type)'} =
              IF type = Type(p) THEN {Reverse(Text(q)) : q \in Added(type)} \cup {Reverse(Text(p))}
              ELSE {Reverse(Text(q)) : q \in Added(type)}
<1> DEFINE A == Added(type)
           B == Added(type)'
<1>1. B = IF type = Type(p) THEN A \cup {p} ELSE A
  BY AddedNext
<1> HIDE DEF A, B
<1>2. /\ {Text(q) : q \in B} = IF type = Type(p) THEN {Text(q) : q \in A} \cup {Text(p)}
                               ELSE {Text(q) : q \in A}
      /\ {Reverse(Text(q)) : q \in B} =
           IF type = Type(p) THEN {Reverse(Text(q)) : q \in A} \cup {Reverse(Text(p))}
           ELSE {Reverse(Text(q)) : q \in A}
  BY <1>1
<1> QED BY SMTT(30), <1>2 DEF A, B

\* The text of a pattern that is accepted is a string.
LEMMA TextIsString ==
  ASSUME NEW p \in Accepted
  PROVE  Text(p) \in Strings
<1>1. p \in Strings /\ p # <<>> /\ ~SyntaxError(p) /\ <<>> \in Strings
  BY MatchersAssumption DEF MatchersAssumption, Accepted, Strings
<1> QED BY <1>1, PatternShape, ExactMeans, GlobMeans, PrefixMeans, SubstringMeans, SuffixMeans DEF Types

\* One rule more.
LEMMA NamesStep ==
  ASSUME NamesInv, NEW p \in Patterns, NEW v \in Vals, Add(p, v)
  PROVE  NamesInv'
<1> DEFINE text == Text(p)
           type == Type(p)
<1>0. /\ nameRules' = Append(nameRules, [pattern |-> p, val |-> v])
      /\ p \in Accepted /\ text \in Strings
      /\ prefixes' = IF type = "prefix" THEN Inserted(prefixes, text, v) ELSE prefixes
      /\ suffixes' = IF type = "suffix" THEN Inserted(suffixes, Reverse(text), v) ELSE suffixes
      /\ exact' = IF type = "exact" THEN Stored(exact, text, v) ELSE exact
      /\ substrings' = IF type = "substring" THEN Append(substrings, text) ELSE substrings
      /\ globs' = IF type = "glob" THEN Append(globs, text) ELSE globs
      /\ indirectVals' = IF type \in {"substring", "glob"} THEN Stored(indirectVals, text, v)
                                                           ELSE indirectVals
  BY TextIsString DEF Add, Accepted
<1>1. nameRules' \in Seq([pattern : Accepted, val : Vals])
  <2> DEFINE rule == [pattern |-> p, val |-> v]
             R == [pattern : Accepted, val : Vals]
  <2>1. nameRules \in Seq(R) /\ rule \in R
    BY <1>0 DEF NamesInv
  <2> HIDE DEF rule, R
  <2>2. Append(nameRules, rule) \in Seq(R)
    BY <2>1, AppendRange
  <2> QED BY SMTT(30), <1>0, <2>2 DEF rule, R
<1> HIDE DEF text, type
<1>2. DOMAIN exact' = {Text(q) : q \in Added("exact")'}
  <2>1. DOMAIN exact' = IF type = "exact" THEN DOMAIN exact \cup {text} ELSE DOMAIN exact
    BY Zenon, <1>0, InsertedDomain
  <2> QED BY ZenonT(30), <2>1, TextsNext DEF NamesInv, text, type
<1>3. DOMAIN prefixes' = {Text(q) : q \in Added("prefix")'}
  <2>1. DOMAIN prefixes' = IF type = "prefix" THEN DOMAIN prefixes \cup {text} ELSE DOMAIN prefixes
    BY Zenon, <1>0, InsertedDomain
  <2> QED BY ZenonT(30), <2>1, TextsNext DEF NamesInv, text, type
<1>4. DOMAIN suffixes' = {Reverse(Text(q)) : q \in Added("suffix")'}
  <2>1. DOMAIN suffixes' = IF type = "suffix" THEN DOMAIN suffixes \cup {Reverse(text)} ELSE DOMAIN suffixes
    BY Zenon, <1>0, InsertedDomain
  <2> QED BY ZenonT(30), <2>1, TextsNext DEF NamesInv, text, type
<1>5. /\ substrings' \in Seq(Strings)
      /\ Range(substrings') = IF type = "substring" THEN Range(substrings) \cup {text} ELSE Range(substrings)
  <2>1. substrings \in Seq(Strings)
    BY DEF NamesInv
  <2>2. /\ Append(substrings, text) \in Seq(Strings)
        /\ Range(Append(substrings, text)) = Range(substrings) \cup {text}
    BY <1>0, <2>1, AppendRange
  <2> QED BY <1>0, <2>1, <2>2, Zenon
<1>6. /\ globs' \in Seq(Strings)
      /\ Range(globs') = IF type = "glob" THEN Range(globs) \cup {text} ELSE Range(globs)
  <2>1. globs \in Seq(Strings)
    BY DEF NamesInv
  <2>2. /\ Append(globs, text) \in Seq(Strings)
        /\ Range(Append(globs, text)) = Range(globs) \cup {text}
    BY <1>0, <2>1, AppendRange
  <2> QED BY <1>0, <2>1, <2>2, Zenon
<1>7. Range(substrings') = {Text(q) : q \in Added("substring")'}
  BY ZenonT(30), <1>5, TextsNext DEF NamesInv, text, type
<1>8. Range(globs') = {Text(q) : q \in Added("glob")'}
  BY ZenonT(30), <1>6, TextsNext DEF NamesInv, text, type
<1>9. DOMAIN indirectVals' = Range(substrings') \cup Range(globs')
  <2>1. DOMAIN indirectVals' = IF type \in {"substring", "glob"} THEN DOMAIN indirectVals \cup {text}
                               ELSE DOMAIN indirectVals
    BY Zenon, <1>0, InsertedDomain
  <2> QED BY <1>5, <1>6, <2>1 DEF NamesInv
<1> QED BY <1>1, <1>2, <1>3, <1>4, <1>5, <1>6, <1>7, <1>8, <1>9, Zenon DEF NamesInv, Accepted

\* The tables have every rule.
LEMMA NamesTypeLemma == NamesInv => NamesTypeOK
<1> SUFFICES ASSUME NamesInv PROVE NamesTypeOK
  OBVIOUS
<1>1. ASSUME NEW k \in DOMAIN nameRules
      PROVE  LET p == nameRules[k].pattern
             IN  CASE Type(p) = "suffix" -> Reverse(Text(p)) \in DOMAIN suffixes
                   [] Type(p) = "prefix" -> Text(p) \in DOMAIN prefixes
                   [] Type(p) = "exact" -> Text(p) \in DOMAIN exact
                   [] Type(p) = "substring" -> Text(p) \in Range(substrings)
                   [] Type(p) = "glob" -> Text(p) \in Range(globs)
  <2> DEFINE p == nameRules[k].pattern
  <2>1. nameRules[k] \in [pattern : Accepted, val : Vals]
    BY Zenon, ElementOf DEF NamesInv
  <2>2. p \in Patterns
    BY <2>1 DEF Accepted
  <2>3. p \in Added(Type(p))
    BY <2>2 DEF Added
  <2>4. p \in Strings /\ p # <<>> /\ ~SyntaxError(p)
    BY <2>3, AddedAccepted
  <2> HIDE DEF p
  <2>5. Type(p) \in {"suffix", "prefix", "exact", "substring", "glob"}
    BY <2>4, PatternShape DEF Types
  <2>6. CASE Type(p) = "suffix"
    BY <2>3, <2>6 DEF NamesInv, p
  <2>7. CASE Type(p) = "prefix"
    BY <2>3, <2>7 DEF NamesInv, p
  <2>8. CASE Type(p) = "exact"
    BY <2>3, <2>8 DEF NamesInv, p
  <2>9. CASE Type(p) = "substring"
    BY <2>3, <2>9 DEF NamesInv, p
  <2>10. CASE Type(p) = "glob"
    BY <2>3, <2>10 DEF NamesInv, p
  <2> QED BY Zenon, <2>5, <2>6, <2>7, <2>8, <2>9, <2>10
<1>2. DOMAIN indirectVals = Range(substrings) \cup Range(globs)
  BY DEF NamesInv
<1> QED BY <1>1, <1>2, Zenon DEF NamesTypeOK

-----------------------------------------------------------------------------
(***************************************************************************)
(* The rules for addresses                                                 *)
(***************************************************************************)

AddressesInv == ipRules \subseteq Lines /\ AddressesTypeOK

\* The text of a line is a string: its numbers.
LEMMA NumbersOf ==
  ASSUME NEW l \in Strings
  PROVE  /\ IPText(l) \in Strings
         /\ IPText(l) = IF EndsWith(l, Star) THEN Without(Front(l), Separators)
                                             ELSE Without(l, Separators)
<1>1. Without(l, {Star}) = IF EndsWith(l, Star) THEN Front(l) ELSE l
  BY DEF Without
<1>2. ASSUME NEW s \in Strings PROVE s # <<>> => Front(s) \in Strings
  BY DEF Front, Strings
<1>3. ASSUME NEW s \in Strings, NEW chars PROVE Without(s, chars) \in Strings
  BY <1>2 DEF Without, EndsWith
<1> QED BY <1>1, <1>3 DEF IPText

\* A stored prefix that ends where a number does comes from a rule that covers the
\* address.
LEMMA AddressesSoundLemma == AddressesInv => AddressesSound
<1> SUFFICES ASSUME AddressesInv, NEW ip \in Addresses, EvalIP(ip)
             PROVE  \E l \in ipRules : Covers(l, ip)
  BY DEF AddressesSound
<1>0. ip \in Strings /\ \A l \in ipRules : l \in Strings
  BY MatchersAssumption DEF MatchersAssumption, Strings, AddressesInv
<1>1. CASE ip \in blockedIPs
  <2>1. PICK l \in ipRules : ~EndsWith(l, Star) /\ ip = IPText(l)
    BY <1>1 DEF AddressesInv, AddressesTypeOK
  <2> QED BY <1>0, <2>1, NumbersOf DEF Covers
<1>2. CASE Prefixed(ip, blockedPrefixes) # {} /\ Aligned(ip, LongestPrefix(ip, blockedPrefixes), Separators)
  <2> DEFINE k == LongestPrefix(ip, blockedPrefixes)
  <2>1. blockedPrefixes \subseteq Strings
    BY <1>0, NumbersOf DEF AddressesInv, AddressesTypeOK
  <2>2. k \in blockedPrefixes /\ IsPrefix(k, ip)
    BY <1>0, <1>2, <2>1, LongestIsPrefix DEF Prefixed
  <2> HIDE DEF k
  <2>3. PICK l \in ipRules : EndsWith(l, Star) /\ k = IPText(l)
    BY <2>2 DEF AddressesInv, AddressesTypeOK
  <2>4. k = Without(Front(l), Separators)
    BY <1>0, <2>3, NumbersOf
  <2> QED BY <1>2, <2>2, <2>3, <2>4 DEF Covers, k
<1> QED BY <1>1, <1>2 DEF EvalIP

\* The only prefix is the one that is found.
LEMMA AddressesCompleteLemma == AddressesInv => CompleteWithOnePrefix
<1> SUFFICES ASSUME AddressesInv, NEW ip \in Addresses, NEW l \in ipRules, Covers(l, ip),
                    EndsWith(l, Star) => AtMostOne(blockedPrefixes)
             PROVE  EvalIP(ip)
  BY DEF CompleteWithOnePrefix
<1>0. ip \in Strings /\ \A m \in ipRules : m \in Strings
  BY MatchersAssumption DEF MatchersAssumption, Strings, AddressesInv
<1>1. CASE ~EndsWith(l, Star)
  <2>1. ip = IPText(l)
    BY <1>0, <1>1, NumbersOf DEF Covers
  <2> QED BY <1>1, <2>1 DEF EvalIP, AddressesInv, AddressesTypeOK
<1>2. CASE EndsWith(l, Star)
  <2> DEFINE k == IPText(l)
  <2>1. k \in blockedPrefixes /\ blockedPrefixes \subseteq Strings
    BY <1>0, <1>2, NumbersOf DEF AddressesInv, AddressesTypeOK
  <2>2. IsPrefix(k, ip) /\ Aligned(ip, k, Separators)
    BY <1>0, <1>2, NumbersOf DEF Covers
  <2> HIDE DEF k
  <2>3. Prefixed(ip, blockedPrefixes) # {} /\ LongestPrefix(ip, blockedPrefixes) = k
    BY <1>0, <1>2, <2>1, <2>2, OnlyKey
  <2> QED BY <2>2, <2>3 DEF EvalIP
<1> QED BY <1>1, <1>2

\* Loading a line keeps the invariant.
LEMMA AddressesStep ==
  ASSUME AddressesInv, NEW l \in Lines, Load(l)
  PROVE  AddressesInv'
<1> DEFINE plain == {r \in ipRules : ~EndsWith(r, Star)}
           star == {r \in ipRules : EndsWith(r, Star)}
           t == IPText(l)
<1>0. ipRules' = ipRules \cup {l} /\ t # <<>> /\ \A k \in DOMAIN t : t[k] # Star
  BY SMTT(30) DEF Load, Rejected
<1>1. CASE EndsWith(l, Star)
  <2>1. plain' = plain /\ star' = star \cup {l}
    BY <1>0, <1>1
  <2>2. blockedIPs' = blockedIPs /\ blockedPrefixes' = blockedPrefixes \cup {t}
    BY <1>1 DEF Load
  <2>3. /\ blockedIPs = {IPText(r) : r \in plain} /\ blockedPrefixes = {IPText(r) : r \in star}
        /\ \A s \in blockedIPs \cup blockedPrefixes : s # <<>> /\ \A k \in DOMAIN s : s[k] # Star
    BY DEF AddressesInv, AddressesTypeOK
  <2>4. blockedIPs' = {IPText(r) : r \in plain'} /\ blockedPrefixes' = {IPText(r) : r \in star'}
    BY <2>1, <2>2, <2>3
  <2>5. \A s \in blockedIPs' \cup blockedPrefixes' : s # <<>> /\ \A k \in DOMAIN s : s[k] # Star
    BY <1>0, <2>2, <2>3
  <2> QED BY <1>0, <2>4, <2>5 DEF AddressesInv, AddressesTypeOK
<1>2. CASE ~EndsWith(l, Star)
  <2>1. star' = star /\ plain' = plain \cup {l}
    BY <1>0, <1>2
  <2>2. blockedPrefixes' = blockedPrefixes /\ blockedIPs' = blockedIPs \cup {t}
    BY <1>2 DEF Load
  <2>3. /\ blockedIPs = {IPText(r) : r \in plain} /\ blockedPrefixes = {IPText(r) : r \in star}
        /\ \A s \in blockedIPs \cup blockedPrefixes : s # <<>> /\ \A k \in DOMAIN s : s[k] # Star
    BY DEF AddressesInv, AddressesTypeOK
  <2>4. blockedIPs' = {IPText(r) : r \in plain'} /\ blockedPrefixes' = {IPText(r) : r \in star'}
    BY <2>1, <2>2, <2>3
  <2>5. \A s \in blockedIPs' \cup blockedPrefixes' : s # <<>> /\ \A k \in DOMAIN s : s[k] # Star
    BY <1>0, <2>2, <2>3
  <2> QED BY <1>0, <2>4, <2>5 DEF AddressesInv, AddressesTypeOK
<1> QED BY <1>1, <1>2
-----------------------------------------------------------------------------
(***************************************************************************)
(* Both                                                                    *)
(***************************************************************************)

MatchersInv == NamesInv /\ AddressesInv

\* MatchersInv is inductive.
LEMMA MatchersInvariant == Spec => []MatchersInv
<1>1. Init => MatchersInv
  <2> SUFFICES ASSUME Init PROVE MatchersInv
    OBVIOUS
  <2>1. DOMAIN <<>> = {} /\ \A S : <<>> \in Seq(S)
    OBVIOUS
  <2>2. \A type : Added(type) = {}
    BY <2>1 DEF Init, NamesInit, Added
  <2>3. Range(<<>>) = {}
    BY <2>1 DEF Range
  <2>4. NamesInv
    BY <2>1, <2>2, <2>3 DEF NamesInv, Init, NamesInit
  <2>5. AddressesInv
    BY DEF AddressesInv, AddressesTypeOK, Init, AddressesInit
  <2> QED BY <2>4, <2>5 DEF MatchersInv
<1>2. MatchersInv /\ [Next]_<<names, addresses>> => MatchersInv'
  <2> SUFFICES ASSUME MatchersInv, [Next]_<<names, addresses>> PROVE MatchersInv'
    BY SMTT(30)
  <2>1. UNCHANGED names => NamesInv'
    BY ZenonT(30) DEF MatchersInv, NamesInv, Added, names
  <2>2. UNCHANGED addresses => AddressesInv'
    BY DEF MatchersInv, AddressesInv, AddressesTypeOK, addresses
  <2>3. NamesNext => NamesInv'
    BY NamesStep DEF MatchersInv, NamesNext
  <2>4. AddressesNext => AddressesInv'
    BY AddressesStep DEF MatchersInv, AddressesNext
  <2> QED BY <2>1, <2>2, <2>3, <2>4 DEF MatchersInv, Next
<1> QED BY <1>1, <1>2, PTL DEF Spec

\* Every rule that was accepted is stored where Eval looks for it
\* (pattern_matcher.go:65-109, plugin_block_ip.go:44-69).
THEOREM RulesStored == Spec => []TypeOK
<1>1. MatchersInv => TypeOK
  BY NamesTypeLemma DEF MatchersInv, AddressesInv, TypeOK
<1> QED BY <1>1, MatchersInvariant, PTL

\* A name or an address is rejected only if one of the rules covers it, for all
\* patterns (without classes and escapes), lines, names and addresses
\* (pattern_matcher.go:118-161, plugin_block_ip.go:112-118).
THEOREM RejectedOnlyByRules == Spec => []Sound
<1>1. MatchersInv => Sound
  BY NamesSoundLemma, AddressesSoundLemma DEF MatchersInv, Sound
<1> QED BY <1>1, MatchersInvariant, PTL

\* With one suffix and one prefix at most, what a rule covers is rejected, for all
\* patterns (without classes and escapes), lines, names and addresses; except by a
\* glob, if the name has a slash, for which its wildcards do not stand
\* (pattern_matcher.go:128-161, plugin_block_ip.go:53-55).
THEOREM NothingMissedWithOne == Spec => []CompleteWithOne
<1>1. MatchersInv => CompleteWithOne
  BY NamesCompleteLemma, AddressesCompleteLemma DEF MatchersInv, CompleteWithOne
<1> QED BY <1>1, MatchersInvariant, PTL
=============================================================================
