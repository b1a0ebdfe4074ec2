------------------------------- MODULE Tries -------------------------------
(***************************************************************************)
(* Strings are sequences of characters.  The tries of critbitgo and        *)
(* go-immutable-radix, which are vendored, find the longest key that a     *)
(* string has as a prefix; their nodes are left out.                       *)
(*                                                                         *)
(* The operators on sequences are written out, because each obligation of  *)
(* MatchersProof is many times slower with SequencesExt in its context.    *)
(***************************************************************************)
EXTENDS Integers, Sequences, Functions, FiniteSetsExt

Star == "*"
Dot == "."
Colon == ":"

Front(s) == SubSeq(s, 1, Len(s) - 1)
Last(s) == s[Len(s)]
Reverse(s) == [k \in 1..Len(s) |-> s[Len(s) - k + 1]]
IsPrefix(k, s) == Len(k) <= Len(s) /\ \A i \in 1..Len(k) : k[i] = s[i]

StartsWith(s, c) == s # <<>> /\ Head(s) = c
EndsWith(s, c) == s # <<>> /\ Last(s) = c

Prefixed(s, keys) == {k \in keys : IsPrefix(k, s)}

LongestPrefix(s, keys) ==
  CHOOSE k \in Prefixed(s, keys) : \A j \in Prefixed(s, keys) : Len(j) <= Len(k)

\* A key ends where the string does, or at a separator.
Aligned(s, k, separators) == Len(k) = Len(s) \/ s[Len(k) + 1] \in separators

\* A set with one element at most.
AtMostOne(S) == \A a, b \in S : a = b
=============================================================================
