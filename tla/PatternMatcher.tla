--------------------------- MODULE PatternMatcher ---------------------------
(***************************************************************************)
(* The rules for names (pattern_matcher.go), of blocked and allowed names, *)
(* cloaking and the captive portal handler.  Character classes and escaped *)
(* characters are left out.                                                *)
(***************************************************************************)
EXTENDS Tries

CONSTANTS Patterns,   \* the patterns of rules, in lower case
          Names,      \* normalised names
          Vals,       \* what rules carry, such as a schedule
          MaxRules    \* bound: the number of rules

AnyChar == "?"
Exact == "="
Slash == "/"

VARIABLES prefixes, suffixes, exact,    \* functions from strings to values
          substrings, globs,            \* sequences of strings
          indirectVals,                 \* the values of the last two
          nameRules                     \* all rules added, with their values

names == <<prefixes, suffixes, exact, substrings, globs, indirectVals, nameRules>>

-----------------------------------------------------------------------------
\* The lengths of the prefixes of s that the first k characters of p match, for
\* every k, when wildcards do not stand for the characters of opaque.
Reached(p, s, opaque) ==
  LET R[k \in 0..Len(p)] ==
        IF k = 0 THEN {0}
        ELSE LET before == R[k - 1]
             IN  IF p[k] = Star
                   THEN {j \in 0..Len(s) :
                           \E i \in before : i <= j /\ \A h \in (i + 1)..j : s[h] \notin opaque}
                   ELSE {j \in 1..Len(s) :
                           /\ j - 1 \in before
                           /\ p[k] = s[j] \/ (p[k] = AnyChar /\ s[j] \notin opaque)}
  IN  R

Fits(p, s, opaque) == Len(s) \in Reached(p, s, opaque)[Len(p)]

\* filepath.Match (external), for which a slash separates the elements of a path.
GlobMatch(p, s) == Fits(p, s, {Slash})

IsGlobCandidate(p) == \E k \in DOMAIN p : p[k] = AnyChar \/ (p[k] = Star /\ k \notin {1, Len(p)})

Type(p) == IF IsGlobCandidate(p) THEN "glob"
           ELSE IF StartsWith(p, Star) /\ EndsWith(p, Star) THEN "substring"
           ELSE IF EndsWith(p, Star) THEN "prefix"
           ELSE IF StartsWith(p, Exact) THEN "exact"
           ELSE "suffix"

After(s, c) == IF StartsWith(s, c) THEN Tail(s) ELSE s

\* The part of a pattern that is looked for.
Text(p) == CASE Type(p) = "glob" -> p
             [] Type(p) = "substring" -> SubSeq(p, 2, Len(p) - 1)
             [] Type(p) = "prefix" -> Front(p)
             [] Type(p) = "exact" -> Tail(p)
             [] Type(p) = "suffix" -> After(After(p, Star), Dot)

SyntaxError(p) == \/ Type(p) = "substring" /\ Len(p) < 3
                  \/ Type(p) \in {"glob", "prefix", "exact"} /\ Len(p) < 2

\* A map keeps the last value of a key, a trie the first.
Stored(map, k, v) == [t \in DOMAIN map \cup {k} |-> IF t = k THEN v ELSE map[t]]
Inserted(trie, k, v) == IF k \in DOMAIN trie THEN trie ELSE Stored(trie, k, v)

Add(p, v) ==
  /\ Len(nameRules) < MaxRules
  /\ ~SyntaxError(p)
  /\ LET text == Text(p)
         type == Type(p)
     IN  /\ prefixes' = IF type = "prefix" THEN Inserted(prefixes, text, v) ELSE prefixes
         /\ suffixes' = IF type = "suffix" THEN Inserted(suffixes, Reverse(text), v) ELSE suffixes
         /\ exact' = IF type = "exact" THEN Stored(exact, text, v) ELSE exact
         /\ substrings' = IF type = "substring" THEN Append(substrings, text) ELSE substrings
         /\ globs' = IF type = "glob" THEN Append(globs, text) ELSE globs
         /\ indirectVals' = IF type \in {"substring", "glob"} THEN Stored(indirectVals, text, v)
                                                              ELSE indirectVals
  /\ nameRules' = Append(nameRules, [pattern |-> p, val |-> v])

-----------------------------------------------------------------------------
(***************************************************************************)
(* Eval                                                                    *)
(***************************************************************************)
NoMatch == [reject |-> FALSE]
Match(val) == [reject |-> TRUE, val |-> val]

\* Mutant of AlignedSuffix: a suffix may begin inside a label.
UnalignedSuffix(r, found) == TRUE

AlignedSuffix(r, found) == Aligned(r, found, {Dot})

\* strings.LastIndex: where the first label of the reversed name begins.
LastDot(r) == Max({k \in DOMAIN r : r[k] = Dot})

HasParent(r) == (\E k \in DOMAIN r : r[k] = Dot) /\ LastDot(r) > 1

\* The reversed name without its first label.
Parent(r) == SubSeq(r, 1, LastDot(r) - 1)

\* A suffix that begins inside a label does not count.  The parent of the name
\* is then tried, and the value of the first suffix is returned.
EvalSuffix(r) ==
  IF Prefixed(r, DOMAIN suffixes) = {} THEN NoMatch
  ELSE LET found == LongestPrefix(r, DOMAIN suffixes)
       IN  IF AlignedSuffix(r, found) THEN Match(suffixes[found])
           ELSE IF /\ HasParent(r)
                   /\ Prefixed(Parent(r), DOMAIN suffixes) # {}
                   /\ AlignedSuffix(Parent(r), LongestPrefix(Parent(r), DOMAIN suffixes))
                THEN Match(suffixes[found])
           ELSE NoMatch

\* strings.Contains
Holds(n, t) == \E i \in 0..(Len(n) - Len(t)) : SubSeq(n, i + 1, i + Len(t)) = t

\* Mutant of Eval: after a suffix that does not match, nothing else is tried.
EvalSuffixLast(n) ==
  LET holding == {k \in DOMAIN substrings : Holds(n, substrings[k])}
      fitting == {k \in DOMAIN globs : GlobMatch(globs[k], n)}
  IN  IF Len(n) < 2 THEN NoMatch
      ELSE IF n \in DOMAIN exact THEN Match(exact[n])
      ELSE IF Prefixed(Reverse(n), DOMAIN suffixes) # {} THEN EvalSuffix(Reverse(n))
      ELSE IF Prefixed(n, DOMAIN prefixes) # {} THEN Match(prefixes[LongestPrefix(n, DOMAIN prefixes)])
      ELSE IF holding # {} THEN Match(indirectVals[substrings[Min(holding)]])
      ELSE IF fitting # {} THEN Match(indirectVals[globs[Min(fitting)]])
      ELSE NoMatch

Eval(n) ==
  LET holding == {k \in DOMAIN substrings : Holds(n, substrings[k])}
      fitting == {k \in DOMAIN globs : GlobMatch(globs[k], n)}
  IN  IF Len(n) < 2 THEN NoMatch
      ELSE IF n \in DOMAIN exact THEN Match(exact[n])
      ELSE IF EvalSuffix(Reverse(n)).reject THEN EvalSuffix(Reverse(n))
      ELSE IF Prefixed(n, DOMAIN prefixes) # {} THEN Match(prefixes[LongestPrefix(n, DOMAIN prefixes)])
      ELSE IF holding # {} THEN Match(indirectVals[substrings[Min(holding)]])
      ELSE IF fitting # {} THEN Match(indirectVals[globs[Min(fitting)]])
      ELSE NoMatch

NamesInit == /\ prefixes = <<>> /\ suffixes = <<>> /\ exact = <<>> /\ indirectVals = <<>>
             /\ substrings = <<>> /\ globs = <<>> /\ nameRules = <<>>

NamesNext == \E p \in Patterns, v \in Vals : Add(p, v)

-----------------------------------------------------------------------------
(***************************************************************************)
(* What example-blocked-names.txt says that patterns match.                *)
(***************************************************************************)

\* A pattern with wildcards, other than the star of "*.example.com".
IsZoneStar(p) == Len(p) > 1 /\ p[1] = Star /\ p[2] = Dot
Wild(p) == \E k \in DOMAIN p : p[k] \in {Star, AnyChar} /\ ~(k = 1 /\ IsZoneStar(p))

\* "example.com" and "*.example.com" name the same zone.
Zone(p) == IF IsZoneStar(p) THEN SubSeq(p, 3, Len(p)) ELSE After(p, Dot)

\* A name is a zone or within it.
InZone(n, zone) == n = zone \/ \E k \in DOMAIN n : n[k] = Dot /\ SubSeq(n, k + 1, Len(n)) = zone

Matches(p, n) == IF Wild(p) THEN Fits(p, n, {})
                 ELSE IF StartsWith(p, Exact) THEN n = Tail(p)
                 ELSE InZone(n, Zone(p))

Matching(n) == {k \in DOMAIN nameRules : Matches(nameRules[k].pattern, n)}

\* "*example.com", whose star stands for the beginning of a name.  It is taken for
\* a zone.
AnyEnding(p) == Type(p) = "suffix" /\ Wild(p)

\* A glob, and a name with a slash, which its wildcards do not stand for.
MeetsSlash(p, n) == Type(p) = "glob" /\ \E k \in DOMAIN n : n[k] = Slash

\* The rules are where Eval looks for them, each under a key of its type.
NamesTypeOK ==
  /\ \A k \in DOMAIN nameRules :
       LET p == nameRules[k].pattern
       IN  CASE Type(p) = "suffix" -> Reverse(Text(p)) \in DOMAIN suffixes
             [] Type(p) = "prefix" -> Text(p) \in DOMAIN prefixes
             [] Type(p) = "exact" -> Text(p) \in DOMAIN exact
             [] Type(p) = "substring" -> Text(p) \in Range(substrings)
             [] Type(p) = "glob" -> Text(p) \in Range(globs)
  /\ DOMAIN indirectVals = Range(substrings) \cup Range(globs)

\* A name is rejected only if one of the rules matches it as documented,
\* however rules overlap (pattern_matcher.go:118-161).
NamesSound == \A n \in Names : Eval(n).reject => Matching(n) # {}

\* With one suffix at most, no name of two characters or more that a rule
\* matches is missed, whatever the rules of other types and their order
\* (pattern_matcher.go:128-141: a suffix that does not match leaves the name to the
\* other rules), unless wildcards inside a rule meet a slash in the name.
CompleteWithOneSuffix ==
  AtMostOne(DOMAIN suffixes) =>
    \A n \in Names : \A k \in Matching(n) :
      /\ Len(n) > 1
      /\ ~AnyEnding(nameRules[k].pattern) /\ ~MeetsSlash(nameRules[k].pattern, n)
      => Eval(n).reject

-----------------------------------------------------------------------------
(***************************************************************************)
(* What a document or a comment says and the code does not do: no run      *)
(* checks these, and each has a counterexample (see the README).           *)
(***************************************************************************)

\* "example.com: matches example.com and all names within that zone", whatever
\* the other rules.
NamesComplete ==
  \A n \in Names : \A k \in Matching(n) :
    /\ Len(n) > 1
    /\ ~AnyEnding(nameRules[k].pattern) /\ ~MeetsSlash(nameRules[k].pattern, n)
    => Eval(n).reject

\* "*, ? and [] can be used anywhere" (example-blocked-names.txt:15): also as the
\* first character of a rule that is the only one.
StarsAnywhere ==
  \A n \in Names : /\ Len(nameRules) = 1 /\ Len(n) > 1
                   /\ \E k \in Matching(n) : ~MeetsSlash(nameRules[k].pattern, n)
                   => Eval(n).reject

\* "*, ? and [] can be used anywhere": also where a name that NormalizeQName lets
\* through has a slash.
WildcardsStandForAll ==
  \A n \in Names : /\ Len(nameRules) = 1 /\ Len(n) > 1
                   /\ \E k \in Matching(n) : ~AnyEnding(nameRules[k].pattern)
                   => Eval(n).reject

\* A pattern followed by a schedule applies "only when it matches a time range
\* of that schedule": the value comes from a rule that matches.
ValueOfTheRule ==
  \A n \in Names : Eval(n).reject => \E k \in Matching(n) : nameRules[k].val = Eval(n).val
=============================================================================
