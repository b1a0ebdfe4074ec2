------------------------------ MODULE Matchers ------------------------------
(***************************************************************************)
(* The tables of rules that the filters look names and addresses up in     *)
(* (PatternMatcher and IPMatcher).  A file has rules for names, or for     *)
(* addresses, which are loaded line after line.                            *)
(***************************************************************************)
EXTENDS PatternMatcher, IPMatcher

\* Lines that are empty are skipped.  Character classes and escaped characters,
\* which filepath.Match knows too, are left out.
ASSUME MatchersAssumption ==
  /\ Patterns \subseteq Seq(STRING) \ {<<>>} /\ Names \subseteq Seq(STRING)
  /\ \A p \in Patterns : \A k \in DOMAIN p : p[k] \notin {"[", "\\"}
  /\ Lines \subseteq Seq(STRING) \ {<<>>} /\ Addresses \subseteq Seq(STRING)

Init == NamesInit /\ AddressesInit

Next == \/ ipRules = {} /\ NamesNext /\ UNCHANGED addresses
        \/ nameRules = <<>> /\ AddressesNext /\ UNCHANGED names

Spec == Init /\ [][Next]_<<names, addresses>>

-----------------------------------------------------------------------------
\* Every rule that was accepted is stored where Eval looks for it, under a key of
\* its type (pattern_matcher.go:65-109, plugin_block_ip.go:44-69).
TypeOK == NamesTypeOK /\ AddressesTypeOK

\* A name or an address is rejected only if one of the rules covers it, however
\* rules overlap: a suffix counts only where a label begins, and a prefix only
\* where a number ends (pattern_matcher.go:118-161, plugin_block_ip.go:112-118).
Sound == NamesSound /\ AddressesSound

\* With one suffix at most, no name of two characters or more that a rule
\* matches is missed, whatever the rules of other types and their order
\* (pattern_matcher.go:128-141: a suffix that does not match leaves the name to the
\* other rules); rules that are a star and an ending are taken for zones, and
\* wildcards inside a rule do not stand for slashes.  An address of the rules, or
\* one that the only prefix covers, is rejected, even if a rule ends in a
\* separator (plugin_block_ip.go:53-55).
CompleteWithOne == CompleteWithOneSuffix /\ CompleteWithOnePrefix
=============================================================================
