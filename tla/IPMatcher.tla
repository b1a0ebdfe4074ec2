----------------------------- MODULE IPMatcher -----------------------------
(***************************************************************************)
(* The rules for addresses (Init and Eval of plugin_block_ip.go, and of    *)
(* plugin_allow_ip.go, which are the same).                                *)
(*                                                                         *)
(* An address is a string of numbers and separators.  Rules are loaded one *)
(* line after the other, and addresses are then looked up.                 *)
(***************************************************************************)
EXTENDS Tries

CONSTANTS Lines,      \* the lines of rules
          Addresses   \* the addresses of responses

VARIABLES blockedIPs, blockedPrefixes,   \* sets of strings
          ipRules                        \* all lines that were accepted

addresses == <<blockedIPs, blockedPrefixes, ipRules>>

Separators == {Dot, Colon}

Without(l, chars) == IF \E c \in chars : EndsWith(l, c) THEN Front(l) ELSE l

IPText(l) == Without(Without(l, {Star}), Separators)

Rejected(l) == \/ Len(l) < 2
               \/ IPText(l) = <<>>
               \/ \E k \in DOMAIN IPText(l) : IPText(l)[k] = Star

Load(l) ==
  /\ l \notin ipRules
  /\ ~Rejected(l)
  /\ IF EndsWith(l, Star)
       THEN blockedPrefixes' = blockedPrefixes \cup {IPText(l)} /\ UNCHANGED blockedIPs
       ELSE blockedIPs' = blockedIPs \cup {IPText(l)} /\ UNCHANGED blockedPrefixes
  /\ ipRules' = ipRules \cup {l}

\* Only the longest prefix is looked at.
EvalIP(ip) ==
  \/ ip \in blockedIPs
  \/ /\ Prefixed(ip, blockedPrefixes) # {}
     /\ Aligned(ip, LongestPrefix(ip, blockedPrefixes), Separators)

AddressesInit == blockedIPs = {} /\ blockedPrefixes = {} /\ ipRules = {}

AddressesNext == \E l \in Lines : Load(l)

-----------------------------------------------------------------------------
\* A rule is an address, or the first numbers of one and a star.  It may end in a
\* separator.
Covers(l, ip) ==
  IF EndsWith(l, Star)
    THEN LET numbers == Without(Front(l), Separators)
         IN  IsPrefix(numbers, ip) /\ Aligned(ip, numbers, Separators)
    ELSE ip = Without(l, Separators)

\* Every rule that was accepted is stored, and what is stored is not empty and
\* has no stars.
AddressesTypeOK ==
  /\ blockedIPs = {IPText(l) : l \in {r \in ipRules : ~EndsWith(r, Star)}}
  /\ blockedPrefixes = {IPText(l) : l \in {r \in ipRules : EndsWith(r, Star)}}
  /\ \A t \in blockedIPs \cup blockedPrefixes : t # <<>> /\ \A k \in DOMAIN t : t[k] # Star

\* An address is rejected only if one of the rules covers it: a prefix counts
\* only where a number ends (plugin_block_ip.go:112-118).
AddressesSound == \A ip \in Addresses : EvalIP(ip) => \E l \in ipRules : Covers(l, ip)

\* An address of the rules, or one that the only prefix covers, is rejected,
\* even if a rule ends in a separator (plugin_block_ip.go:53-55).
CompleteWithOnePrefix ==
  \A ip \in Addresses, l \in ipRules :
    Covers(l, ip) /\ (EndsWith(l, Star) => AtMostOne(blockedPrefixes)) => EvalIP(ip)

-----------------------------------------------------------------------------
(***************************************************************************)
(* What a document or a comment says and the code does not do: no run      *)
(* checks these, and each has a counterexample (see the README).           *)
(***************************************************************************)

\* "Example of valid patterns: 127.*, fe80:abcd:*, 192.168.1.4": what one of the
\* rules covers is rejected, whatever the other rules.
AddressesComplete == \A ip \in Addresses, l \in ipRules : Covers(l, ip) => EvalIP(ip)
=============================================================================
