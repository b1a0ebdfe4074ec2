---------------------------- MODULE DNSCryptCert ----------------------------
(***************************************************************************)
(* The choice of a certificate among the records a DNSCrypt server returns *)
(* (FetchCurrentDNSCryptCert, dnscrypt_certs.go): one pass over the        *)
(* records, in any order the server likes.                                 *)
(*                                                                         *)
(* A record is what the loop looks at.  The keys a certificate holds are   *)
(* told apart by its place.  CertInfo.ForwardSecurity, which nothing       *)
(* reads, is left out.                                                     *)
(***************************************************************************)
EXTENDS Integers, Sequences

CONSTANTS Serials, Times,    \* the serials and the dates certificates may have
          MaxRecords,        \* bound on the number of records
          Now,
          IgnoreTimestamp    \* certIgnoreTimestamp

ASSUME DNSCryptCertAssumption ==
  /\ Serials \subseteq Nat /\ Times \subseteq Nat /\ Now \in Nat /\ MaxRecords \in Nat
  /\ IgnoreTimestamp \in BOOLEAN

Undefined == 0
XSalsa20Poly1305 == 1
XChacha20Poly1305 == 2

\* A record that is no certificate has a version that is not supported.
Record == [es : {Undefined, XSalsa20Poly1305, XChacha20Poly1305}, signed : BOOLEAN,
           serial : Serials, begin : Times, end : Times]

VARIABLES answer,         \* in.Answer
          i,              \* the record at hand
          highestSerial,
          construction,   \* certInfo.CryptoConstruction
          chosen          \* the record whose keys certInfo has

vars == <<answer, i, highestSerial, construction, chosen>>

\* The records of a response, in some order.
Responses == UNION {[1..n -> Record] : n \in 0..MaxRecords}

Init == /\ answer \in Responses
        /\ i = 1 /\ highestSerial = 0 /\ construction = Undefined /\ chosen = 0

\* The records that are not skipped for themselves.
Usable(c) == /\ c.es # Undefined /\ c.signed
             /\ c.begin < c.end
             /\ IgnoreTimestamp \/ (c.begin <= Now /\ Now <= c.end)

\* Mutant of Supersedes: any certificate with a better construction will do.
SupersedesConstruction(c) == \/ c.es > construction
                             \/ c.es = construction /\ c.serial >= highestSerial

\* Whether a certificate replaces the one chosen so far.
Supersedes(c) == \/ c.serial > highestSerial
                 \/ c.serial = highestSerial /\ c.es >= construction

Examine ==
  /\ i <= Len(answer)
  /\ LET c == answer[i] IN
       IF Usable(c) /\ Supersedes(c)
         THEN highestSerial' = c.serial /\ construction' = c.es /\ chosen' = i
         ELSE UNCHANGED <<highestSerial, construction, chosen>>
  /\ i' = i + 1
  /\ UNCHANGED answer

Next == Examine

Spec == Init /\ [][Next]_vars

-----------------------------------------------------------------------------
\* The variables have the types of the code's.
TypeOK ==
  /\ answer \in Seq(Record)
  /\ i \in 1..(Len(answer) + 1)
  /\ highestSerial \in Nat /\ construction \in {Undefined, XSalsa20Poly1305, XChacha20Poly1305}
  /\ chosen \in 0..Len(answer)

\* c is at least as good as d: a more recent serial, then the construction.
Beats(c, d) == c.serial > d.serial \/ (c.serial = d.serial /\ c.es >= d.es)

\* Whatever the order of the records, the server is used with a certificate
\* that is signed and valid, and that no other signed and valid certificate
\* read so far beats; and "No usable certificate found" is only said when
\* there is none (dnscrypt_certs.go:142-184).
BestSoFar ==
  /\ construction # Undefined <=> chosen # 0
  /\ chosen # 0 => /\ chosen < i
                   /\ Usable(answer[chosen])
                   /\ construction = answer[chosen].es
                   /\ highestSerial = answer[chosen].serial
  /\ \A j \in 1..(i - 1) : Usable(answer[j]) => chosen # 0 /\ Beats(answer[chosen], answer[j])
=============================================================================
