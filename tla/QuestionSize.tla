---------------------------- MODULE QuestionSize ----------------------------
(***************************************************************************)
(* The size of DNSCrypt questions: their padding (Encrypt and Decrypt,     *)
(* crypto.go), the estimate of the size that leaves room for responses     *)
(* (estimators.go), and the retries over TCP (proxy.go).                   *)
(*                                                                         *)
(* A packet is its bytes, of which padding tells 0 and 0x80 apart from the *)
(* others.  Encryption itself adds QueryOverhead and is otherwise left     *)
(* out.  The code's sizes are constants: only their order matters.         *)
(***************************************************************************)
EXTENDS Integers, Sequences

CONSTANTS Packets,        \* the queries of clients, sequences of bytes
          Sizes,          \* what responses measure, with ResponseOverhead
          Averages,       \* bound: the values of the moving average
          Xpads,          \* the random bytes added over TCP
          Block,          \* 64
          QueryOverhead,  \* 68
          Initial,        \* InitialMinQuestionSize
          Safe,           \* MaxDNSUDPSafePacketSize
          MaxSize         \* MaxDNSUDPPacketSize, MaxDNSPacketSize

Delimiter == 128
Bytes == {0, 1, Delimiter}

ASSUME QuestionSizeAssumption ==
  /\ Packets \subseteq Seq(Bytes) /\ {Sizes, Averages, Xpads} \subseteq SUBSET Nat
  /\ {Block, Initial, Safe, MaxSize} \subseteq Nat \ {0} /\ QueryOverhead \in Nat
  /\ QueryOverhead < Safe /\ Safe <= MaxSize /\ Initial <= MaxSize /\ QueryOverhead < Initial

VARIABLES minQuestionSize, average,   \* of the QuestionSizeEstimator
          query                       \* the query of a goroutine

sizeVars == <<minQuestionSize, average, query>>

Larger(a, b) == IF a > b THEN a ELSE b
Smaller(a, b) == IF a < b THEN a ELSE b

-----------------------------------------------------------------------------
(***************************************************************************)
(* crypto.go                                                               *)
(***************************************************************************)
Zeros(n) == [k \in 1..n |-> 0]

Pad(packet, size) == packet \o <<Delimiter>> \o Zeros(Larger(size - Len(packet) - 1, 0))

\* Everything before the last byte that is not 0, which has to be the delimiter.
Unpadded(padded, packet) ==
  \E n \in 1..Len(padded) : /\ padded[n] = Delimiter
                            /\ \A k \in (n + 1)..Len(padded) : padded[k] = 0
                            /\ packet = SubSeq(padded, 1, n - 1)

RoundUp(size) == ((size + 1 + Block - 1) \div Block) * Block

\* Mutant of PaddedLength: the length over TCP is not bounded below.
PaddedLengthTCP(q, proto, xpad) ==
  IF proto = "udp" THEN (IF q.blocked THEN Safe
                         ELSE Smaller(MaxSize, RoundUp(Larger(minQuestionSize, QueryOverhead + Len(q.packet)))))
  ELSE IF q.relay THEN Safe ELSE Smaller(MaxSize, RoundUp(QueryOverhead + Len(q.packet) + xpad))

\* The length of the encrypted question.
PaddedLength(q, proto, xpad) ==
  IF proto = "udp" /\ q.blocked THEN Safe
  ELSE IF proto = "tcp" /\ q.relay THEN MaxSize
  ELSE Smaller(MaxSize, RoundUp(IF proto = "udp" THEN Larger(minQuestionSize, QueryOverhead + Len(q.packet))
                                                 ELSE QueryOverhead + Len(q.packet) + xpad))

\* Mutant of Fits: the delimiter is forgotten.
FitsExactly(q, proto, xpad) == QueryOverhead + Len(q.packet) <= PaddedLength(q, proto, xpad)

Fits(q, proto, xpad) == QueryOverhead + Len(q.packet) + 1 <= PaddedLength(q, proto, xpad)

Idle == [pc |-> "idle"]

\* Encrypt, for a query that fits.
Encrypted(q, proto, xpad) ==
  [pc |-> proto, packet |-> q.packet, blocked |-> q.blocked, relay |-> q.relay,
   padded |-> Pad(q.packet, PaddedLength(q, proto, xpad) - QueryOverhead),
   size |-> PaddedLength(q, proto, xpad), min |-> minQuestionSize]

Failed(q) == [pc |-> "failed", packet |-> q.packet]

-----------------------------------------------------------------------------
(***************************************************************************)
(* processIncomingQuery                                                    *)
(***************************************************************************)

\* A query is encrypted for UDP, or for TCP if it has to be, or is too large.
Ask(q, proto, xpad) ==
  /\ query = Idle
  /\ query' = IF proto = "udp" /\ Fits(q, "udp", xpad) THEN Encrypted(q, "udp", xpad)
              ELSE IF Fits(q, "tcp", xpad) THEN Encrypted(q, "tcp", xpad)
              ELSE Failed(q)
  /\ UNCHANGED <<minQuestionSize, average>>

\* The response is truncated, or there is none: the query is encrypted again.
RetryOverTCP(xpad) ==
  /\ query.pc = "udp"
  /\ query' = IF Fits(query, "tcp", xpad) THEN Encrypted(query, "tcp", xpad) ELSE Failed(query)
  /\ UNCHANGED <<minQuestionSize, average>>

Done == /\ query # Idle
        /\ query' = Idle
        /\ UNCHANGED <<minQuestionSize, average>>

-----------------------------------------------------------------------------
(***************************************************************************)
(* The estimator, which all goroutines use.                                *)
(***************************************************************************)

\* A client has been sent a truncated response.
BlindAdjust ==
  /\ minQuestionSize' = IF MaxSize - minQuestionSize < minQuestionSize THEN MaxSize ELSE 2 * minQuestionSize
  /\ average' = minQuestionSize'
  /\ UNCHANGED query

\* The exponential average after a sample: between the two, or the sample if
\* it is the first (SimpleEWMA, vendored).
After(size) == {a \in Averages \cup {size} :
                  IF average = 0 THEN a = size
                                 ELSE Smaller(average, size) <= a /\ a <= Larger(average, size)}

\* A client has been sent a complete response.
Adjust(size) ==
  /\ average' \in After(size)
  /\ minQuestionSize' = IF average' > Initial /\ average' < minQuestionSize \div 2
                          THEN Larger(Initial, minQuestionSize \div 2) ELSE minQuestionSize
  /\ UNCHANGED query

SizeInit == minQuestionSize = Initial /\ average = 0 /\ query = Idle

SizeNext ==
  \/ \E p \in Packets, blocked, relay \in BOOLEAN, proto \in {"udp", "tcp"}, xpad \in Xpads :
       Ask([packet |-> p, blocked |-> blocked, relay |-> relay], proto, xpad)
  \/ \E xpad \in Xpads : RetryOverTCP(xpad)
  \/ Done
  \/ BlindAdjust
  \/ \E size \in Sizes : Adjust(size)

SizeSpec == SizeInit /\ [][SizeNext]_sizeVars

-----------------------------------------------------------------------------
Queries ==
  {Idle} \cup [pc : {"failed"}, packet : Packets]
    \cup [pc : {"udp", "tcp"}, packet : Packets, blocked : BOOLEAN, relay : BOOLEAN,
          padded : Seq(Bytes), size : Nat, min : Nat]

\* The variables have the types of the code's.  The size never leaves the
\* range of the sizes of packets, however often it is adjusted.
SizeTypeOK ==
  /\ minQuestionSize \in Initial..MaxSize
  /\ average \in Nat
  /\ query \in Queries

\* What a server decrypts is the client's query; the question is no longer than
\* a packet may be; and over UDP it is as long as the estimate asks for, so
\* that responses up to that size are not truncated, unless the server is known
\* to block fragments, when its largest size goes before the estimate
\* (crypto.go:100-122).
PaddedRight ==
  query.pc \in {"udp", "tcp"} =>
    /\ Unpadded(query.padded, query.packet)
    /\ QueryOverhead + Len(query.padded) = query.size /\ query.size <= MaxSize
    /\ query.pc = "udp" /\ ~query.blocked => query.size >= query.min

\* Only a query that leaves no room for the delimiter in the largest packet
\* cannot be sent (crypto.go:117).
FailsOnlyIfTooLong ==
  query.pc = "failed" => QueryOverhead + Len(query.packet) + 1 > MaxSize

\* A query that was sent over UDP can always be sent again over TCP, whatever
\* happened to the estimate meanwhile (proxy.go:714-720).
RetryFits == [][query.pc = "udp" => query'.pc # "failed"]_sizeVars
=============================================================================
