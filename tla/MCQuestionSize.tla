--------------------------- MODULE MCQuestionSize ---------------------------
\* QuestionSize with sizes small enough to enumerate packets.
EXTENDS QuestionSize

MCPackets == UNION {[1..n -> Bytes] : n \in 1..3} \cup {Zeros(n) : n \in 4..12}
=============================================================================
