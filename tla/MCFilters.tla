----------------------------- MODULE MCFilters -----------------------------
(***************************************************************************)
(* Small sets of rules and of responses.                                   *)
(***************************************************************************)
EXTENDS Filters, TLC

MCLine(of, range) == [of |-> of, range |-> range]

MCAllow == {MCLine("good", "night")}
MCBlock == {MCLine("bad", "night"), MCLine("good", "unknown")}
MCAllowIP == {MCLine("10", None), MCLine("66", "night")}
MCBlockIP == {MCLine("66", None)}

\* Nights span midnight, and the second day is all night.
MCNight == [r \in {"night"} |-> [d \in 0..1 |-> {IF d = 0 THEN [after |-> 2, before |-> 0]
                                                          ELSE [after |-> 1, before |-> 1]}]]

\* The ninth alias of the long one is not looked at.
MCLongAnswer == [k \in 1..8 |-> Alias("bad")] \o <<Alias("good"), Address("1")>>
MCAnswers == {<<Address("66")>>, <<Alias("good"), Address("1")>>, <<Alias("bad"), Address("10")>>, MCLongAnswer}

MCSymmetry == Permutations(Sessions)
=============================================================================
