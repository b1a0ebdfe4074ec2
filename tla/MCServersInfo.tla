--------------------------- MODULE MCServersInfo ---------------------------
(***************************************************************************)
(* A small instance of ServersInfo for TLC.                                *)
(***************************************************************************)
EXTENDS ServersInfo, SequencesExt

MCOneServer == <<[name |-> "a", stamp |-> 1]>>

-----------------------------------------------------------------------------
\* The loop that ends estimatorUpdate, iteration by iteration.
PartialSort(s) ==
  LET Iterate(t, i) == IF t[i].rtt > t[i + 1].rtt THEN Swap(t, i, i + 1) ELSE t
  IN  FoldLeft(Iterate, s, [i \in 1 .. Len(s) - 1 |-> i])

\* Servers are told apart by their position.
MCLists == {[k \in 1 .. n |-> [name |-> k, rtt |-> rtts[k]]] : n \in 1 .. 5, rtts \in [1 .. 5 -> 0 .. 2]}

\* The closed form that the models and the proofs use is what the loop of
\* estimatorUpdate computes (serversInfo.go:311-317), ties included.
ASSUME LoopIsBubblePass == \A s \in MCLists : PartialSort(s) = BubblePass(s)
=============================================================================
