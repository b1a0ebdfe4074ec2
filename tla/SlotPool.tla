------------------------------ MODULE SlotPool ------------------------------
(***************************************************************************)
(* What the client limit of the proxy promises: a pool of MaxClients slots *)
(* taken and given back atomically.  A goroutine takes one slot for the    *)
(* query it handles and a second one for a DNS64 subquery.                 *)
(***************************************************************************)
EXTENDS Integers, FiniteSets

CONSTANTS Workers, MaxClients

VARIABLE held   \* the slots taken: <<worker, depth>>

Tokens == Workers \X {1, 2}

NextToken(w) == IF <<w, 1>> \in held THEN <<w, 2>> ELSE <<w, 1>>
LastToken(w) == IF <<w, 2>> \in held THEN <<w, 2>> ELSE <<w, 1>>

Take(w) == /\ NextToken(w) \notin held
           /\ Cardinality(held) < MaxClients
           /\ held' = held \cup {NextToken(w)}

Give(w) == /\ LastToken(w) \in held
           /\ held' = held \ {LastToken(w)}

PoolSpec == held = {} /\ [][\E w \in Workers : Take(w) \/ Give(w)]_held
=============================================================================
