---------------------------- MODULE ClientSlots ----------------------------
(***************************************************************************)
(* The pool of slots, and what it tells the workers: a request is granted, *)
(* or refused at a moment when all slots are taken.                        *)
(***************************************************************************)
EXTENDS SlotPool

VARIABLE result  \* what each worker's last request was answered

SlotsInit == held = {} /\ result = [w \in Workers |-> "none"]

Acquire(w) == Take(w) /\ result' = [result EXCEPT ![w] = "granted"]

Refuse(w) == /\ Cardinality(held) >= MaxClients
             /\ result' = [result EXCEPT ![w] = "refused"]
             /\ UNCHANGED held

Release(w) == Give(w) /\ UNCHANGED result

SlotsNext == \E w \in Workers : Acquire(w) \/ Refuse(w) \/ Release(w)

SlotsSpec == SlotsInit /\ [][SlotsNext]_<<held, result>>
=============================================================================
