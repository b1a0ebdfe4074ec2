---------------------------- MODULE ClientsCount ----------------------------
(***************************************************************************)
(* clientsCountInc and clientsCountDec (proxy.go:622-642): the client      *)
(* limit as a counter changed by compare-and-swap loops, one atomic        *)
(* operation per step.  Workers are the goroutines that use the counter:   *)
(* the listeners' queries, and their DNS64 subqueries, which nest.         *)
(***************************************************************************)
EXTENDS Integers, FiniteSets

CONSTANTS Workers,
          MaxClients,  \* proxy.maxClients
          Wrap         \* the range of the counter: 2^32 in the code

ASSUME ClientsCountAssumption ==
  /\ IsFiniteSet(Workers)
  /\ Wrap \in Nat /\ MaxClients \in Nat /\ MaxClients < Wrap

VARIABLES count,  \* proxy.clientsCount
          held,   \* the slots the workers have been granted and not given back
          result, \* what each worker's last clientsCountInc returned
          pc,     \* where each worker is
          seen    \* the local variable count of its loop

vars == <<count, held, result, pc, seen>>

Slots == INSTANCE ClientSlots

Init == /\ Slots!SlotsInit
        /\ count = 0
        /\ pc = [w \in Workers |-> "run"]
        /\ seen = [w \in Workers |-> 0]

Goto(w, label) == pc' = [pc EXCEPT ![w] = label]

\* A listener, or the DNS64 plugin of a query that has a slot, calls clientsCountInc.
Inc(w) == /\ pc[w] = "run" /\ Slots!NextToken(w) \notin held
          /\ Goto(w, "inc")
          /\ UNCHANGED <<count, held, result, seen>>

\* Mutant of IncLoad: one client too many.
IncLoadOffByOne(w) ==
  /\ pc[w] = "inc"
  /\ IF count > MaxClients
       THEN Goto(w, "run") /\ result' = [result EXCEPT ![w] = "refused"] /\ UNCHANGED seen
       ELSE Goto(w, "incCAS") /\ seen' = [seen EXCEPT ![w] = count] /\ UNCHANGED result
  /\ UNCHANGED <<count, held>>

IncLoad(w) ==
  /\ pc[w] = "inc"
  /\ IF count >= MaxClients
       THEN Goto(w, "run") /\ result' = [result EXCEPT ![w] = "refused"] /\ UNCHANGED seen
       ELSE Goto(w, "incCAS") /\ seen' = [seen EXCEPT ![w] = count] /\ UNCHANGED result
  /\ UNCHANGED <<count, held>>

\* Mutant of IncCAS: a failed compare-and-swap is tried again with the same value.
IncCASAgain(w) ==
  /\ pc[w] = "incCAS" /\ UNCHANGED seen
  /\ IF count = seen[w]
       THEN /\ count' = (seen[w] + 1) % Wrap
            /\ held' = held \cup {Slots!NextToken(w)}
            /\ result' = [result EXCEPT ![w] = "granted"]
            /\ Goto(w, "run")
       ELSE UNCHANGED <<count, held, result, pc>>

IncCAS(w) ==
  /\ pc[w] = "incCAS"
  /\ IF count = seen[w]
       THEN /\ count' = (seen[w] + 1) % Wrap
            /\ held' = held \cup {Slots!NextToken(w)}
            /\ result' = [result EXCEPT ![w] = "granted"]
            /\ Goto(w, "run")
       ELSE Goto(w, "inc") /\ UNCHANGED <<count, held, result>>
  /\ UNCHANGED seen

\* The query, or the subquery, is over: clientsCountDec is called.
Dec(w) == /\ pc[w] = "run" /\ Slots!LastToken(w) \in held
          /\ Goto(w, "dec")
          /\ UNCHANGED <<count, held, result, seen>>

\* A count of zero is left alone.
DecLoad(w) ==
  /\ pc[w] = "dec"
  /\ IF count = 0
       THEN Goto(w, "run") /\ held' = held \ {Slots!LastToken(w)} /\ UNCHANGED seen
       ELSE Goto(w, "decCAS") /\ seen' = [seen EXCEPT ![w] = count] /\ UNCHANGED held
  /\ UNCHANGED <<count, result>>

DecCAS(w) ==
  /\ pc[w] = "decCAS"
  /\ IF count = seen[w]
       THEN /\ count' = seen[w] - 1
            /\ held' = held \ {Slots!LastToken(w)}
            /\ Goto(w, "run")
       ELSE Goto(w, "dec") /\ UNCHANGED <<count, held>>
  /\ UNCHANGED <<result, seen>>

Step(w) == IncLoad(w) \/ IncCAS(w) \/ DecLoad(w) \/ DecCAS(w)

Next == \E w \in Workers : Inc(w) \/ Dec(w) \/ Step(w)

Spec == Init /\ [][Next]_vars

\* Goroutines in a loop are scheduled; new calls need not come.
FairSpec == Spec /\ \A w \in Workers : WF_vars(Step(w))

-----------------------------------------------------------------------------
\* The variables have the types of the code's.
TypeOK == /\ count \in 0..MaxClients
          /\ held \subseteq Slots!Tokens
          /\ result \in [Workers -> {"none", "granted", "refused"}]
          /\ pc \in [Workers -> {"run", "inc", "incCAS", "dec", "decCAS"}]
          /\ seen \in [Workers -> 0..MaxClients]

\* The counter is the number of slots granted, and so at most max_clients
\* are, whatever the interleaving of the two loops (proxy.go:622-642).
CountExact == count = Cardinality(held)

\* clientsCountDec never finds the counter at zero: its guard against a
\* wrap-around (proxy.go:637) hides no unbalanced call.
DecNeverAtZero == \A w \in Workers : pc[w] \in {"dec", "decCAS"} => count > 0

\* The loops implement atomic acquisition, refusal and release of slots.  In
\* particular a request is refused only at a moment when all are taken.
ImplementsSlots == Slots!SlotsSpec

\* A goroutine is kept in a loop (proxy.go:623, 636) only by the others
\* changing the counter again and again.
LockFree == \A w \in Workers : <>[](pc[w] # "run") => []<><<count' # count>>_vars
=============================================================================
